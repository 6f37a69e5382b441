----------------------------- MODULE Pflr_proofs -----------------------------
(***************************************************************************)
(* What PFLR promises, for every number of packets, slots and paths: the   *)
(* records of both ends are well formed (all schemes), the bitmaps agree   *)
(* with the reassembly (scheme 3), and a packet of data is reported lost   *)
(* only if a copy of it was lost (schemes 1 and 3).                        *)
(***************************************************************************)
EXTENDS Pflr, NatFacts_proofs, SequenceTheorems

Total == NPkts + MaxRts

\* What the assumption says, one number at a time.
LEMMA Numbers ==
    /\ NPkts \in Nat /\ NPkts > 0 /\ NSlots \in Nat /\ NSlots > 0
    /\ EvSpace \in Nat /\ EvSpace > 0 /\ EvSpace % NSlots = 0
    /\ ProbeEvery \in Nat /\ MaxFaults \in Nat /\ MaxChange \in Nat
    /\ MaxRto \in Nat /\ MaxRts \in Nat /\ Total \in Nat /\ Total > 0
    /\ Psns = 0 .. Total - 1
  BY PflrAssumption DEF Total, Psns

\* A psn belongs to one of the slots.
LEMMA SlotOfPsn ==
    ASSUME NEW p \in Nat
    PROVE  Slot(p) \in Slots
  BY Numbers, Euclid DEF Slot, Slots

-----------------------------------------------------------------------------
(* The receiver *)

RcvFields == {"got", "start", "end", "bits", "nacked", "expect", "gens"}

\* The record of the receiver.  The bitmaps lie between start and end.
RcvTyped(r) ==
    /\ r = [x \in RcvFields |-> r[x]]
    /\ r.got \in SUBSET Psns /\ r.bits \in SUBSET Psns /\ r.nacked \in SUBSET Psns
    /\ r.start \in Nat /\ r.end \in Nat /\ r.start <= r.end /\ r.end <= Total
    /\ r.expect \in [Slots -> Nat]
    /\ \A p \in r.bits \cup r.nacked : r.start <= p /\ p < r.end

\* The numbers of the record.
LEMMA RcvNumbers ==
    ASSUME NEW r, RcvTyped(r)
    PROVE  /\ r.start \in Nat /\ r.end \in Nat /\ r.start <= r.end /\ r.end <= Total
           /\ \A p \in r.bits \cup r.nacked : p \in Nat /\ r.start <= p /\ p < r.end
  BY SMTT(30), Numbers DEF RcvTyped

\* The bitmaps of scheme 3 know that p came.
Marked(r, p) == p < r.start \/ p \in r.bits

\* From r to t the bitmaps learn of the packets of D, and of no other.
Learns(r, t, D) ==
    /\ t.got = r.got /\ t.expect = r.expect
    /\ \A p \in Psns : Marked(t, p) <=> (Marked(r, p) \/ p \in D)

\* The bitmaps are extended to reach psn.
LEMMA ExtendLearns ==
    ASSUME NEW r, RcvTyped(r), NEW psn \in Psns, NEW t, t = Extend(r, psn)
    PROVE  /\ RcvTyped(t) /\ Learns(r, t, {}) /\ psn < t.end
           /\ t.start = r.start /\ t.bits = r.bits /\ t.nacked = r.nacked
<1> DEFINE e == Max({r.end, psn + 1})
<1>1. e \in Nat /\ e >= r.end /\ e > psn /\ e <= Total
  <2>1. r.end \in Nat /\ r.end <= Total /\ psn + 1 \in Nat /\ psn + 1 <= Total
    BY SMTT(30), Numbers DEF RcvTyped
  <2>2. e = IF r.end >= psn + 1 THEN r.end ELSE psn + 1
    BY <2>1, MaxInts
  <2> HIDE DEF e
  <2> QED
    BY <2>1, <2>2, Numbers
<1>2. t = [r EXCEPT !.end = e]
  BY DEF Extend
<1> HIDE DEF e
<1>3. /\ t = [x \in RcvFields |-> t[x]] /\ t.end = e
      /\ t.got = r.got /\ t.start = r.start /\ t.bits = r.bits
      /\ t.nacked = r.nacked /\ t.expect = r.expect
  BY <1>2 DEF RcvTyped, RcvFields
<1>4. /\ r.start <= e
      /\ \A p \in r.bits \cup r.nacked : r.start <= p /\ p < e
  BY <1>1, RcvNumbers
<1>5. RcvTyped(t)
  BY <1>1, <1>3, <1>4 DEF RcvTyped
<1> QED
  BY <1>1, <1>3, <1>5 DEF Learns, Marked

\* A packet sets its bit, if it is not behind the bitmaps.
LEMMA BitLearns ==
    ASSUME NEW r, RcvTyped(r), NEW psn \in Psns, psn >= r.start, psn < r.end,
           NEW t, t = [r EXCEPT !.bits = r.bits \cup {psn}]
    PROVE  RcvTyped(t) /\ Learns(r, t, {psn}) /\ t.start = r.start
<1> DEFINE b == r.bits \cup {psn}
<1>1. b \in SUBSET Psns
  BY DEF RcvTyped
<1>2. \A p \in b \cup r.nacked : r.start <= p /\ p < r.end
  BY DEF RcvTyped
<1> HIDE DEF b
<1>3. t = [r EXCEPT !.bits = b]
  BY DEF b
<1>4. /\ t = [x \in RcvFields |-> t[x]] /\ t.bits = b
      /\ t.got = r.got /\ t.start = r.start /\ t.end = r.end
      /\ t.nacked = r.nacked /\ t.expect = r.expect
  BY <1>3 DEF RcvTyped, RcvFields
<1>5. RcvTyped(t)
  BY <1>1, <1>2, <1>4 DEF RcvTyped
<1> QED
  BY <1>4, <1>5 DEF Learns, Marked, b

\* The NACKed packets are marked as NACKed.
LEMMA NackedLearns ==
    ASSUME NEW r, RcvTyped(r), NEW ps \in SUBSET Psns,
           \A p \in ps : r.start <= p /\ p < r.end,
           NEW t, t = MarkNacked(r, ps).r
    PROVE  /\ RcvTyped(t) /\ Learns(r, t, {}) /\ t.start = r.start
           /\ MarkNacked(r, ps).nacks = ps
<1> DEFINE n == r.nacked \cup ps
<1>1. n \in SUBSET Psns /\ \A p \in r.bits \cup n : r.start <= p /\ p < r.end
  BY DEF RcvTyped
<1>2. t = [r EXCEPT !.nacked = n] /\ MarkNacked(r, ps).nacks = ps
  BY DEF MarkNacked
<1> HIDE DEF n
<1>3. /\ t = [x \in RcvFields |-> t[x]] /\ t.nacked = n
      /\ t.got = r.got /\ t.start = r.start /\ t.end = r.end
      /\ t.bits = r.bits /\ t.expect = r.expect
  BY <1>2 DEF RcvTyped, RcvFields
<1>4. RcvTyped(t)
  BY <1>1, <1>3 DEF RcvTyped
<1> QED
  BY <1>2, <1>3, <1>4 DEF Learns, Marked

\* What came at the front leaves the bitmaps: they know of the same packets.
LEMMA ShiftLearns ==
    ASSUME NEW r, RcvTyped(r), NEW t, t = Shift(r)
    PROVE  RcvTyped(t) /\ Learns(r, t, {})
<1> DEFINE T  == {p \in r.start .. r.end : p \notin r.bits}
           st == Min(T)
           b  == {p \in r.bits : p >= st}
           n  == {p \in r.nacked : p >= st}
<1>1. T \in SUBSET Nat /\ T # {}
  <2>1. r.end \in T
    BY DEF RcvTyped
  <2> QED
    BY <2>1 DEF RcvTyped
<1>2. st \in T /\ \A p \in T : st <= p
  <2> HIDE DEF T
  <2> QED
    BY <1>1, MinNat
<1>3. /\ st \in Nat /\ r.start <= st /\ st <= r.end /\ st \notin r.bits
      /\ \A p \in Nat : r.start <= p /\ p < st => p \in r.bits
  <2>1. st \in r.start .. r.end /\ st \notin r.bits
    BY <1>2
  <2>2. ASSUME NEW p \in Nat, r.start <= p, p < st, p \notin r.bits
        PROVE  FALSE
    <3>1. p \in T
      BY <2>1, <2>2 DEF RcvTyped
    <3> HIDE DEF st, T
    <3> QED
      BY <1>2, <2>1, <2>2, <3>1 DEF RcvTyped
  <2> QED
    BY <2>1, <2>2 DEF RcvTyped
<1>4. t = [r EXCEPT !.start = st, !.bits = b, !.nacked = n]
  BY DEF Shift
<1> HIDE DEF st, T
<1>5. /\ b \in SUBSET Psns /\ n \in SUBSET Psns
      /\ \A p \in b \cup n : st <= p /\ p < r.end
  BY <1>3 DEF RcvTyped
<1>6. \A p \in Psns : (p < st \/ p \in b) <=> (p < r.start \/ p \in r.bits)
  <2> TAKE p \in Psns
  <2>1. p \in Nat
    BY Numbers
  <2>2. r.start \in Nat /\ (p \in r.bits => r.start <= p)
    BY DEF RcvTyped
  <2>3. p \in b <=> (p \in r.bits /\ p >= st)
    OBVIOUS
  <2> QED
    BY <1>3, <2>1, <2>2, <2>3
<1> HIDE DEF b, n
<1>7. /\ t = [x \in RcvFields |-> t[x]] /\ t.start = st /\ t.bits = b
      /\ t.nacked = n /\ t.got = r.got /\ t.end = r.end /\ t.expect = r.expect
  BY <1>4 DEF RcvTyped, RcvFields
<1>8. RcvTyped(t)
  BY <1>3, <1>5, <1>7 DEF RcvTyped
<1> QED
  BY <1>6, <1>7, <1>8 DEF Learns, Marked

\* Scheme 3: the bitmaps learn of the packet that came.  It names, if it is
\* a first copy, packets of its slot from ev up to it that they know not of.
LEMMA Detect3Learns ==
    ASSUME NEW r, RcvTyped(r), NEW psn \in Psns, NEW ev \in Evs, NEW first \in BOOLEAN
    PROVE  /\ RcvTyped(Detect3(r, psn, ev, first).r)
           /\ Learns(r, Detect3(r, psn, ev, first).r, {psn})
           /\ Detect3(r, psn, ev, first).nacks \subseteq Psns
           /\ \A p \in Detect3(r, psn, ev, first).nacks :
                 first /\ Slot(p) = Slot(psn) /\ ev <= p /\ p < psn /\ ~Marked(r, p)
<1> DEFINE x  == Extend(r, psn)
           r1 == IF psn >= r.start THEN [x EXCEPT !.bits = x.bits \cup {psn}] ELSE r
           ps == Missing(r1, ev, psn)
           d  == IF first THEN MarkNacked(r1, ps) ELSE [r |-> r1, nacks |-> {}]
<1>1. Detect3(r, psn, ev, first) = [d EXCEPT !.r = Shift(d.r)]
  BY DEF Detect3
<1>2. RcvTyped(r1) /\ Learns(r, r1, {psn}) /\ (psn >= r1.start => psn \in r1.bits)
  <2>1. CASE psn >= r.start
    <3>1. RcvTyped(x) /\ Learns(r, x, {}) /\ psn < x.end /\ x.start = r.start
      BY ExtendLearns
    <3>2. r1 = [x EXCEPT !.bits = x.bits \cup {psn}]
      BY <2>1
    <3> HIDE DEF r1, x
    <3>3. RcvTyped(r1) /\ Learns(x, r1, {psn}) /\ r1.start = x.start
      BY <2>1, <3>1, <3>2, BitLearns
    <3>4. psn \in r1.bits
      BY <3>1, <3>2 DEF RcvTyped, RcvFields
    <3> QED
      BY <3>1, <3>3, <3>4 DEF Learns
  <2>2. CASE ~(psn >= r.start)
    <3>1. r1 = r
      BY <2>2
    <3> QED
      BY SMTT(30), <2>2, <3>1, RcvNumbers, Numbers DEF Learns, Marked
  <2> QED
    BY <2>1, <2>2
<1> HIDE DEF r1
<1>3. /\ ps \in SUBSET Psns
      /\ \A p \in ps : /\ Slot(p) = Slot(psn) /\ ev <= p /\ p < psn
                       /\ r1.start <= p /\ p \notin r1.bits
  BY <1>2, Numbers DEF Missing, Gap, Evs
<1> HIDE DEF ps
<1>4. /\ RcvTyped(d.r) /\ Learns(r, d.r, {psn}) /\ d.nacks \in SUBSET Psns
      /\ d = [r |-> d.r, nacks |-> d.nacks]
      /\ \A p \in d.nacks : first /\ p \in ps
  <2>1. CASE first
    <3>1. \A p \in ps : r1.start <= p /\ p < r1.end
      <4> TAKE p \in ps
      <4>1. p \in Nat /\ psn \in Nat /\ r1.start <= p /\ p < psn /\ r1.start \in Nat
        BY <1>2, <1>3, Numbers, RcvNumbers
      <4>2. psn \in r1.bits
        BY <1>2, <4>1
      <4> QED
        BY <1>2, <4>1, <4>2, RcvNumbers
    <3>2. d = MarkNacked(r1, ps)
      BY <2>1
    <3> HIDE DEF d
    <3>3. /\ RcvTyped(d.r) /\ Learns(r1, d.r, {}) /\ d.nacks = ps
      BY <1>2, <1>3, <3>1, <3>2, NackedLearns
    <3>4. d = [r |-> d.r, nacks |-> d.nacks]
      BY <3>2 DEF MarkNacked
    <3> QED
      BY <1>2, <1>3, <2>1, <3>3, <3>4 DEF Learns
  <2>2. CASE ~first
    <3>1. d = [r |-> r1, nacks |-> {}]
      BY <2>2
    <3> QED
      BY <1>2, <3>1
  <2> QED
    BY <2>1, <2>2
<1> HIDE DEF d
<1>5. /\ Detect3(r, psn, ev, first).r = Shift(d.r)
      /\ Detect3(r, psn, ev, first).nacks = d.nacks
  BY <1>1, <1>4
<1>6. RcvTyped(Shift(d.r)) /\ Learns(d.r, Shift(d.r), {})
  BY <1>4, ShiftLearns
<1>7. Learns(r, Shift(d.r), {psn})
  BY <1>4, <1>6 DEF Learns
<1>8. \A p \in ps : ~Marked(r, p)
  <2> TAKE p \in ps
  <2>1. p \in Psns /\ r1.start <= p /\ p \notin r1.bits
    BY <1>3
  <2>2. ~Marked(r1, p)
    BY <1>2, <2>1, Numbers, RcvNumbers DEF Marked
  <2> QED
    BY <1>2, <2>1, <2>2 DEF Learns
<1> QED
  BY <1>3, <1>4, <1>5, <1>6, <1>7, <1>8

\* Scheme 1: the slot expects the packets behind the one that came.  It names
\* the packets of the slot from the expected one up to it.
LEMMA Detect1Learns ==
    ASSUME NEW r, RcvTyped(r), NEW psn \in Psns
    PROVE  LET d == Detect1(r, psn)
           IN  /\ RcvTyped(d.r) /\ d.r.got = r.got /\ d.nacks \in SUBSET Psns
               /\ psn < d.r.expect[Slot(psn)]
               /\ \A p \in Psns : p < r.expect[Slot(p)] => p < d.r.expect[Slot(p)]
               /\ \A p \in d.nacks : /\ Slot(p) = Slot(psn) /\ p < psn
                                     /\ ~(p < r.expect[Slot(p)])
<1> DEFINE k == Slot(psn)
           f == [r.expect EXCEPT ![k] = psn + NSlots]
           t == [r EXCEPT !.expect = f]
<1>1. k \in Slots /\ r.expect \in [Slots -> Nat] /\ psn \in Nat
  BY SMTT(30), Numbers, SlotOfPsn DEF RcvTyped
<1>2. CASE r.expect[k] <= psn
  <2>1. Detect1(r, psn) = [r |-> t, nacks |-> Gap(r.expect[k], psn)]
    BY <1>2 DEF Detect1
  <2>2. /\ f \in [Slots -> Nat] /\ f[k] = psn + NSlots
        /\ \A j \in Slots \ {k} : f[j] = r.expect[j]
    BY <1>1, Numbers
  <2> HIDE DEF f
  <2>3. /\ t = [x \in RcvFields |-> t[x]] /\ t.expect = f
        /\ t.got = r.got /\ t.start = r.start /\ t.end = r.end
        /\ t.bits = r.bits /\ t.nacked = r.nacked
    BY DEF RcvTyped, RcvFields
  <2> HIDE DEF t
  <2>4. RcvTyped(t)
    BY <2>2, <2>3 DEF RcvTyped
  <2>5. \A p \in Psns : p < r.expect[Slot(p)] => p < f[Slot(p)]
    <3> TAKE p \in Psns
    <3>1. Slot(p) \in Slots /\ p \in Nat
      BY Numbers, SlotOfPsn
    <3> QED
      BY <1>1, <1>2, <2>2, <3>1, Numbers
  <2>6. \A p \in Gap(r.expect[k], psn) :
           p \in Psns /\ Slot(p) = k /\ p < psn /\ ~(p < r.expect[Slot(p)])
    BY <1>1, Numbers DEF Gap
  <2>7. psn < f[k]
    BY <1>1, <2>2, Numbers
  <2> HIDE DEF k
  <2> QED
    BY <2>1, <2>3, <2>4, <2>5, <2>6, <2>7 DEF k
<1>3. CASE ~(r.expect[k] <= psn)
  <2>1. Detect1(r, psn) = [r |-> r, nacks |-> {}]
    BY <1>3 DEF Detect1
  <2>2. psn < r.expect[k]
    BY <1>1, <1>3
  <2> QED
    BY <2>1, <2>2
<1> QED
  BY <1>2, <1>3

\* Scheme 2 keeps its own records only.
LEMMA Detect2Keeps ==
    ASSUME NEW r, RcvTyped(r), NEW psn \in Psns, NEW ev \in Evs
    PROVE  LET d == Detect2(r, psn, ev)
           IN  /\ RcvTyped(d.r) /\ d.r.got = r.got /\ d.r.expect = r.expect
               /\ d.nacks \in SUBSET Psns
<1> DEFINE d == Detect2(r, psn, ev)  t == d.r
<1>1. d.nacks \in SUBSET Psns
  BY DEF Detect2, Gap
<1>2. /\ t = [x \in RcvFields |-> t[x]]
      /\ t.got = r.got /\ t.start = r.start /\ t.end = r.end
      /\ t.bits = r.bits /\ t.nacked = r.nacked /\ t.expect = r.expect
  <2>1. \A f : LET u == [r EXCEPT !.gens = f]
               IN  /\ u = [x \in RcvFields |-> u[x]]
                   /\ u.got = r.got /\ u.start = r.start /\ u.end = r.end
                   /\ u.bits = r.bits /\ u.nacked = r.nacked /\ u.expect = r.expect
    BY SMTT(30) DEF RcvTyped, RcvFields
  <2>2. \E f : t = [r EXCEPT !.gens = f]
    BY DEF Detect2
  <2> QED
    BY <2>1, <2>2
<1> HIDE DEF d
<1>3. RcvTyped(t)
  BY <1>2 DEF RcvTyped
<1> QED
  BY SMTT(30), <1>1, <1>2, <1>3 DEF d

\* What a detector returns: the receiver and the psns to NACK.
Verdict(d) == d = [r |-> d.r, nacks |-> d.nacks]

\* Every detector returns a verdict.
LEMMA DetectVerdict ==
    ASSUME NEW r, NEW psn, NEW ev, NEW first \in BOOLEAN
    PROVE  /\ Verdict(Detect1(r, psn)) /\ Verdict(Detect2(r, psn, ev))
           /\ Verdict(Detect3(r, psn, ev, first))
<1>1. Verdict(Detect1(r, psn))
  BY SMTT(30) DEF Verdict, Detect1
<1>2. Verdict(Detect2(r, psn, ev))
  BY DEF Verdict, Detect2
<1>3. Verdict(Detect3(r, psn, ev, first))
  <2> DEFINE r1 == IF psn >= r.start
                   THEN [Extend(r, psn) EXCEPT !.bits = @ \cup {psn}] ELSE r
             d  == IF first THEN MarkNacked(r1, Missing(r1, ev, psn))
                   ELSE [r |-> r1, nacks |-> {}]
  <2>1. Detect3(r, psn, ev, first) = [d EXCEPT !.r = Shift(d.r)]
    BY DEF Detect3
  <2>2. d = [r |-> d.r, nacks |-> d.nacks]
    BY DEF MarkNacked
  <2> HIDE DEF d
  <2> QED
    BY <2>1, <2>2 DEF Verdict
<1> QED
  BY <1>1, <1>2, <1>3

\* The receiver has noted, in the records of its scheme, that p came.
SeenBy(r, p) == IF Scheme = 3 THEN Marked(r, p) ELSE p < r.expect[Slot(p)]

\* The first psn of the packets that a path carries.
Base(ev) == IF Scheme = 3 THEN ev ELSE 0

\* The psns of one slot that one path carries, up to psn.
Section(ev, psn) == {p \in Psns : Slot(p) = Slot(psn) /\ Base(ev) <= p /\ p <= psn}

\* From r to t the receiver accepts the packets of D and forgets none.
Accepts(r, t, D) ==
    /\ RcvTyped(t) /\ t.got = r.got \cup D
    /\ Scheme = 3 => \A p \in Psns : Marked(t, p) <=> (Marked(r, p) \/ p \in D)
    /\ \A p \in Psns : SeenBy(r, p) => SeenBy(t, p)

\* A packet with data is accepted, and noted unless it is a repeated one of
\* scheme 1.  Only a first copy names others, which its path carries before it.
LEMMA DataAccepted ==
    ASSUME NEW r, RcvTyped(r), NEW m, m.t \in {"data", "rtx"}, m.psn \in Psns, m.ev \in Evs
    PROVE  LET d == ProcessData(r, m)
           IN  /\ Accepts(r, d.r, {m.psn}) /\ d.nacks \in SUBSET Psns
               /\ Scheme = 3 \/ (Scheme = 1 /\ m.t = "data") => SeenBy(d.r, m.psn)
               /\ Scheme \in {1, 3} =>
                    \A p \in d.nacks : /\ m.t = "data" /\ p \in Section(m.ev, m.psn) \ {m.psn}
                                       /\ ~SeenBy(r, p)
<1> DEFINE first == m.t = "data"
           c == Detect(r, m.psn, m.ev, first)
           u == c.r
           t == [u EXCEPT !.got = u.got \cup {m.psn}]
           d == ProcessData(r, m)
<1>1. /\ RcvTyped(u) /\ u.got = r.got /\ c.nacks \in SUBSET Psns /\ Verdict(c)
      /\ Scheme = 3 => \A p \in Psns : Marked(u, p) <=> (Marked(r, p) \/ p = m.psn)
      /\ \A p \in Psns : SeenBy(r, p) => SeenBy(u, p)
      /\ Scheme = 3 \/ (Scheme = 1 /\ m.t = "data") => SeenBy(u, m.psn)
      /\ Scheme \in {1, 3} =>
           \A p \in c.nacks : /\ m.t = "data" /\ p \in Section(m.ev, m.psn) \ {m.psn}
                              /\ ~SeenBy(r, p)
  <2>1. CASE Scheme = 3
    <3>1. c = Detect3(r, m.psn, m.ev, first)
      BY <2>1 DEF Detect
    <3> HIDE DEF c
    <3>2. first \in BOOLEAN
      OBVIOUS
    <3> HIDE DEF first
    <3> DEFINE e == Detect3(r, m.psn, m.ev, first)
    <3>a. Verdict(e)
      BY <3>2, DetectVerdict
    <3>3. /\ RcvTyped(e.r) /\ Learns(r, e.r, {m.psn}) /\ e.nacks \subseteq Psns
          /\ \A p \in e.nacks : /\ first /\ Slot(p) = Slot(m.psn) /\ m.ev <= p
                                /\ p < m.psn /\ ~Marked(r, p)
      BY <3>2, Detect3Learns
    <3>4. c = e
      BY <3>1
    <3> HIDE DEF e
    <3> QED
      BY <2>1, <3>a, <3>3, <3>4, Numbers DEF Learns, SeenBy, Section, Base, first
  <2>2. CASE Scheme = 1 /\ first
    <3>1. c = Detect1(r, m.psn)
      BY <2>2 DEF Detect
    <3> HIDE DEF c
    <3>2. /\ RcvTyped(u) /\ u.got = r.got /\ c.nacks \in SUBSET Psns /\ Verdict(c)
          /\ m.psn < u.expect[Slot(m.psn)]
          /\ \A p \in Psns : p < r.expect[Slot(p)] => p < u.expect[Slot(p)]
          /\ \A p \in c.nacks : /\ Slot(p) = Slot(m.psn) /\ p < m.psn
                                /\ ~(p < r.expect[Slot(p)])
      BY <3>1, Detect1Learns, DetectVerdict
    <3> QED
      BY <2>2, <3>2, Numbers DEF SeenBy, Section, Base
  <2>3. CASE Scheme = 2 /\ first
    <3>1. c = Detect2(r, m.psn, m.ev)
      BY <2>3 DEF Detect
    <3> HIDE DEF c
    <3>2. /\ RcvTyped(u) /\ u.got = r.got /\ u.expect = r.expect
          /\ c.nacks \in SUBSET Psns /\ Verdict(c)
      BY <3>1, Detect2Keeps, DetectVerdict
    <3> QED
      BY <2>3, <3>2 DEF SeenBy
  <2>4. CASE Scheme # 3 /\ ~first
    <3>1. c = [r |-> r, nacks |-> {}]
      BY <2>4 DEF Detect
    <3> QED
      BY <2>4, <3>1 DEF Verdict
  <2> QED
    BY <2>1, <2>2, <2>3, <2>4, PflrAssumption
<1>2. d = [c EXCEPT !.r = t]
  BY DEF ProcessData
<1> HIDE DEF c
<1>3. d.r = t /\ d.nacks = c.nacks
  BY <1>1, <1>2 DEF Verdict
<1>4. /\ t = [x \in RcvFields |-> t[x]] /\ t.got = r.got \cup {m.psn}
      /\ t.start = u.start /\ t.end = u.end /\ t.bits = u.bits
      /\ t.nacked = u.nacked /\ t.expect = u.expect
  BY <1>1 DEF RcvTyped, RcvFields
<1> HIDE DEF t, d
<1>5. RcvTyped(t)
  BY <1>1, <1>4 DEF RcvTyped
<1>6. \A p : (Marked(t, p) <=> Marked(u, p)) /\ (SeenBy(t, p) <=> SeenBy(u, p))
  BY <1>4 DEF Marked, SeenBy
<1>7. Accepts(r, t, {m.psn})
  BY <1>1, <1>4, <1>5, <1>6 DEF Accepts
<1> QED
  BY <1>1, <1>3, <1>6, <1>7 DEF d

\* What leaves the reassembly alone accepts nothing.
LEMMA AcceptsNone ==
    ASSUME NEW r, NEW t, RcvTyped(t), Learns(r, t, {})
    PROVE  Accepts(r, t, {})
  BY DEF Learns, Accepts, SeenBy

\* The same receiver accepts nothing.
LEMMA AcceptsSame ==
    ASSUME NEW r, RcvTyped(r)
    PROVE  Accepts(r, r, {})
  BY DEF Accepts

\* A probe accepts nothing.  It names packets that the bitmaps know not of: of
\* its section, or itself when it follows a repeated packet.
LEMMA ProbeAccepted ==
    ASSUME NEW r, RcvTyped(r), NEW m, m.psn \in Psns, m.ev \in Evs
    PROVE  LET d == ProcessProbe(r, m)
           IN  /\ Accepts(r, d.r, {}) /\ d.nacks \in SUBSET Psns
               /\ m.promoted /\ Coalescing /\ ~AcceptPromoted => d.nacks = {}
               /\ Scheme = 3 =>
                    \A p \in d.nacks :
                       /\ IF m.kind = "rtx" THEN p = m.psn ELSE p \in Section(m.ev, m.psn)
                       /\ ~SeenBy(r, p)
<1> DEFINE r1 == Extend(r, m.psn)
           ps == IF m.kind = "rtx" THEN {p \in {m.psn} : p >= r1.start /\ p \notin r1.bits}
                                   ELSE Missing(r1, m.ev, m.psn)
           d  == ProcessProbe(r, m)
<1>1. /\ RcvTyped(r1) /\ Learns(r, r1, {}) /\ m.psn < r1.end
      /\ r1.start = r.start /\ r1.bits = r.bits
  BY ExtendLearns
<1>2. CASE m.promoted /\ Coalescing /\ ~AcceptPromoted
  <2>1. d = [r |-> r, nacks |-> {}]
    BY <1>2 DEF ProcessProbe
  <2> QED
    BY <2>1, AcceptsSame
<1>3. CASE ~(m.promoted /\ Coalescing /\ ~AcceptPromoted)
  <2>1. d = MarkNacked(r1, ps)
    BY <1>3 DEF ProcessProbe
  <2>2. /\ ps \in SUBSET Psns
        /\ \A p \in ps : /\ r1.start <= p /\ p <= m.psn /\ p \notin r1.bits
                         /\ IF m.kind = "rtx" THEN p = m.psn
                            ELSE Slot(p) = Slot(m.psn) /\ m.ev <= p
    <3> HIDE DEF r1
    <3>1. r1.start \in Nat /\ m.psn \in Nat /\ m.ev \in Nat
      BY <1>1, RcvNumbers, Numbers DEF Evs
    <3> QED
      BY <3>1, Numbers DEF Missing, Gap
  <2> HIDE DEF r1, ps, d
  <2>3. \A p \in ps : r1.start <= p /\ p < r1.end
    <3> TAKE p \in ps
    <3>1. r1.end \in Nat /\ m.psn \in Nat /\ p \in Nat
      BY <1>1, <2>2, RcvNumbers, Numbers
    <3> QED
      BY <1>1, <2>2, <3>1
  <2>4. RcvTyped(d.r) /\ Learns(r1, d.r, {}) /\ d.nacks = ps
    BY <1>1, <2>1, <2>2, <2>3, NackedLearns
  <2>5. Learns(r, d.r, {})
    BY <1>1, <2>4 DEF Learns
  <2>6. \A p \in ps : ~Marked(r, p)
    <3> TAKE p \in ps
    <3>1. r.start \in Nat /\ p \in Nat
      BY <2>2, RcvNumbers, Numbers
    <3> QED
      BY <1>1, <2>2, <3>1 DEF Marked
  <2>7. Accepts(r, d.r, {})
    BY <2>4, <2>5, AcceptsNone
  <2> QED
    BY <1>3, <2>2, <2>4, <2>6, <2>7 DEF d, SeenBy, Section, Base
<1> QED
  BY <1>2, <1>3

\* A trimmed packet accepts nothing, and names itself.  That the bitmaps know
\* only of accepted packets keeps its index in them from falling below zero.
LEMMA TrimAccepted ==
    ASSUME NEW r, RcvTyped(r), NEW m, m.psn \in Psns,
           Scheme = 3 => \A p \in Psns : Marked(r, p) => p \in r.got
    PROVE  LET d == ProcessTrimmed(r, m)
           IN  Accepts(r, d.r, {}) /\ d.nacks \in SUBSET Psns /\ d.nacks \subseteq {m.psn}
<1> DEFINE r1 == Extend(r, m.psn)
           ps == {m.psn} \ (r1.bits \cup r1.nacked)
           d  == ProcessTrimmed(r, m)
<1>1. CASE m.psn \in r.got
  <2>1. d = [r |-> r, nacks |-> {}]
    BY <1>1 DEF ProcessTrimmed
  <2> QED
    BY <2>1, AcceptsSame
<1>2. CASE m.psn \notin r.got /\ (Scheme # 3 \/ (~Coalescing /\ r.end = r.start))
  <2>1. d = [r |-> r, nacks |-> {m.psn}]
    BY <1>2 DEF ProcessTrimmed
  <2> QED
    BY <2>1, AcceptsSame
<1>3. CASE m.psn \notin r.got /\ ~(Scheme # 3 \/ (~Coalescing /\ r.end = r.start))
  <2>1. d = MarkNacked(r1, ps)
    BY <1>3 DEF ProcessTrimmed
  <2>2. /\ RcvTyped(r1) /\ Learns(r, r1, {}) /\ m.psn < r1.end
        /\ r1.start = r.start /\ r1.bits = r.bits
    BY ExtendLearns
  <2>3. \A p \in ps : r1.start <= p /\ p < r1.end
    <3>1. ~(m.psn < r.start)
      BY <1>3 DEF Marked
    <3>2. r.start \in Nat /\ m.psn \in Nat
      BY RcvNumbers, Numbers
    <3> QED
      BY <2>2, <3>1, <3>2
  <2>4. RcvTyped(d.r) /\ Learns(r1, d.r, {}) /\ d.nacks = ps
    BY <2>1, <2>2, <2>3, NackedLearns
  <2> QED
    BY <2>2, <2>4, AcceptsNone DEF Learns
<1> QED
  BY <1>1, <1>2, <1>3

-----------------------------------------------------------------------------
(* The sender *)

SndFields ==
    {"next", "backlog", "cur", "probes", "out", "rtx", "last", "asked", "armed"}

\* A probe that waits to be sent.
Asks == [psn : Psns, ev : Evs, kind : {"end", "data", "rtx"}]

\* The record of the sender.  A packet is outstanding or queued, and was sent.
SndTyped(s) ==
    /\ s = [x \in SndFields |-> s[x]]
    /\ s.next \in Nat /\ s.backlog \in Nat /\ s.next + s.backlog <= Total
    /\ s.cur \in [Slots -> Evs] /\ s.probes \in Seq(Asks)
    /\ s.out \in SUBSET Psns /\ s.rtx \in SUBSET Psns /\ s.out \cap s.rtx = {}
    /\ \A p \in s.out \cup s.rtx : p < s.next
    /\ s.last \in [Slots -> Psns \X Evs]
    /\ s.asked \in [Slots -> Nat] /\ s.armed \in SUBSET Slots

\* The numbers of the record.
LEMMA SndNumbers ==
    ASSUME NEW s, SndTyped(s)
    PROVE  /\ s.next \in Nat /\ s.backlog \in Nat /\ s.next + s.backlog <= Total
           /\ s.next <= Total /\ (s.backlog > 0 => s.next \in Psns)
           /\ \A p \in s.out \cup s.rtx : p \in Nat /\ p < s.next
<1>1. s.next \in Nat /\ s.backlog \in Nat /\ s.next + s.backlog <= Total
  BY DEF SndTyped
<1>2. \A p \in s.out \cup s.rtx : p \in Psns /\ p < s.next
  BY DEF SndTyped
<1> QED
  BY <1>1, <1>2, Numbers

\* The path ev reaches the packets of its section up to psn: each is settled
\* or travels on it.
Covered(ev, psn, R) == Section(ev, psn) \subseteq R[ev]

\* A probe is covered by its path: R has the first copies, A the repeated ones too.
Asked(q, R, A) ==
    /\ Scheme = 3
    /\ q.kind = "rtx" => q.psn \in A[q.ev]
    /\ q.kind # "rtx" => Covered(q.ev, q.psn, R)

\* What the sender knows of its paths: the probes that wait, the packets sent
\* on the path of a slot and the last packet of a slot are covered.
SenderOK(s, R, A) ==
    /\ \A i \in DOMAIN s.probes : Asked(s.probes[i], R, A)
    /\ \A p \in Psns : p < s.next /\ Base(s.cur[Slot(p)]) <= p => p \in R[s.cur[Slot(p)]]
    /\ \A k \in Slots : s.last[k][1] > 0 => Covered(s.last[k][2], s.last[k][1], R)

\* From s to t no new packet is sent.
Holds(s, t) == t.next = s.next /\ t.backlog = s.backlog

\* The number of an EV.
LEMMA EvNumbers ==
    /\ Evs \subseteq Nat /\ Slots \subseteq Nat
    /\ \A k \in Slots : k < NSlots
    /\ \A e \in Evs : e < EvSpace /\ Base(e) \in Nat
  BY Numbers DEF Evs, Slots, Base

\* A probe joins the queue.
LEMMA EnqueueProbeKeeps ==
    ASSUME NEW s, SndTyped(s), NEW psn \in Psns, NEW ev \in Evs,
           NEW kind \in {"end", "data", "rtx"}, NEW t, t = EnqueueProbe(s, psn, ev, kind)
    PROVE  /\ SndTyped(t) /\ Holds(s, t)
           /\ t.cur = s.cur /\ t.out = s.out /\ t.rtx = s.rtx /\ t.last = s.last
           /\ \A R, A :
                SenderOK(s, R, A)
                /\ (Scheme = 1 \/ Asked([psn |-> psn, ev |-> ev, kind |-> kind], R, A))
                => SenderOK(t, R, A)
<1> DEFINE a == [psn |-> psn, ev |-> ev, kind |-> kind]
           q == Append(s.probes, a)
<1>1. CASE Scheme = 1
  <2>1. t = s
    BY <1>1 DEF EnqueueProbe
  <2> QED
    BY <2>1 DEF Holds
<1>2. CASE Scheme # 1
  <2>1. t = [s EXCEPT !.probes = q]
    BY <1>2 DEF EnqueueProbe
  <2>2. a \in Asks /\ s.probes \in Seq(Asks)
    BY DEF Asks, SndTyped
  <2> HIDE DEF a
  <2>3. /\ q \in Seq(Asks) /\ Len(q) = Len(s.probes) + 1 /\ q[Len(q)] = a
        /\ \A i \in 1 .. Len(s.probes) : q[i] = s.probes[i]
    BY <2>2, AppendProperties
  <2> HIDE DEF q
  <2>4. /\ t = [x \in SndFields |-> t[x]] /\ t.probes = q
        /\ t.next = s.next /\ t.backlog = s.backlog /\ t.cur = s.cur
        /\ t.out = s.out /\ t.rtx = s.rtx /\ t.last = s.last
        /\ t.asked = s.asked /\ t.armed = s.armed
    BY <2>1 DEF SndTyped, SndFields
  <2>5. SndTyped(t)
    BY <2>3, <2>4 DEF SndTyped
  <2>6. \A R, A : SenderOK(s, R, A) /\ Asked(a, R, A) => SenderOK(t, R, A)
    <3> SUFFICES ASSUME NEW R, NEW A, SenderOK(s, R, A), Asked(a, R, A)
                 PROVE  SenderOK(t, R, A)
      OBVIOUS
    <3>1. ASSUME NEW i \in DOMAIN q
          PROVE  Asked(q[i], R, A)
      <4>1. i \in 1 .. Len(s.probes) + 1
        BY <2>3
      <4>2. CASE i = Len(q)
        BY <2>3, <4>2
      <4>3. CASE i \in 1 .. Len(s.probes)
        <5>1. i \in DOMAIN s.probes /\ q[i] = s.probes[i]
          BY <2>2, <2>3, <4>3
        <5> QED
          BY <5>1 DEF SenderOK
      <4> QED
        BY <2>2, <2>3, <4>1, <4>2, <4>3
    <3> QED
      BY <2>4, <3>1 DEF SenderOK
  <2> QED
    BY <1>2, <2>4, <2>5, <2>6 DEF Holds, a
<1> QED
  BY <1>1, <1>2

\* Closing a section asks for a probe of its last packet.
LEMMA CloseSectionKeeps ==
    ASSUME NEW s, SndTyped(s), NEW psn \in Psns, NEW ev \in Evs,
           NEW t, t = CloseSection(s, psn, ev)
    PROVE  /\ SndTyped(t) /\ Holds(s, t)
           /\ t.cur = s.cur /\ t.out = s.out /\ t.rtx = s.rtx /\ t.last = s.last
           /\ \A R, A :
                SenderOK(s, R, A) /\ (Scheme = 1 \/ (Scheme = 3 /\ Covered(ev, psn, R)))
                => SenderOK(t, R, A)
<1>1. CASE Probes
  <2>1. t = EnqueueProbe(s, psn, ev, "end")
    BY <1>1 DEF CloseSection
  <2> DEFINE a == [psn |-> psn, ev |-> ev, kind |-> "end"]
  <2>2. \A R, A : Scheme = 3 /\ Covered(ev, psn, R) => Asked(a, R, A)
    BY DEF Asked
  <2>3. /\ SndTyped(t) /\ Holds(s, t)
        /\ t.cur = s.cur /\ t.out = s.out /\ t.rtx = s.rtx /\ t.last = s.last
        /\ \A R, A : SenderOK(s, R, A) /\ (Scheme = 1 \/ Asked(a, R, A)) => SenderOK(t, R, A)
    BY <2>1, EnqueueProbeKeeps
  <2> HIDE DEF a
  <2> QED
    BY <2>2, <2>3
<1>2. CASE ~Probes
  <2>1. t = s
    BY <1>2 DEF CloseSection
  <2> QED
    BY <2>1 DEF Holds
<1> QED
  BY <1>1, <1>2

\* A repeated packet asks for a probe that follows it.
LEMMA RtxProbeKeeps ==
    ASSUME NEW s, SndTyped(s), NEW psn \in Psns, NEW ev \in Evs,
           NEW t, t = EnqueueProbe(s, psn, ev, "rtx")
    PROVE  /\ SndTyped(t) /\ Holds(s, t) /\ t.cur = s.cur
           /\ \A R, A :
                SenderOK(s, R, A) /\ (Scheme = 1 \/ (Scheme = 3 /\ psn \in A[ev]))
                => SenderOK(t, R, A)
<1> DEFINE a == [psn |-> psn, ev |-> ev, kind |-> "rtx"]
<1>1. \A R, A : Scheme = 3 /\ psn \in A[ev] => Asked(a, R, A)
  BY DEF Asked
<1>a. "rtx" \in {"end", "data", "rtx"} /\ t = EnqueueProbe(s, psn, ev, "rtx")
  OBVIOUS
<1>2. /\ SndTyped(t) /\ Holds(s, t)
      /\ t.cur = s.cur /\ t.out = s.out /\ t.rtx = s.rtx /\ t.last = s.last
      /\ \A R, A : SenderOK(s, R, A) /\ (Scheme = 1 \/ Asked(a, R, A)) => SenderOK(t, R, A)
  BY <1>a, EnqueueProbeKeeps
<1> HIDE DEF a
<1> QED
  BY <1>1, <1>2

\* A new packet asks for a probe that follows it.
LEMMA DataProbeKeeps ==
    ASSUME NEW s, SndTyped(s), NEW psn \in Psns, NEW ev \in Evs,
           NEW t, t = EnqueueProbe(s, psn, ev, "data")
    PROVE  /\ SndTyped(t) /\ Holds(s, t)
           /\ \A R, A :
                SenderOK(s, R, A) /\ (Scheme = 1 \/ (Scheme = 3 /\ Covered(ev, psn, R)))
                => SenderOK(t, R, A)
<1> DEFINE a == [psn |-> psn, ev |-> ev, kind |-> "data"]
<1>1. \A R, A : Scheme = 3 /\ Covered(ev, psn, R) => Asked(a, R, A)
  BY DEF Asked
<1>a. "data" \in {"end", "data", "rtx"} /\ t = EnqueueProbe(s, psn, ev, "data")
  OBVIOUS
<1>2. /\ SndTyped(t) /\ Holds(s, t)
      /\ t.cur = s.cur /\ t.out = s.out /\ t.rtx = s.rtx /\ t.last = s.last
      /\ \A R, A : SenderOK(s, R, A) /\ (Scheme = 1 \/ Asked(a, R, A)) => SenderOK(t, R, A)
  BY <1>a, EnqueueProbeKeeps
<1> HIDE DEF a
<1> QED
  BY <1>1, <1>2

\* The EVs of a flow do not wrap around: it is shorter than the space of EVs.
EvsSuffice == Total + NSlots <= EvSpace

\* The last psn sent in a slot; the next of the slot is beyond what was sent.
LEMMA LastSent ==
    ASSUME NEW s, SndTyped(s), NEW k \in Slots, k < s.next
    PROVE  /\ LastSentInSlot(s, k) \in Psns /\ LastSentInSlot(s, k) < s.next
           /\ Slot(LastSentInSlot(s, k)) = k
           /\ s.next <= LastSentInSlot(s, k) + NSlots
<1>1. s.next - 1 \in Nat /\ k \in Nat /\ k <= s.next - 1 /\ k < NSlots /\ s.next <= Total
  BY EvNumbers, Numbers, SndNumbers
<1> DEFINE i == s.next - 1
<1>2. LastSentInSlot(s, k) = i - ((i - k) % NSlots)
  BY DEF LastSentInSlot
<1> HIDE DEF i
<1>3. /\ i - ((i - k) % NSlots) \in Nat
      /\ i - ((i - k) % NSlots) <= i /\ i < i - ((i - k) % NSlots) + NSlots
      /\ (i - ((i - k) % NSlots)) % NSlots = k
  BY <1>1, Numbers, LastWithRemainder DEF i
<1> DEFINE l == LastSentInSlot(s, k)
<1>4. l \in Nat /\ l <= i /\ i < l + NSlots /\ l % NSlots = k
  BY <1>2, <1>3
<1> HIDE DEF l
<1>5. l \in Psns /\ l < s.next /\ s.next <= l + NSlots
  BY <1>1, <1>4, Numbers, SndNumbers DEF i
<1> QED
  BY <1>4, <1>5 DEF Slot, l

\* A slot changes its path.  What was sent on the old one is closed by a probe;
\* under scheme 3 nothing was sent on the new one yet.
LEMMA ChangePathKeeps ==
    ASSUME NEW s, SndTyped(s), NEW k \in Slots, k < s.next, NEW t, t = ChangePath(s, k)
    PROVE  /\ SndTyped(t) /\ Holds(s, t) /\ t.out = s.out /\ t.rtx = s.rtx
           /\ Scheme = 3 /\ EvsSuffice =>
                \A R, A : SenderOK(s, R, A) => SenderOK(t, R, A)
<1> DEFINE l == LastSentInSlot(s, k)
           ev == s.cur[k]
           new == NewEv(s, k)
           c == [s.cur EXCEPT ![k] = new]
           u == [s EXCEPT !.cur = c]
<1>1. /\ l \in Psns /\ l \in Nat /\ l < s.next /\ Slot(l) = k
      /\ s.next <= l + NSlots /\ s.next <= Total /\ s.next \in Nat
  BY LastSent, SndNumbers, Numbers
<1>2. ev \in Evs /\ s.cur \in [Slots -> Evs]
  BY DEF SndTyped
<1>3. new \in Evs /\ (Scheme = 3 /\ EvsSuffice => new = l + NSlots)
  <2> HIDE DEF l, ev
  <2>1. CASE Scheme = 2
    <3>1. new = (ev + 1) % EvSpace
      BY <2>1 DEF NewEv, ev
    <3> HIDE DEF new
    <3>2. (ev + 1) % EvSpace \in 0 .. EvSpace - 1
      BY <1>2, EvNumbers, Numbers, Euclid
    <3> QED
      BY <2>1, <3>1, <3>2 DEF Evs
  <2>2. CASE Scheme # 2
    <3>1. new = (l + NSlots) % EvSpace
      BY <2>2 DEF NewEv, l
    <3> HIDE DEF new
    <3>2. l + NSlots \in Nat
      BY <1>1, Numbers
    <3>3. (l + NSlots) % EvSpace \in 0 .. EvSpace - 1
      BY <3>2, Numbers, Euclid
    <3>4. EvsSuffice => (l + NSlots) % EvSpace = l + NSlots
      <4>1. EvsSuffice => l + NSlots < EvSpace
        BY <1>1, Numbers DEF EvsSuffice
      <4> QED
        BY <3>2, <4>1, Numbers, ModSmall
    <3> QED
      BY <3>1, <3>3, <3>4 DEF Evs
  <2> QED
    BY <2>1, <2>2
<1> HIDE DEF l, ev, new
<1>4. c \in [Slots -> Evs] /\ c[k] = new /\ \A j \in Slots \ {k} : c[j] = s.cur[j]
  BY <1>2, <1>3
<1> HIDE DEF c
<1>5. /\ u = [x \in SndFields |-> u[x]] /\ u.cur = c
      /\ u.next = s.next /\ u.backlog = s.backlog /\ u.probes = s.probes
      /\ u.out = s.out /\ u.rtx = s.rtx /\ u.last = s.last
      /\ u.asked = s.asked /\ u.armed = s.armed
  BY DEF SndTyped, SndFields
<1>6. t = IF s.backlog > 0 THEN CloseSection(u, l, ev) ELSE u
  BY DEF ChangePath, c, new, l, ev
<1> HIDE DEF u
<1>7. SndTyped(u)
  BY <1>4, <1>5 DEF SndTyped
<1>8. ASSUME Scheme = 3, EvsSuffice, NEW R, NEW A, SenderOK(s, R, A)
      PROVE  SenderOK(u, R, A) /\ Covered(ev, l, R)
  <2>1. \A p \in Psns : p < s.next /\ Base(c[Slot(p)]) <= p => p \in R[c[Slot(p)]]
    <3> SUFFICES ASSUME NEW p \in Psns, p < s.next, Base(c[Slot(p)]) <= p
                 PROVE  p \in R[c[Slot(p)]]
      OBVIOUS
    <3>1. p \in Nat /\ Slot(p) \in Slots
      BY Numbers, SlotOfPsn
    <3>2. CASE Slot(p) = k
      <4>1. l + NSlots <= p
        BY <1>3, <1>4, <1>8, <3>2 DEF Base
      <4> QED
        BY <1>1, <3>1, <4>1, Numbers
    <3>3. CASE Slot(p) # k
      <4>1. c[Slot(p)] = s.cur[Slot(p)]
        BY <1>4, <3>1, <3>3
      <4> QED
        BY <1>8, <4>1 DEF SenderOK
    <3> QED
      BY <3>2, <3>3
  <2>2. SenderOK(u, R, A)
    BY <1>5, <1>8, <2>1 DEF SenderOK
  <2>3. ASSUME NEW p \in Section(ev, l)
        PROVE  p \in R[ev]
    <3>1. p \in Psns /\ p \in Nat /\ Slot(p) = k /\ Base(ev) <= p /\ p <= l
      BY <1>1, Numbers DEF Section
    <3>2. p < s.next
      BY <1>1, <3>1
    <3> QED
      BY <1>8, <3>1, <3>2 DEF SenderOK, ev
  <2> QED
    BY <2>2, <2>3 DEF Covered
<1>9. CASE s.backlog > 0
  <2>1. t = CloseSection(u, l, ev)
    BY <1>6, <1>9
  <2>2. /\ SndTyped(t) /\ Holds(u, t) /\ t.out = u.out /\ t.rtx = u.rtx
        /\ \A R, A : SenderOK(u, R, A) /\ (Scheme = 1 \/ (Scheme = 3 /\ Covered(ev, l, R)))
                     => SenderOK(t, R, A)
    BY <1>1, <1>2, <1>7, <2>1, CloseSectionKeeps
  <2> QED
    BY <1>5, <1>8, <2>2 DEF Holds
<1>10. CASE ~(s.backlog > 0)
  <2>1. t = u
    BY <1>6, <1>10
  <2> QED
    BY <1>5, <1>7, <1>8, <2>1 DEF Holds
<1> QED
  BY <1>9, <1>10

\* The loss detection is precise when a path tells what it lost: the EVs do not
\* wrap around, and a probe that a queue has promoted is not believed.
Precise ==
    \/ Scheme = 1
    \/ /\ Scheme = 3 /\ EvsSuffice
       /\ "promote" \notin Faults \/ (Coalescing /\ ~AcceptPromoted)

\* From s to t the sender keeps what it knows of its paths.
Knows(s, t) == Precise => \A R, A : SenderOK(s, R, A) => SenderOK(t, R, A)

\* The books on the paths are in four fields.
LEMMA KnowsSame ==
    ASSUME NEW s, NEW t, t.probes = s.probes, t.cur = s.cur, t.next = s.next, t.last = s.last
    PROVE  Knows(s, t)
  BY DEF Knows, SenderOK

\* What feedback does to the paths.
LEMMA ReroutedKeeps ==
    ASSUME NEW s, SndTyped(s), NEW t \in Rerouted(s)
    PROVE  SndTyped(t) /\ Holds(s, t) /\ t.out = s.out /\ t.rtx = s.rtx /\ Knows(s, t)
<1>1. CASE t = s
  BY <1>1, KnowsSame DEF Holds
<1>2. CASE t # s
  <2>1. Scheme # 1 /\ t \in {ChangePath(s, k) : k \in {j \in Slots : j < s.next}}
    BY <1>2 DEF Rerouted
  <2>2. PICK k \in Slots : k < s.next /\ t = ChangePath(s, k)
    BY <2>1
  <2>3. /\ SndTyped(t) /\ Holds(s, t) /\ t.out = s.out /\ t.rtx = s.rtx
        /\ Scheme = 3 /\ EvsSuffice => \A R, A : SenderOK(s, R, A) => SenderOK(t, R, A)
    BY <2>2, ChangePathKeeps
  <2> QED
    BY <2>1, <2>3 DEF Knows, Precise
<1> QED
  BY <1>1, <1>2

\* What a timeout does to the path of a slot.
LEMMA BumpedKeeps ==
    ASSUME NEW s, SndTyped(s), NEW k \in Slots, k < s.next, NEW t \in Bumped(s, k)
    PROVE  SndTyped(t) /\ Holds(s, t) /\ t.out = s.out /\ t.rtx = s.rtx /\ Knows(s, t)
<1>1. CASE t = s
  BY <1>1, KnowsSame DEF Holds
<1>2. CASE t # s
  <2>1. Scheme # 1 /\ t = ChangePath(s, k)
    BY <1>2 DEF Bumped
  <2>2. /\ SndTyped(t) /\ Holds(s, t) /\ t.out = s.out /\ t.rtx = s.rtx
        /\ Scheme = 3 /\ EvsSuffice => \A R, A : SenderOK(s, R, A) => SenderOK(t, R, A)
    BY <2>1, ChangePathKeeps
  <2> QED
    BY <2>1, <2>2 DEF Knows, Precise
<1> QED
  BY <1>1, <1>2

\* The sets of outstanding and queued packets are written.
WithSets(s, O, Q) == [s EXCEPT !.out = O, !.rtx = Q]

\* That keeps the record in order.
LEMMA SetsWritten ==
    ASSUME NEW s, SndTyped(s), NEW O \in SUBSET Psns, NEW Q \in SUBSET Psns, O \cap Q = {},
           \A p \in O \cup Q : p < s.next,
           NEW t, t = WithSets(s, O, Q)
    PROVE  /\ SndTyped(t) /\ Holds(s, t) /\ Knows(s, t)
           /\ t.cur = s.cur /\ t.probes = s.probes /\ t.out = O /\ t.rtx = Q
<1>1. /\ t = [x \in SndFields |-> t[x]]
      /\ t.next = s.next /\ t.backlog = s.backlog /\ t.probes = s.probes
      /\ t.cur = s.cur /\ t.last = s.last /\ t.out = O /\ t.rtx = Q
      /\ t.asked = s.asked /\ t.armed = s.armed
  BY DEF SndTyped, SndFields, WithSets
<1>2. SndTyped(t)
  BY <1>1 DEF SndTyped
<1> QED
  BY <1>1, <1>2, KnowsSame DEF Holds

\* A lost packet is queued again.
LEMMA QueueForRtxKeeps ==
    ASSUME NEW s, SndTyped(s), NEW psn \in s.out, NEW t, t = QueueForRtx(s, psn)
    PROVE  SndTyped(t) /\ Holds(s, t) /\ Knows(s, t) /\ t.cur = s.cur
<1> DEFINE O == s.out \ {psn}  Q == s.rtx \cup {psn}
<1>1. t = WithSets(s, O, Q)
  BY DEF QueueForRtx, WithSets
<1>2. /\ O \in SUBSET Psns /\ Q \in SUBSET Psns /\ O \cap Q = {}
      /\ \A p \in O \cup Q : p < s.next
  BY DEF SndTyped
<1> HIDE DEF O, Q
<1> QED
  BY <1>1, <1>2, SetsWritten

\* An acknowledged packet is neither outstanding nor queued.
LEMMA AckedKeeps ==
    ASSUME NEW s, SndTyped(s), NEW psn,
           NEW t, t = [s EXCEPT !.out = @ \ {psn}, !.rtx = @ \ {psn}]
    PROVE  SndTyped(t) /\ Holds(s, t) /\ Knows(s, t) /\ t.cur = s.cur
<1> DEFINE O == s.out \ {psn}  Q == s.rtx \ {psn}
<1>1. t = WithSets(s, O, Q)
  BY DEF WithSets
<1>2. /\ O \in SUBSET Psns /\ Q \in SUBSET Psns /\ O \cap Q = {}
      /\ \A p \in O \cup Q : p < s.next
  BY DEF SndTyped
<1> HIDE DEF O, Q
<1> QED
  BY <1>1, <1>2, SetsWritten

\* A repeated packet leaves; a probe may follow it on its path.
LEMMA SendRtxKeeps ==
    ASSUME NEW s, SndTyped(s), NEW psn \in s.rtx, NEW t, t = SendRtxPacket(s, psn)
    PROVE  /\ SndTyped(t) /\ Holds(s, t) /\ t.cur = s.cur
           /\ Precise => \A R, A : SenderOK(s, R, A) /\ psn \in A[s.cur[Slot(psn)]]
                                   => SenderOK(t, R, A)
<1> DEFINE O  == s.out \cup {psn}  Q == s.rtx \ {psn}
           u  == WithSets(s, O, Q)
           ev == s.cur[Slot(psn)]
<1>1. /\ O \in SUBSET Psns /\ Q \in SUBSET Psns /\ O \cap Q = {} /\ psn \in Psns
      /\ \A p \in O \cup Q : p < s.next
  BY DEF SndTyped
<1>2. u = [s EXCEPT !.rtx = Q, !.out = O]
  BY DEF SndTyped, SndFields, WithSets
<1>3. t = IF Probes /\ RtxProbes THEN EnqueueProbe(u, psn, ev, "rtx") ELSE u
  BY <1>2 DEF SendRtxPacket
<1> HIDE DEF O, Q
<1>4. SndTyped(u) /\ Holds(s, u) /\ Knows(s, u) /\ u.cur = s.cur
  BY <1>1, SetsWritten
<1>5. ev \in Evs
  <2>1. Slot(psn) \in Slots
    BY <1>1, SlotOfPsn, Numbers
  <2> QED
    BY <2>1 DEF SndTyped
<1> HIDE DEF u, ev
<1>6. CASE Probes /\ RtxProbes
  <2>1. t = EnqueueProbe(u, psn, ev, "rtx")
    BY <1>3, <1>6
  <2>2. /\ SndTyped(t) /\ Holds(u, t) /\ t.cur = u.cur
        /\ \A R, A : SenderOK(u, R, A) /\ (Scheme = 1 \/ (Scheme = 3 /\ psn \in A[ev]))
                     => SenderOK(t, R, A)
    BY <1>1, <1>4, <1>5, <2>1, RtxProbeKeeps
  <2> QED
    BY <1>4, <2>2 DEF Knows, Holds, Precise, ev
<1>7. CASE ~(Probes /\ RtxProbes)
  BY <1>3, <1>4, <1>7 DEF Knows
<1> QED
  BY <1>6, <1>7

\* The first probe leaves the queue, and the timer of its slot may be set.
LEMMA SendProbeKeeps ==
    ASSUME NEW s, SndTyped(s), s.probes # <<>>, NEW t, t = SendProbePacket(s)
    PROVE  SndTyped(t) /\ Holds(s, t) /\ Knows(s, t) /\ Head(s.probes) \in Asks
<1> DEFINE h == Head(s.probes)
           q == Tail(s.probes)
           k == Slot(h.psn)
           as == [s.asked EXCEPT ![k] = h.psn]
           ar == IF s.backlog > 0 THEN s.armed \cup {k} ELSE s.armed
           u == [s EXCEPT !.probes = q]
<1>1. s.probes \in Seq(Asks) /\ s.asked \in [Slots -> Nat] /\ s.armed \in SUBSET Slots
  BY DEF SndTyped
<1>2. /\ h \in Asks /\ q \in Seq(Asks) /\ Len(q) = Len(s.probes) - 1 /\ h = s.probes[1]
      /\ Len(s.probes) \in Nat /\ \A i \in 1 .. Len(q) : q[i] = s.probes[i + 1]
  BY <1>1, HeadTailProperties
<1>3. /\ as \in [Slots -> Nat] /\ ar \in SUBSET Slots
  <2>1. h.psn \in Nat
    BY <1>2, Numbers DEF Asks
  <2>2. k \in Slots
    BY <2>1, SlotOfPsn
  <2> HIDE DEF k, h
  <2> QED
    BY <1>1, <2>1, <2>2
<1>4. t = IF h.kind = "rtx" \/ ProbeEvery # 0 THEN u
          ELSE [u EXCEPT !.asked = as, !.armed = ar]
  BY DEF SendProbePacket, SndTyped, SndFields
<1> HIDE DEF h, q, k, as, ar
<1>5. /\ u = [x \in SndFields |-> u[x]] /\ u.probes = q
      /\ u.next = s.next /\ u.backlog = s.backlog /\ u.cur = s.cur
      /\ u.out = s.out /\ u.rtx = s.rtx /\ u.last = s.last
      /\ u.asked = s.asked /\ u.armed = s.armed
  BY DEF SndTyped, SndFields
<1> HIDE DEF u
<1>6. /\ t = [x \in SndFields |-> t[x]] /\ t.probes = q
      /\ t.next = s.next /\ t.backlog = s.backlog /\ t.cur = s.cur
      /\ t.out = s.out /\ t.rtx = s.rtx /\ t.last = s.last
      /\ t.asked \in {s.asked, as} /\ t.armed \in {s.armed, ar}
  BY <1>4, <1>5 DEF SndFields
<1>7. SndTyped(t)
  BY <1>2, <1>3, <1>6 DEF SndTyped
<1>8. \A R, A : SenderOK(s, R, A) => SenderOK(t, R, A)
  <2> SUFFICES ASSUME NEW R, NEW A, SenderOK(s, R, A)
               PROVE  SenderOK(t, R, A)
    OBVIOUS
  <2>1. ASSUME NEW i \in DOMAIN q
        PROVE  Asked(q[i], R, A)
    <3>1. i \in 1 .. Len(q) /\ i + 1 \in DOMAIN s.probes
      BY <1>1, <1>2
    <3> QED
      BY <1>2, <3>1 DEF SenderOK
  <2> QED
    BY <1>6, <2>1 DEF SenderOK
<1> QED
  BY <1>2, <1>6, <1>7, <1>8 DEF Holds, Knows, h

\* A new packet leaves on the path of its slot, which reaches it.  It may be
\* closed by a probe, or followed by one.
LEMMA SendNewKeeps ==
    ASSUME NEW s, SndTyped(s), s.backlog > 0, NEW t, t = SendNewPacket(s)
    PROVE  /\ SndTyped(t) /\ t.next = s.next + 1 /\ t.backlog = s.backlog - 1
           /\ Precise => \A R, A : SenderOK(s, R, A) /\ s.next \in R[s.cur[Slot(s.next)]]
                                   => SenderOK(t, R, A)
<1> DEFINE psn == s.next  k == Slot(psn)  ev == s.cur[k]
           nx == s.next + 1  bl == s.backlog - 1  O == s.out \cup {psn}
           la == [s.last EXCEPT ![k] = <<psn, ev>>]
           u == [s EXCEPT !.next = nx, !.backlog = bl, !.out = O]
           v == [u EXCEPT !.last = la]
<1>1. /\ psn \in Psns /\ psn \in Nat /\ k \in Slots /\ ev \in Evs
      /\ nx \in Nat /\ bl \in Nat /\ nx + bl <= Total
  <2>1. psn \in Psns /\ psn \in Nat /\ nx \in Nat /\ bl \in Nat /\ nx + bl <= Total
    BY SMTT(30), SndNumbers, Numbers
  <2>2. k \in Slots
    BY <2>1, SlotOfPsn
  <2> QED
    BY <2>1, <2>2 DEF SndTyped
<1>2. /\ O \in SUBSET Psns /\ O \cap s.rtx = {}
      /\ \A p \in O \cup s.rtx : p < nx
  <2>1. \A p \in s.out \cup s.rtx : p < psn /\ p \in Nat
    BY SndNumbers
  <2>2. s.out \in SUBSET Psns /\ s.out \cap s.rtx = {}
    BY DEF SndTyped
  <2> QED
    BY <1>1, <2>1, <2>2
<1>3. la \in [Slots -> Psns \X Evs] /\ la[k] = <<psn, ev>>
      /\ \A j \in Slots \ {k} : la[j] = s.last[j]
  <2>1. s.last \in [Slots -> Psns \X Evs]
    BY DEF SndTyped
  <2> HIDE DEF k, ev, psn
  <2> QED
    BY <1>1, <2>1
<1>4. t = IF ~Probes THEN u
          ELSE IF bl < NSlots THEN CloseSection(u, psn, ev)
          ELSE IF ProbeEvery > 0 /\ (psn \div NSlots + 1) % ProbeEvery = 0
               THEN EnqueueProbe(v, psn, ev, "data") ELSE v
  BY DEF SendNewPacket, SndTyped, SndFields
<1> HIDE DEF psn, k, ev, nx, bl, O, la
<1>5. /\ u = [x \in SndFields |-> u[x]] /\ u.probes = s.probes
      /\ u.next = nx /\ u.backlog = bl /\ u.cur = s.cur
      /\ u.out = O /\ u.rtx = s.rtx /\ u.last = s.last
      /\ u.asked = s.asked /\ u.armed = s.armed
  BY DEF SndTyped, SndFields
<1> HIDE DEF u
<1>6. SndTyped(u)
  BY <1>1, <1>2, <1>5 DEF SndTyped
<1>7. /\ v = [x \in SndFields |-> v[x]] /\ v.probes = s.probes
      /\ v.next = nx /\ v.backlog = bl /\ v.cur = s.cur
      /\ v.out = O /\ v.rtx = s.rtx /\ v.last = la
      /\ v.asked = s.asked /\ v.armed = s.armed
  BY <1>5 DEF SndFields
<1> HIDE DEF v
<1>8. SndTyped(v)
  BY <1>1, <1>2, <1>3, <1>6, <1>7 DEF SndTyped
<1>9. ASSUME Precise, NEW R, NEW A, SenderOK(s, R, A), psn \in R[ev]
      PROVE  Covered(ev, psn, R) /\ SenderOK(u, R, A) /\ SenderOK(v, R, A)
  <2>1. \A p \in Psns : p < nx /\ Base(s.cur[Slot(p)]) <= p => p \in R[s.cur[Slot(p)]]
    <3> SUFFICES ASSUME NEW p \in Psns, p < nx, Base(s.cur[Slot(p)]) <= p
                 PROVE  p \in R[s.cur[Slot(p)]]
      OBVIOUS
    <3>1. CASE p = psn
      BY <1>9, <3>1 DEF ev, k
    <3>2. CASE p # psn
      <4>1. p < s.next
        BY <1>1, <3>2, Numbers DEF nx, psn
      <4> QED
        BY <1>9, <4>1 DEF SenderOK
    <3> QED
      BY <3>1, <3>2
  <2>2. Covered(ev, psn, R)
    <3>1. ASSUME NEW p \in Section(ev, psn)
          PROVE  p \in R[ev]
      <4>1. p \in Psns /\ Slot(p) = k /\ Base(ev) <= p /\ p <= psn
        BY DEF Section, k
      <4>2. p < nx
        BY <1>1, <4>1, Numbers DEF nx, psn
      <4> QED
        BY <2>1, <4>1, <4>2 DEF ev
    <3> QED
      BY <3>1 DEF Covered
  <2>3. SenderOK(u, R, A)
    BY <1>5, <1>9, <2>1 DEF SenderOK
  <2>4. \A j \in Slots : la[j][1] > 0 => Covered(la[j][2], la[j][1], R)
    BY <1>3, <1>9, <2>2 DEF SenderOK
  <2>5. SenderOK(v, R, A)
    BY <1>7, <1>9, <2>1, <2>4 DEF SenderOK
  <2> QED
    BY <2>2, <2>3, <2>5
<1>10. CASE ~Probes
  BY <1>4, <1>5, <1>6, <1>9, <1>10 DEF psn, k, ev, nx, bl
<1>11. CASE Probes /\ bl < NSlots
  <2>1. t = CloseSection(u, psn, ev)
    BY <1>4, <1>11
  <2>2. /\ SndTyped(t) /\ Holds(u, t)
        /\ t.cur = u.cur /\ t.out = u.out /\ t.rtx = u.rtx /\ t.last = u.last
        /\ \A R, A : SenderOK(u, R, A) /\ (Scheme = 1 \/ (Scheme = 3 /\ Covered(ev, psn, R)))
                     => SenderOK(t, R, A)
    BY <1>1, <1>6, <2>1, CloseSectionKeeps
  <2> QED
    BY <1>5, <1>9, <2>2 DEF Holds, Precise, psn, k, ev, nx, bl
<1>12. CASE Probes /\ ~(bl < NSlots)
  <2>1. CASE t = v
    BY <1>7, <1>8, <1>9, <2>1 DEF psn, k, ev, nx, bl
  <2>2. CASE t = EnqueueProbe(v, psn, ev, "data")
    <3>1. /\ SndTyped(t) /\ Holds(v, t)
          /\ \A R, A : SenderOK(v, R, A) /\ (Scheme = 1 \/ (Scheme = 3 /\ Covered(ev, psn, R)))
                       => SenderOK(t, R, A)
      BY <1>1, <1>8, <2>2, DataProbeKeeps
    <3> QED
      BY <1>7, <1>9, <3>1 DEF Holds, Precise, psn, k, ev, nx, bl
  <2> QED
    BY <1>4, <1>12, <2>1, <2>2
<1> QED
  BY <1>10, <1>11, <1>12

\* The timer of a slot expires: what was sent on the slot last may be probed.
LEMMA TimerKeeps ==
    ASSUME NEW s, SndTyped(s), NEW k \in Slots,
           NEW t, LET u == [s EXCEPT !.armed = @ \ {k}]
                      psn == s.last[k][1]
                  IN  t = IF u.next > k /\ u.asked[k] < psn /\ u.backlog > 0
                          THEN EnqueueProbe(u, psn, u.last[k][2], "data") ELSE u
    PROVE  SndTyped(t) /\ Holds(s, t) /\ Knows(s, t)
<1> DEFINE ar == s.armed \ {k}
           u == [s EXCEPT !.armed = ar]
           psn == s.last[k][1]
           ev == s.last[k][2]
<1>1. /\ u = [x \in SndFields |-> u[x]] /\ u.probes = s.probes
      /\ u.next = s.next /\ u.backlog = s.backlog /\ u.cur = s.cur
      /\ u.out = s.out /\ u.rtx = s.rtx /\ u.last = s.last
      /\ u.asked = s.asked /\ u.armed = ar
  BY DEF SndTyped, SndFields
<1>2. t = IF u.next > k /\ u.asked[k] < psn /\ u.backlog > 0
          THEN EnqueueProbe(u, psn, ev, "data") ELSE u
  BY <1>1
<1> HIDE DEF u
<1>3. SndTyped(u)
  BY <1>1 DEF SndTyped
<1>4. Knows(s, u)
  BY <1>1, KnowsSame
<1>5. psn \in Psns /\ ev \in Evs /\ s.asked[k] \in Nat /\ psn \in Nat
  <2>1. s.last[k] \in Psns \X Evs /\ s.asked[k] \in Nat
    BY DEF SndTyped
  <2> QED
    BY SMTT(30), <2>1, Numbers
<1> HIDE DEF psn, ev
<1>6. CASE t = u
  BY <1>1, <1>3, <1>4, <1>6 DEF Holds
<1>7. CASE u.asked[k] < psn /\ t = EnqueueProbe(u, psn, ev, "data")
  <2>1. /\ SndTyped(t) /\ Holds(u, t)
        /\ \A R, A : SenderOK(u, R, A) /\ (Scheme = 1 \/ (Scheme = 3 /\ Covered(ev, psn, R)))
                     => SenderOK(t, R, A)
    BY <1>3, <1>5, <1>7, DataProbeKeeps
  <2>2. psn > 0
    BY <1>1, <1>5, <1>7
  <2>3. \A R, A : SenderOK(u, R, A) => Covered(ev, psn, R)
    BY <1>1, <2>2 DEF SenderOK, ev, psn
  <2> QED
    BY <1>1, <1>4, <2>1, <2>3 DEF Holds, Knows, Precise
<1> QED
  BY <1>2, <1>6, <1>7

\* An RTS takes the next psn.
WithRts(s) == [s EXCEPT !.next = @ + 1, !.out = @ \cup {s.next}]

\* The paths reach it, for it is settled.
LEMMA RtsTakes ==
    ASSUME NEW s, SndTyped(s), s.next + s.backlog < Total, NEW t, t = WithRts(s)
    PROVE  /\ SndTyped(t) /\ t.next = s.next + 1 /\ t.backlog = s.backlog
           /\ s.next \in Psns
           /\ \A R, A : SenderOK(s, R, A) /\ s.next \in R[s.cur[Slot(s.next)]]
                        => SenderOK(t, R, A)
<1> DEFINE nx == s.next + 1  O == s.out \cup {s.next}
<1>1. s.next \in Psns /\ s.next \in Nat /\ nx \in Nat /\ nx + s.backlog <= Total
  BY SndNumbers, Numbers
<1>2. O \in SUBSET Psns /\ O \cap s.rtx = {} /\ \A p \in O \cup s.rtx : p < nx
  <2>1. \A p \in s.out \cup s.rtx : p < s.next /\ p \in Nat
    BY SndNumbers
  <2>2. s.out \in SUBSET Psns /\ s.out \cap s.rtx = {}
    BY DEF SndTyped
  <2> QED
    BY <1>1, <2>1, <2>2
<1>3. t = [s EXCEPT !.next = nx, !.out = O]
  BY DEF WithRts
<1> HIDE DEF nx, O
<1>4. /\ t = [x \in SndFields |-> t[x]] /\ t.probes = s.probes
      /\ t.next = nx /\ t.backlog = s.backlog /\ t.cur = s.cur
      /\ t.out = O /\ t.rtx = s.rtx /\ t.last = s.last
      /\ t.asked = s.asked /\ t.armed = s.armed
  BY <1>3 DEF SndTyped, SndFields
<1>5. SndTyped(t)
  BY <1>1, <1>2, <1>4 DEF SndTyped
<1>6. ASSUME NEW R, NEW A, SenderOK(s, R, A), s.next \in R[s.cur[Slot(s.next)]]
      PROVE  SenderOK(t, R, A)
  <2>1. \A p \in Psns : p < nx /\ Base(s.cur[Slot(p)]) <= p => p \in R[s.cur[Slot(p)]]
    <3> SUFFICES ASSUME NEW p \in Psns, p < nx, Base(s.cur[Slot(p)]) <= p
                 PROVE  p \in R[s.cur[Slot(p)]]
      OBVIOUS
    <3>1. CASE p = s.next
      BY <1>6, <3>1
    <3>2. CASE p # s.next
      <4>1. p < s.next
        BY <1>1, <3>2, Numbers DEF nx
      <4> QED
        BY <1>6, <4>1 DEF SenderOK
    <3> QED
      BY <3>1, <3>2
  <2> QED
    BY <1>4, <1>6, <2>1 DEF SenderOK
<1> QED
  BY <1>1, <1>4, <1>5, <1>6 DEF nx

-----------------------------------------------------------------------------
(* The paths *)

DataMsg  == [t : {"data", "rtx"}, psn : Psns, ev : Evs]
ProbeMsg == [t : {"probe"}, psn : Psns, ev : Evs, kind : {"end", "data", "rtx"},
             promoted : BOOLEAN]
PathMsg  == DataMsg \cup ProbeMsg
HighMsg  == [t : {"trim", "rts"}, psn : Psns, ev : Evs] \cup ProbeMsg

\* A first copy of p, or any copy, is among the first n messages of q.
On(q, n, p)    == \E j \in 1 .. n : q[j].t = "data" /\ q[j].psn = p
OnAny(q, n, p) == \E j \in 1 .. n : q[j].t \in {"data", "rtx"} /\ q[j].psn = p

\* The packets that are settled (S) or travel on q.
Reach(q, S)    == S \cup {p \in Psns : On(q, Len(q), p)}
ReachAny(q, S) == S \cup {p \in Psns : OnAny(q, Len(q), p)}

\* What stands before message i on q.
Before(q, i, S)    == S \cup {p \in Psns : On(q, i - 1, p)}
BeforeAny(q, i, S) == S \cup {p \in Psns : OnAny(q, i - 1, p)}

\* A message of path ev follows the packets that its arrival would report: R are
\* the first copies before it, A all the copies.
Follows(m, ev, R, A) ==
    /\ m.ev = ev
    /\ m.t = "data" => Section(ev, m.psn) \ {m.psn} \subseteq R
    /\ m.t = "probe" => /\ Scheme = 3
                        /\ m.kind = "rtx" => m.psn \in A
                        /\ m.kind # "rtx" => Section(ev, m.psn) \subseteq R

PathOK(q, ev, S) ==
    \A i \in 1 .. Len(q) : Follows(q[i], ev, Before(q, i, S), BeforeAny(q, i, S))

\* More settled packets keep a message in order.
LEMMA FollowsMore ==
    ASSUME NEW m, NEW ev, NEW R, NEW A, NEW R2, NEW A2,
           Follows(m, ev, R, A), R \subseteq R2, Scheme = 3 => A \subseteq A2
    PROVE  Follows(m, ev, R2, A2)
  BY DEF Follows

\* A message joins a path that it follows.
LEMMA PathAppend ==
    ASSUME NEW q \in Seq(PathMsg), NEW m \in PathMsg, NEW ev, NEW S, PathOK(q, ev, S),
           Follows(m, ev, Reach(q, S), ReachAny(q, S))
    PROVE  LET r == Append(q, m)
           IN  /\ r \in Seq(PathMsg) /\ PathOK(r, ev, S)
               /\ Reach(q, S) \subseteq Reach(r, S)
               /\ ReachAny(q, S) \subseteq ReachAny(r, S)
               /\ m.psn \in Psns /\ m.t = "data" => m.psn \in Reach(r, S)
               /\ m.psn \in Psns /\ m.t \in {"data", "rtx"} => m.psn \in ReachAny(r, S)
<1> DEFINE r == Append(q, m)  n == Len(q)
<1>1. /\ r \in Seq(PathMsg) /\ Len(r) = n + 1 /\ r[n + 1] = m /\ n \in Nat
      /\ \A j \in 1 .. n : r[j] = q[j]
  BY AppendProperties
<1> HIDE DEF r
<1>2. ASSUME NEW i \in 1 .. n + 1, NEW p
      PROVE  (On(r, i - 1, p) <=> On(q, i - 1, p)) /\ (OnAny(r, i - 1, p) <=> OnAny(q, i - 1, p))
  <2>1. \A j \in 1 .. i - 1 : r[j] = q[j]
    BY <1>1
  <2> QED
    BY <2>1 DEF On, OnAny
<1>3. PathOK(r, ev, S)
  <2> SUFFICES ASSUME NEW i \in 1 .. n + 1
               PROVE  Follows(r[i], ev, Before(r, i, S), BeforeAny(r, i, S))
    BY <1>1 DEF PathOK
  <2>1. Before(r, i, S) = Before(q, i, S) /\ BeforeAny(r, i, S) = BeforeAny(q, i, S)
    BY <1>2 DEF Before, BeforeAny
  <2>2. CASE i \in 1 .. n
    BY <1>1, <2>1, <2>2 DEF PathOK
  <2>3. CASE i = n + 1
    <3>1. Before(q, i, S) = Reach(q, S) /\ BeforeAny(q, i, S) = ReachAny(q, S)
      <4>1. i - 1 = Len(q)
        BY <1>1, <2>3
      <4> QED
        BY <4>1 DEF Before, BeforeAny, Reach, ReachAny
    <3> QED
      BY <1>1, <2>1, <2>3, <3>1
  <2> QED
    BY <1>1, <2>2, <2>3
<1>4. \A p : (On(q, n, p) => On(r, n + 1, p)) /\ (OnAny(q, n, p) => OnAny(r, n + 1, p))
  <2>1. \A j \in 1 .. n : j \in 1 .. n + 1 /\ r[j] = q[j]
    BY <1>1
  <2> QED
    BY <2>1 DEF On, OnAny
<1>5. /\ m.t = "data" => On(r, n + 1, m.psn)
      /\ m.t \in {"data", "rtx"} => OnAny(r, n + 1, m.psn)
  <2>1. n + 1 \in 1 .. n + 1
    BY <1>1
  <2> QED
    BY <1>1, <2>1 DEF On, OnAny
<1> QED
  BY <1>1, <1>3, <1>4, <1>5 DEF r, Reach, ReachAny

\* The sequence r is q without its message i.
Cut(q, i, r) ==
    /\ r \in Seq(PathMsg) /\ Len(r) = Len(q) - 1
    /\ \A j \in 1 .. Len(r) : r[j] = IF j < i THEN q[j] ELSE q[j + 1]

\* The first message leaves.
LEMMA TailCuts ==
    ASSUME NEW q \in Seq(PathMsg), q # <<>>
    PROVE  Cut(q, 1, Tail(q)) /\ 1 \in 1 .. Len(q) /\ Head(q) = q[1] /\ Head(q) \in PathMsg
<1>1. /\ Head(q) \in PathMsg /\ Tail(q) \in Seq(PathMsg) /\ Len(Tail(q)) = Len(q) - 1
      /\ \A j \in 1 .. Len(Tail(q)) : Tail(q)[j] = q[j + 1]
  BY HeadTailProperties
<1>2. Head(q) = q[1] /\ Len(q) \in Nat /\ Len(q) # 0
  OBVIOUS
<1> QED
  BY <1>1, <1>2 DEF Cut

\* A message leaves from the middle.
LEMMA RemoveAtCuts ==
    ASSUME NEW q \in Seq(PathMsg), NEW i \in 1 .. Len(q)
    PROVE  Cut(q, i, RemoveAt(q, i)) /\ q[i] \in PathMsg
<1> DEFINE a == SubSeq(q, 1, i - 1)  b == SubSeq(q, i + 1, Len(q))
<1>1. Len(q) \in Nat /\ i \in Nat /\ i >= 1 /\ i <= Len(q)
  OBVIOUS
<1>2. \A j \in 1 .. Len(q) : q[j] \in PathMsg
  OBVIOUS
<1>3. /\ a \in Seq(PathMsg) /\ Len(a) = i - 1
      /\ \A j \in 1 .. i - 1 : a[j] = q[j]
  <2>1. \A j \in 1 .. i - 1 : q[j] \in PathMsg
    BY <1>1, <1>2
  <2>2. /\ a \in Seq(PathMsg) /\ Len(a) = IF 1 <= i - 1 THEN (i - 1) - 1 + 1 ELSE 0
        /\ \A j \in 1 .. (i - 1) - 1 + 1 : a[j] = q[1 + j - 1]
    BY <1>1, <2>1, SubSeqProperties
  <2> HIDE DEF a
  <2> QED
    BY <1>1, <2>2
<1>4. /\ b \in Seq(PathMsg) /\ Len(b) = Len(q) - i
      /\ \A j \in 1 .. Len(q) - i : b[j] = q[i + j]
  <2>1. \A j \in i + 1 .. Len(q) : q[j] \in PathMsg
    BY <1>1, <1>2
  <2>2. /\ b \in Seq(PathMsg)
        /\ Len(b) = IF i + 1 <= Len(q) THEN Len(q) - (i + 1) + 1 ELSE 0
        /\ \A j \in 1 .. Len(q) - (i + 1) + 1 : b[j] = q[(i + 1) + j - 1]
    BY <1>1, <2>1, SubSeqProperties
  <2> HIDE DEF b
  <2> QED
    BY <1>1, <2>2
<1>5. RemoveAt(q, i) = a \o b
  BY DEF RemoveAt
<1> HIDE DEF a, b
<1>6. /\ a \o b \in Seq(PathMsg) /\ Len(a \o b) = Len(a) + Len(b)
      /\ \A j \in 1 .. Len(a) + Len(b) :
            (a \o b)[j] = IF j <= Len(a) THEN a[j] ELSE b[j - Len(a)]
  BY <1>3, <1>4, ConcatProperties
<1>7. \A j \in 1 .. Len(q) - 1 : (a \o b)[j] = IF j < i THEN q[j] ELSE q[j + 1]
  <2> TAKE j \in 1 .. Len(q) - 1
  <2>1. CASE j < i
    <3>1. j \in 1 .. i - 1
      BY <1>1, <2>1
    <3> QED
      BY <1>1, <1>3, <1>4, <1>6, <2>1, <3>1
  <2>2. CASE ~(j < i)
    <3>1. j - (i - 1) \in 1 .. Len(q) - i
      BY <1>1, <2>2
    <3>2. (a \o b)[j] = b[j - (i - 1)]
      BY SMTT(30), <1>1, <1>3, <1>4, <1>6, <2>2
    <3> QED
      BY <1>1, <1>4, <2>2, <3>1, <3>2
  <2> QED
    BY <2>1, <2>2
<1>8. Len(a \o b) = Len(q) - 1
  BY <1>1, <1>3, <1>4, <1>6
<1> QED
  BY <1>2, <1>5, <1>6, <1>7, <1>8 DEF Cut

\* A message leaves a path: what it carried is settled then, so what stood behind
\* it is still in order, and the path reaches as much as before.
LEMMA PathCut ==
    ASSUME NEW q \in Seq(PathMsg), NEW i \in 1 .. Len(q), NEW r, Cut(q, i, r),
           NEW ev, NEW S, NEW S2, S \subseteq S2, PathOK(q, ev, S),
           q[i].t = "data" => q[i].psn \in S2,
           Scheme = 3 /\ q[i].t = "rtx" => q[i].psn \in S2
    PROVE  /\ PathOK(r, ev, S2) /\ Reach(q, S) \subseteq Reach(r, S2)
           /\ Scheme = 3 => ReachAny(q, S) \subseteq ReachAny(r, S2)
<1>1. /\ Len(q) \in Nat /\ i \in Nat /\ 1 <= i /\ i <= Len(q) /\ Len(r) = Len(q) - 1
      /\ \A j \in 1 .. Len(r) : r[j] = IF j < i THEN q[j] ELSE q[j + 1]
  BY DEF Cut
\* A message of the first n but the one that leaves is among the first k.
<1>2. ASSUME NEW n \in 1 .. Len(q) + 1, NEW k \in 1 .. Len(r) + 1,
             k = IF n <= i THEN n ELSE n - 1, NEW p
      PROVE  /\ On(q, n - 1, p) => On(r, k - 1, p) \/ (q[i].t = "data" /\ q[i].psn = p)
             /\ OnAny(q, n - 1, p) => \/ OnAny(r, k - 1, p)
                                      \/ q[i].t \in {"data", "rtx"} /\ q[i].psn = p
  <2>1. ASSUME NEW j \in 1 .. n - 1, j # i
        PROVE  \E l \in 1 .. k - 1 : r[l] = q[j]
    <3>1. CASE j < i
      <4>1. j \in 1 .. k - 1 /\ j \in 1 .. Len(r)
        BY <1>1, <1>2, <2>1, <3>1
      <4>2. r[j] = q[j]
        BY <1>1, <3>1, <4>1
      <4> QED
        BY <4>1, <4>2
    <3>2. CASE j > i
      <4>1. j - 1 \in 1 .. k - 1 /\ j - 1 \in 1 .. Len(r) /\ ~(j - 1 < i) /\ (j - 1) + 1 = j
        BY <1>1, <1>2, <2>1, <3>2
      <4>2. r[j - 1] = q[j]
        BY <1>1, <4>1
      <4> QED
        BY <4>1, <4>2
    <3> QED
      BY <1>1, <2>1, <3>1, <3>2
  <2> QED
    BY <2>1 DEF On, OnAny
<1>3. PathOK(r, ev, S2)
  <2> SUFFICES ASSUME NEW k \in 1 .. Len(r)
               PROVE  Follows(r[k], ev, Before(r, k, S2), BeforeAny(r, k, S2))
    BY DEF PathOK
  <2> DEFINE n == IF k < i THEN k ELSE k + 1
  <2>1. /\ n \in 1 .. Len(q) /\ n \in 1 .. Len(q) + 1 /\ k \in 1 .. Len(r) + 1
        /\ k = IF n <= i THEN n ELSE n - 1
    BY <1>1
  <2>2. r[k] = q[n]
    BY <1>1
  <2> HIDE DEF n
  <2>3. Follows(q[n], ev, Before(q, n, S), BeforeAny(q, n, S))
    BY <2>1 DEF PathOK
  <2>4. \A p : /\ On(q, n - 1, p) => On(r, k - 1, p) \/ (q[i].t = "data" /\ q[i].psn = p)
               /\ OnAny(q, n - 1, p) => \/ OnAny(r, k - 1, p)
                                        \/ q[i].t \in {"data", "rtx"} /\ q[i].psn = p
    BY <1>2, <2>1
  <2>5. Before(q, n, S) \subseteq Before(r, k, S2)
    BY <2>4 DEF Before
  <2>6. Scheme = 3 => BeforeAny(q, n, S) \subseteq BeforeAny(r, k, S2)
    BY <2>4 DEF BeforeAny
  <2> QED
    BY <2>2, <2>3, <2>5, <2>6, FollowsMore
<1>4. \A p : /\ On(q, Len(q), p) => On(r, Len(r), p) \/ (q[i].t = "data" /\ q[i].psn = p)
             /\ OnAny(q, Len(q), p) => \/ OnAny(r, Len(r), p)
                                       \/ q[i].t \in {"data", "rtx"} /\ q[i].psn = p
  <2> DEFINE n == Len(q) + 1  k == Len(r) + 1
  <2>1. /\ n \in 1 .. Len(q) + 1 /\ k \in 1 .. Len(r) + 1
        /\ k = IF n <= i THEN n ELSE n - 1
        /\ n - 1 = Len(q) /\ k - 1 = Len(r)
    BY <1>1
  <2> HIDE DEF n, k
  <2> QED
    BY <1>2, <2>1
<1>5. Reach(q, S) \subseteq Reach(r, S2)
  BY <1>4 DEF Reach
<1>6. Scheme = 3 => ReachAny(q, S) \subseteq ReachAny(r, S2)
  BY <1>4 DEF ReachAny
<1> QED
  BY <1>3, <1>5, <1>6

\* More packets are settled.
LEMMA PathMore ==
    ASSUME NEW q, NEW ev, NEW S, NEW S2, S \subseteq S2, PathOK(q, ev, S)
    PROVE  /\ PathOK(q, ev, S2) /\ Reach(q, S) \subseteq Reach(q, S2)
           /\ ReachAny(q, S) \subseteq ReachAny(q, S2)
<1>1. ASSUME NEW i \in 1 .. Len(q)
      PROVE  Follows(q[i], ev, Before(q, i, S2), BeforeAny(q, i, S2))
  <2>1. /\ Before(q, i, S) \subseteq Before(q, i, S2)
        /\ BeforeAny(q, i, S) \subseteq BeforeAny(q, i, S2)
    BY DEF Before, BeforeAny
  <2>2. Follows(q[i], ev, Before(q, i, S), BeforeAny(q, i, S))
    BY DEF PathOK
  <2> QED
    BY <2>1, <2>2, FollowsMore
<1> QED
  BY <1>1 DEF PathOK, Reach, ReachAny

\* What all the paths reach.
Reaches(n, S)    == [e \in Evs |-> Reach(n.path[e], S)]
ReachesAny(n, S) == [e \in Evs |-> ReachAny(n.path[e], S)]

\* Every path is in order.
PathsOK(n, S) == \A e \in Evs : PathOK(n.path[e], e, S)

\* From n and S to n2 and S2 no path reaches less.
ReachesMore(n, S, n2, S2) ==
    \A e \in Evs : /\ Reach(n.path[e], S) \subseteq Reach(n2.path[e], S2)
                   /\ Scheme = 3 => ReachAny(n.path[e], S) \subseteq ReachAny(n2.path[e], S2)

\* The sender's books hold on paths that reach more.
LEMMA SenderMore ==
    ASSUME NEW s, SndTyped(s), NEW n, NEW S, NEW n2, NEW S2, ReachesMore(n, S, n2, S2),
           SenderOK(s, Reaches(n, S), ReachesAny(n, S))
    PROVE  SenderOK(s, Reaches(n2, S2), ReachesAny(n2, S2))
<1> DEFINE R == Reaches(n, S)  A == ReachesAny(n, S)
           R2 == Reaches(n2, S2)  A2 == ReachesAny(n2, S2)
<1>1. \A e \in Evs : R[e] \subseteq R2[e] /\ (Scheme = 3 => A[e] \subseteq A2[e])
  BY DEF ReachesMore, Reaches, ReachesAny
<1> HIDE DEF R, A, R2, A2
<1>2. SenderOK(s, R, A)
  BY DEF R, A
<1>3. ASSUME NEW i \in DOMAIN s.probes
      PROVE  Asked(s.probes[i], R2, A2)
  <2>1. s.probes[i] \in Asks
    BY DEF SndTyped
  <2>2. s.probes[i].ev \in Evs
    BY <2>1 DEF Asks
  <2>3. Asked(s.probes[i], R, A)
    BY <1>2 DEF SenderOK
  <2> QED
    BY <1>1, <2>2, <2>3 DEF Asked, Covered
<1>4. ASSUME NEW p \in Psns, p < s.next, Base(s.cur[Slot(p)]) <= p
      PROVE  p \in R2[s.cur[Slot(p)]]
  <2>1. Slot(p) \in Slots
    BY SlotOfPsn, Numbers
  <2>2. s.cur[Slot(p)] \in Evs
    BY <2>1 DEF SndTyped
  <2>3. p \in R[s.cur[Slot(p)]]
    BY <1>2, <1>4 DEF SenderOK
  <2> QED
    BY <1>1, <2>2, <2>3
<1>5. ASSUME NEW k \in Slots, s.last[k][1] > 0
      PROVE  Covered(s.last[k][2], s.last[k][1], R2)
  <2>1. s.last[k] \in Psns \X Evs
    BY DEF SndTyped
  <2>2. s.last[k][2] \in Evs
    BY <2>1
  <2>3. Covered(s.last[k][2], s.last[k][1], R)
    BY <1>2, <1>5 DEF SenderOK
  <2> QED
    BY <1>1, <2>2, <2>3 DEF Covered
<1>6. SenderOK(s, R2, A2)
  BY <1>3, <1>4, <1>5 DEF SenderOK
<1> QED
  BY <1>6 DEF R2, A2

-----------------------------------------------------------------------------
(* The network and the history *)

NetFields == {"path", "hi", "nack"}

\* The record of the network.
NetTyped(n) ==
    /\ n = [x \in NetFields |-> n[x]]
    /\ n.path \in [Evs -> Seq(PathMsg)] /\ n.hi \in SUBSET HighMsg
    /\ n.nack \in [Psns -> Nat]

HistFields == {"lost", "nacks", "rtos", "rts", "faults", "changes", "crashed"}

\* The record of what happened.
HistTyped(h) ==
    /\ h = [x \in HistFields |-> h[x]]
    /\ h.lost \in [Psns -> Nat] /\ h.nacks \in [Psns -> Nat] /\ h.rtos \in [Psns -> Nat]
    /\ h.rts \in SUBSET Psns /\ h.faults \in Nat /\ h.changes \in Nat

\* From g to h nothing is lost, reported or taken by an RTS.
Quiet(g, h) == h.lost = g.lost /\ h.nacks = g.nacks /\ h.rts = g.rts

\* A path takes another value.
WithPath(n, e, q) == [n EXCEPT !.path[e] = q]

\* That changes nothing else.
LEMMA PathWritten ==
    ASSUME NEW n, NetTyped(n), NEW e \in Evs, NEW q \in Seq(PathMsg),
           NEW t, t = WithPath(n, e, q)
    PROVE  /\ NetTyped(t) /\ t.hi = n.hi /\ t.nack = n.nack
           /\ t.path[e] = q /\ \A d \in Evs \ {e} : t.path[d] = n.path[d]
<1> DEFINE f == [n.path EXCEPT ![e] = q]
<1>1. n.path \in [Evs -> Seq(PathMsg)]
  BY DEF NetTyped
<1>2. f \in [Evs -> Seq(PathMsg)] /\ f[e] = q /\ \A d \in Evs \ {e} : f[d] = n.path[d]
  BY <1>1
<1>3. t = [n EXCEPT !.path = f]
  BY DEF WithPath
<1> HIDE DEF f
<1>4. /\ t = [x \in NetFields |-> t[x]] /\ t.path = f /\ t.hi = n.hi /\ t.nack = n.nack
  BY <1>3 DEF NetTyped, NetFields
<1> QED
  BY <1>2, <1>4 DEF NetTyped

\* A message is sent on its path.
WithMessage(n, m) == [n EXCEPT !.path[m.ev] = Append(@, m)]

\* The path that it follows stays in order, and reaches it.
LEMMA SentOnPath ==
    ASSUME NEW n, NetTyped(n), NEW m \in PathMsg, m.ev \in Evs,
           NEW t, t = WithMessage(n, m)
    PROVE  /\ NetTyped(t) /\ t.hi = n.hi /\ t.nack = n.nack
           /\ \A S : PathsOK(n, S)
                     /\ Follows(m, m.ev, Reaches(n, S)[m.ev], ReachesAny(n, S)[m.ev])
                     => /\ PathsOK(t, S) /\ ReachesMore(n, S, t, S)
                        /\ m.t = "data" /\ m.psn \in Psns => m.psn \in Reaches(t, S)[m.ev]
                        /\ m.t \in {"data", "rtx"} /\ m.psn \in Psns
                              => m.psn \in ReachesAny(t, S)[m.ev]
<1> DEFINE e == m.ev  q == n.path[e]  r == Append(q, m)
<1>1. q \in Seq(PathMsg)
  BY DEF NetTyped
<1>2. r \in Seq(PathMsg)
  BY <1>1, AppendProperties
<1>3. t = WithPath(n, e, r) /\ e \in Evs
  BY DEF WithPath, WithMessage
<1> HIDE DEF r, q, e
<1>4. /\ NetTyped(t) /\ t.hi = n.hi /\ t.nack = n.nack
      /\ t.path[e] = r /\ \A d \in Evs \ {e} : t.path[d] = n.path[d]
  BY <1>2, <1>3, PathWritten
<1>5. ASSUME NEW S, PathsOK(n, S),
             Follows(m, e, Reaches(n, S)[e], ReachesAny(n, S)[e])
      PROVE  /\ PathsOK(t, S) /\ ReachesMore(n, S, t, S)
             /\ m.t = "data" /\ m.psn \in Psns => m.psn \in Reaches(t, S)[e]
             /\ m.t \in {"data", "rtx"} /\ m.psn \in Psns => m.psn \in ReachesAny(t, S)[e]
  <2>1. PathOK(q, e, S) /\ Follows(m, e, Reach(q, S), ReachAny(q, S))
    BY <1>3, <1>5 DEF PathsOK, Reaches, ReachesAny, q
  <2>2. /\ PathOK(r, e, S) /\ Reach(q, S) \subseteq Reach(r, S)
        /\ ReachAny(q, S) \subseteq ReachAny(r, S)
        /\ m.psn \in Psns /\ m.t = "data" => m.psn \in Reach(r, S)
        /\ m.psn \in Psns /\ m.t \in {"data", "rtx"} => m.psn \in ReachAny(r, S)
    BY <1>1, <2>1, PathAppend DEF r
  <2>3. PathsOK(t, S)
    <3> SUFFICES ASSUME NEW d \in Evs
                 PROVE  PathOK(t.path[d], d, S)
      BY DEF PathsOK
    <3>1. CASE d = e
      BY <1>4, <2>2, <3>1
    <3>2. CASE d # e
      BY <1>4, <1>5, <3>2 DEF PathsOK
    <3> QED
      BY <3>1, <3>2
  <2>4. ReachesMore(n, S, t, S)
    <3> SUFFICES ASSUME NEW d \in Evs
                 PROVE  /\ Reach(n.path[d], S) \subseteq Reach(t.path[d], S)
                        /\ ReachAny(n.path[d], S) \subseteq ReachAny(t.path[d], S)
      BY DEF ReachesMore
    <3>1. CASE d = e
      BY <1>4, <2>2, <3>1 DEF q
    <3>2. CASE d # e
      BY <1>4, <3>2
    <3> QED
      BY <3>1, <3>2
  <2> QED
    BY <1>3, <1>4, <2>2, <2>3, <2>4 DEF Reaches, ReachesAny
<1> QED
  BY <1>4, <1>5 DEF e

\* A message leaves its path; what it carried is settled then.
LEMMA LeftPath ==
    ASSUME NEW n, NetTyped(n), NEW e \in Evs, NEW i \in 1 .. Len(n.path[e]), NEW r,
           Cut(n.path[e], i, r), NEW t, t = WithPath(n, e, r)
    PROVE  /\ NetTyped(t) /\ t.hi = n.hi /\ t.nack = n.nack
           /\ \A S, S2 :
                 /\ S \subseteq S2 /\ PathsOK(n, S)
                 /\ n.path[e][i].t = "data" => n.path[e][i].psn \in S2
                 /\ Scheme = 3 /\ n.path[e][i].t = "rtx" => n.path[e][i].psn \in S2
                 => PathsOK(t, S2) /\ ReachesMore(n, S, t, S2)
<1> DEFINE q == n.path[e]
<1>1. q \in Seq(PathMsg) /\ r \in Seq(PathMsg)
  BY DEF NetTyped, Cut
<1>2. /\ NetTyped(t) /\ t.hi = n.hi /\ t.nack = n.nack
      /\ t.path[e] = r /\ \A d \in Evs \ {e} : t.path[d] = n.path[d]
  BY <1>1, PathWritten
<1>3. ASSUME NEW S, NEW S2, S \subseteq S2, PathsOK(n, S),
             q[i].t = "data" => q[i].psn \in S2,
             Scheme = 3 /\ q[i].t = "rtx" => q[i].psn \in S2
      PROVE  PathsOK(t, S2) /\ ReachesMore(n, S, t, S2)
  <2>1. PathOK(q, e, S) /\ Cut(q, i, r) /\ i \in 1 .. Len(q)
    BY <1>3 DEF PathsOK
  <2> HIDE DEF q
  <2>2. /\ PathOK(r, e, S2) /\ Reach(q, S) \subseteq Reach(r, S2)
        /\ Scheme = 3 => ReachAny(q, S) \subseteq ReachAny(r, S2)
    BY <1>1, <1>3, <2>1, PathCut
  <2>3. ASSUME NEW d \in Evs
        PROVE  /\ PathOK(t.path[d], d, S2)
               /\ Reach(n.path[d], S) \subseteq Reach(t.path[d], S2)
               /\ Scheme = 3 => ReachAny(n.path[d], S) \subseteq ReachAny(t.path[d], S2)
    <3>1. CASE d = e
      BY <1>2, <2>2, <3>1 DEF q
    <3>2. CASE d # e
      <4>1. PathOK(n.path[d], d, S)
        BY <1>3 DEF PathsOK
      <4>2. /\ PathOK(n.path[d], d, S2) /\ Reach(n.path[d], S) \subseteq Reach(n.path[d], S2)
            /\ ReachAny(n.path[d], S) \subseteq ReachAny(n.path[d], S2)
        BY <1>3, <4>1, PathMore
      <4> QED
        BY <1>2, <3>2, <4>2
    <3> QED
      BY <3>1, <3>2
  <2> QED
    BY <2>3 DEF PathsOK, ReachesMore
<1> QED
  BY <1>2, <1>3

\* More packets are settled on paths that stay as they are.
LEMMA PathsMore ==
    ASSUME NEW n, NEW S, NEW t, NEW S2, t.path = n.path, S \subseteq S2, PathsOK(n, S)
    PROVE  PathsOK(t, S2) /\ ReachesMore(n, S, t, S2)
<1>1. ASSUME NEW d \in Evs
      PROVE  /\ PathOK(t.path[d], d, S2)
             /\ Reach(n.path[d], S) \subseteq Reach(t.path[d], S2)
             /\ ReachAny(n.path[d], S) \subseteq ReachAny(t.path[d], S2)
  <2>1. PathOK(n.path[d], d, S)
    BY DEF PathsOK
  <2> QED
    BY <2>1, PathMore
<1> QED
  BY <1>1 DEF PathsOK, ReachesMore

\* The high priority queue takes another value.
LEMMA HighWritten ==
    ASSUME NEW n, NetTyped(n), NEW H \in SUBSET HighMsg, NEW t, t = [n EXCEPT !.hi = H]
    PROVE  NetTyped(t) /\ t.hi = H /\ t.path = n.path /\ t.nack = n.nack
<1>1. t = [x \in NetFields |-> t[x]] /\ t.hi = H /\ t.path = n.path /\ t.nack = n.nack
  BY DEF NetTyped, NetFields
<1> QED
  BY <1>1 DEF NetTyped

\* So do the NACKs on their way.
LEMMA NacksWritten ==
    ASSUME NEW n, NetTyped(n), NEW f \in [Psns -> Nat], NEW t, t = [n EXCEPT !.nack = f]
    PROVE  NetTyped(t) /\ t.hi = n.hi /\ t.path = n.path /\ t.nack = f
<1>1. t = [x \in NetFields |-> t[x]] /\ t.hi = n.hi /\ t.path = n.path /\ t.nack = f
  BY DEF NetTyped, NetFields
<1> QED
  BY <1>1 DEF NetTyped

-----------------------------------------------------------------------------
(* The invariant *)

\* What the history or the receiver settles: a packet that came, of which a copy
\* was lost, or that an RTS took.
Settled(r, h) == {p \in Psns : p \in h.rts \/ h.lost[p] > 0 \/ SeenBy(r, p)}

\* Every psn is one of data, sent or not, or one that an RTS took.
Ledger(s, h) ==
    /\ s.next + s.backlog = NPkts + Cardinality(h.rts)
    /\ Cardinality(h.rts) \in Nat /\ Cardinality(h.rts) <= MaxRts
    /\ \A p \in h.rts : p < s.next

\* The bitmaps of scheme 3 know of the packets that were accepted, RTS packets
\* aside, and of no other.
Window(r, h) ==
    Scheme = 3 => \A p \in Psns : /\ Marked(r, p) => p \in r.got
                                  /\ p \in r.got \ h.rts => Marked(r, p)

\* An RTS that travels was counted.
RtsKnown(n, h) == \A m \in n.hi : m.t = "rts" => m.psn \in h.rts

WellFormed(s, r, n, h) ==
    /\ SndTyped(s) /\ RcvTyped(r) /\ NetTyped(n) /\ HistTyped(h)
    /\ Ledger(s, h) /\ Window(r, h) /\ RtsKnown(n, h)

\* A trimmed packet was lost; a probe that left its path has been promoted.
HighOK(n, h) ==
    \A m \in n.hi : /\ m.t = "trim" => h.lost[m.psn] > 0
                    /\ m.t = "probe" => Scheme = 3 /\ m.promoted /\ "promote" \in Faults

\* What was reported was lost, or is an RTS.
NacksOK(h) == \A p \in Psns : h.nacks[p] > 0 => p \in h.rts \/ h.lost[p] > 0

\* A gap is a loss: whatever a message would report stands before it on its path,
\* or is settled.
InOrder(s, r, n, h) ==
    /\ PathsOK(n, Settled(r, h))
    /\ SenderOK(s, Reaches(n, Settled(r, h)), ReachesAny(n, Settled(r, h)))
    /\ HighOK(n, h) /\ NacksOK(h)

Inv(s, r, n, h) == WellFormed(s, r, n, h) /\ (Precise => InOrder(s, r, n, h))

\* Less is settled when less was lost, taken or seen.
LEMMA SettledMore ==
    ASSUME NEW r, NEW h, NEW t, NEW g,
           \A p \in Psns : /\ p \in h.rts => p \in g.rts
                           /\ h.lost[p] > 0 => g.lost[p] > 0
                           /\ SeenBy(r, p) => SeenBy(t, p)
    PROVE  Settled(r, h) \subseteq Settled(t, g)
  BY DEF Settled

\* A step of the sender that sends no new packet and puts nothing on a path.
LEMMA SenderStep ==
    ASSUME NEW s, NEW r, NEW n, NEW h, Inv(s, r, n, h),
           NEW s2, SndTyped(s2), Holds(s, s2), Knows(s, s2),
           NEW n2, NetTyped(n2), n2.path = n.path, n2.hi = n.hi,
           NEW h2, HistTyped(h2), Quiet(h, h2)
    PROVE  Inv(s2, r, n2, h2)
<1>1. WellFormed(s2, r, n2, h2)
  <2>1. SndTyped(s) /\ RcvTyped(r) /\ Ledger(s, h) /\ Window(r, h) /\ RtsKnown(n, h)
    BY DEF Inv, WellFormed
  <2>2. Ledger(s2, h2)
    BY <2>1 DEF Ledger, Holds, Quiet
  <2>3. Window(r, h2)
    BY <2>1 DEF Window, Quiet
  <2>4. RtsKnown(n2, h2)
    BY <2>1 DEF RtsKnown, Quiet
  <2> QED
    BY <2>1, <2>2, <2>3, <2>4 DEF WellFormed
<1>2. ASSUME Precise
      PROVE  InOrder(s2, r, n2, h2)
  <2>1. InOrder(s, r, n, h)
    BY <1>2 DEF Inv
  <2>2. Settled(r, h2) = Settled(r, h)
    BY DEF Settled, Quiet
  <2> DEFINE S == Settled(r, h)
  <2>3. /\ PathsOK(n, S) /\ SenderOK(s, Reaches(n, S), ReachesAny(n, S))
        /\ HighOK(n, h) /\ NacksOK(h)
    BY <2>1 DEF InOrder
  <2> HIDE DEF S
  <2>4. Reaches(n2, S) = Reaches(n, S) /\ ReachesAny(n2, S) = ReachesAny(n, S)
    BY DEF Reaches, ReachesAny
  <2>5. SenderOK(s2, Reaches(n2, S), ReachesAny(n2, S))
    BY <1>2, <2>3, <2>4 DEF Knows
  <2>6. PathsOK(n2, S)
    BY <2>3 DEF PathsOK
  <2>7. HighOK(n2, h2) /\ NacksOK(h2)
    BY <2>3 DEF HighOK, NacksOK, Quiet
  <2> QED
    BY <2>2, <2>5, <2>6, <2>7 DEF InOrder, S
<1> QED
  BY <1>1, <1>2 DEF Inv

\* A message is sent on its path, which it follows.
LEMMA SendStep ==
    ASSUME NEW s, NEW r, NEW n, NEW h, Inv(s, r, n, h),
           NEW m \in PathMsg, m.ev \in Evs, m.psn \in Psns,
           NEW n2, n2 = WithMessage(n, m),
           NEW s2, SndTyped(s2), s2.next + s2.backlog = s.next + s.backlog,
           s.next <= s2.next,
           Precise => \A R, A : SenderOK(s, R, A) => Follows(m, m.ev, R[m.ev], A[m.ev]),
           Precise => \A R, A : /\ SenderOK(s, R, A)
                                /\ m.t = "data" => m.psn \in R[m.ev]
                                /\ m.t \in {"data", "rtx"} => m.psn \in A[m.ev]
                                => SenderOK(s2, R, A)
    PROVE  Inv(s2, r, n2, h)
<1>1. /\ SndTyped(s) /\ RcvTyped(r) /\ NetTyped(n) /\ HistTyped(h)
      /\ Ledger(s, h) /\ Window(r, h) /\ RtsKnown(n, h)
  BY DEF Inv, WellFormed
<1>2. /\ NetTyped(n2) /\ n2.hi = n.hi
      /\ \A S : PathsOK(n, S)
                /\ Follows(m, m.ev, Reaches(n, S)[m.ev], ReachesAny(n, S)[m.ev])
                => /\ PathsOK(n2, S) /\ ReachesMore(n, S, n2, S)
                   /\ m.t = "data" => m.psn \in Reaches(n2, S)[m.ev]
                   /\ m.t \in {"data", "rtx"} => m.psn \in ReachesAny(n2, S)[m.ev]
  BY <1>1, SentOnPath
<1>3. Ledger(s2, h)
  <2>1. s.next \in Nat /\ s2.next \in Nat /\ \A p \in h.rts : p \in Nat
    BY <1>1, SndNumbers, Numbers DEF HistTyped
  <2> QED
    BY <1>1, <2>1 DEF Ledger
<1>4. WellFormed(s2, r, n2, h)
  BY <1>1, <1>2, <1>3 DEF WellFormed, RtsKnown
<1>5. ASSUME Precise
      PROVE  InOrder(s2, r, n2, h)
  <2> DEFINE S == Settled(r, h)
  <2>1. /\ PathsOK(n, S) /\ SenderOK(s, Reaches(n, S), ReachesAny(n, S))
        /\ HighOK(n, h) /\ NacksOK(h)
    BY <1>5 DEF Inv, InOrder
  <2> HIDE DEF S
  <2>2. Follows(m, m.ev, Reaches(n, S)[m.ev], ReachesAny(n, S)[m.ev])
    BY <1>5, <2>1
  <2>3. /\ PathsOK(n2, S) /\ ReachesMore(n, S, n2, S)
        /\ m.t = "data" => m.psn \in Reaches(n2, S)[m.ev]
        /\ m.t \in {"data", "rtx"} => m.psn \in ReachesAny(n2, S)[m.ev]
    BY <1>2, <2>1, <2>2
  <2>4. SenderOK(s, Reaches(n2, S), ReachesAny(n2, S))
    BY <1>1, <2>1, <2>3, SenderMore
  <2>5. SenderOK(s2, Reaches(n2, S), ReachesAny(n2, S))
    BY <1>5, <2>3, <2>4
  <2> QED
    BY <1>2, <2>1, <2>3, <2>5 DEF InOrder, HighOK, S
<1> QED
  BY <1>4, <1>5 DEF Inv

\* What the sink makes of a message: it forgets nothing, knows what came, and
\* reports what the message follows, or what was trimmed.
LEMMA SinkDelivers ==
    ASSUME RcvTyped(rcv), NEW h, Window(rcv, h), NEW m, m.psn \in Psns, m.ev \in Evs,
           m.t \in {"data", "rtx", "probe", "trim", "rts"}, m.t = "rts" => m.psn \in h.rts
    PROVE  LET d == Deliver(m)
           IN  /\ RcvTyped(d.r) /\ d.nacks \in SUBSET Psns /\ Window(d.r, h)
               /\ \A p \in Psns : SeenBy(rcv, p) => SeenBy(d.r, p)
               /\ Precise /\ m.t = "data" => SeenBy(d.r, m.psn)
               /\ Scheme = 3 /\ m.t = "rtx" => SeenBy(d.r, m.psn)
               /\ Precise =>
                    \A p \in d.nacks :
                      \/ m.t = "trim" /\ p = m.psn
                      \/ m.t = "data" /\ p \in Section(m.ev, m.psn) \ {m.psn} /\ ~SeenBy(rcv, p)
                      \/ /\ m.t = "probe" /\ ~(m.promoted /\ Coalescing /\ ~AcceptPromoted)
                         /\ Scheme = 3 =>
                              /\ ~SeenBy(rcv, p)
                              /\ IF m.kind = "rtx" THEN p = m.psn
                                 ELSE p \in Section(m.ev, m.psn)
<1> DEFINE d == Deliver(m)
\* The packet itself is accepted, RTS packets included, and noted in the window.
<1>1. ASSUME NEW t, NEW D, Accepts(rcv, t, D)
      PROVE  RcvTyped(t) /\ Window(t, h) /\ \A p \in Psns : SeenBy(rcv, p) => SeenBy(t, p)
  BY <1>1 DEF Accepts, Window
<1>2. CASE m.t \in {"data", "rtx"}
  <2>1. d = ProcessData(rcv, m)
    BY <1>2 DEF Deliver
  <2> HIDE DEF d
  <2>2. /\ Accepts(rcv, d.r, {m.psn}) /\ d.nacks \in SUBSET Psns
        /\ Scheme = 3 \/ (Scheme = 1 /\ m.t = "data") => SeenBy(d.r, m.psn)
        /\ Scheme \in {1, 3} =>
             \A p \in d.nacks : /\ m.t = "data" /\ p \in Section(m.ev, m.psn) \ {m.psn}
                                /\ ~SeenBy(rcv, p)
    BY <1>2, <2>1, DataAccepted
  <2>3. RcvTyped(d.r) /\ Window(d.r, h) /\ \A p \in Psns : SeenBy(rcv, p) => SeenBy(d.r, p)
    BY <1>1, <2>2
  <2>4. Precise => Scheme \in {1, 3}
    BY DEF Precise
  <2> QED
    BY <2>2, <2>3, <2>4 DEF d
<1>3. CASE m.t = "probe"
  <2>1. d = ProcessProbe(rcv, m)
    BY <1>3 DEF Deliver
  <2> HIDE DEF d
  <2>2. /\ Accepts(rcv, d.r, {}) /\ d.nacks \in SUBSET Psns
        /\ m.promoted /\ Coalescing /\ ~AcceptPromoted => d.nacks = {}
        /\ Scheme = 3 =>
             \A p \in d.nacks :
                /\ IF m.kind = "rtx" THEN p = m.psn ELSE p \in Section(m.ev, m.psn)
                /\ ~SeenBy(rcv, p)
    BY <2>1, ProbeAccepted
  <2>3. RcvTyped(d.r) /\ Window(d.r, h) /\ \A p \in Psns : SeenBy(rcv, p) => SeenBy(d.r, p)
    BY <1>1, <2>2
  <2> QED
    BY <1>3, <2>2, <2>3 DEF d
<1>4. CASE m.t = "trim"
  <2>1. d = ProcessTrimmed(rcv, m)
    BY <1>4 DEF Deliver
  <2>2. Scheme = 3 => \A p \in Psns : Marked(rcv, p) => p \in rcv.got
    BY DEF Window
  <2> HIDE DEF d
  <2>3. Accepts(rcv, d.r, {}) /\ d.nacks \in SUBSET Psns /\ d.nacks \subseteq {m.psn}
    BY <2>1, <2>2, TrimAccepted
  <2>4. RcvTyped(d.r) /\ Window(d.r, h) /\ \A p \in Psns : SeenBy(rcv, p) => SeenBy(d.r, p)
    BY <1>1, <2>3
  <2> QED
    BY <1>4, <2>3, <2>4 DEF d
<1>5. CASE m.t = "rts"
  <2> DEFINE G == rcv.got \cup {m.psn}  t == [rcv EXCEPT !.got = G]
  <2>1. d = [r |-> t, nacks |-> {}]
    BY <1>5 DEF Deliver
  <2>2. /\ t = [x \in RcvFields |-> t[x]] /\ t.got = G
        /\ t.start = rcv.start /\ t.end = rcv.end /\ t.bits = rcv.bits
        /\ t.nacked = rcv.nacked /\ t.expect = rcv.expect
    BY DEF RcvTyped, RcvFields
  <2> HIDE DEF t, d
  <2>3. RcvTyped(t)
    BY <2>2 DEF RcvTyped, G
  <2>4. \A p : (Marked(t, p) <=> Marked(rcv, p)) /\ (SeenBy(t, p) <=> SeenBy(rcv, p))
    BY <2>2 DEF Marked, SeenBy
  <2>5. Window(t, h)
    BY <1>5, <2>2, <2>4 DEF Window, G
  <2>6. d.r = t /\ d.nacks = {}
    BY <2>1
  <2> QED
    BY <1>5, <2>3, <2>4, <2>5, <2>6 DEF d
<1> QED
  BY <1>2, <1>3, <1>4, <1>5

\* A message m leaves the network: what it carried is settled then.
Leaves(n, m, t) ==
    /\ NetTyped(t) /\ t.nack = n.nack /\ t.hi \subseteq n.hi
    /\ \A S, S2 : /\ S \subseteq S2 /\ PathsOK(n, S)
                  /\ m.t = "data" => m.psn \in S2
                  /\ Scheme = 3 /\ m.t = "rtx" => m.psn \in S2
                  => PathsOK(t, S2) /\ ReachesMore(n, S, t, S2)

\* What a message would report is settled when it arrives.
Heard(m, S, h) ==
    /\ m.t = "trim" => h.lost[m.psn] > 0
    /\ m.t = "data" => Section(m.ev, m.psn) \ {m.psn} \subseteq S
    /\ m.t = "probe" => /\ Scheme = 3
                        /\ \/ m.promoted /\ "promote" \in Faults
                           \/ IF m.kind = "rtx" THEN m.psn \in S
                              ELSE Section(m.ev, m.psn) \subseteq S

\* Messages that leave, and packets that are settled, keep the network in order.
LEMMA NetworkStep ==
    ASSUME NEW s, NEW r, NEW n, NEW h, Inv(s, r, n, h), Precise,
           NEW m, NEW t, Leaves(n, m, t), NEW n2, n2.path = t.path,
           NEW r2, NEW h2, Settled(r, h) \subseteq Settled(r2, h2),
           m.t = "data" => m.psn \in Settled(r2, h2),
           Scheme = 3 /\ m.t = "rtx" => m.psn \in Settled(r2, h2)
    PROVE  /\ PathsOK(n2, Settled(r2, h2))
           /\ SenderOK(s, Reaches(n2, Settled(r2, h2)), ReachesAny(n2, Settled(r2, h2)))
<1> DEFINE S == Settled(r, h)  S2 == Settled(r2, h2)
<1>1. PathsOK(n, S) /\ SenderOK(s, Reaches(n, S), ReachesAny(n, S)) /\ SndTyped(s)
  BY DEF Inv, InOrder, WellFormed
<1> HIDE DEF S, S2
<1>2. /\ S \subseteq S2
      /\ m.t = "data" => m.psn \in S2
      /\ Scheme = 3 /\ m.t = "rtx" => m.psn \in S2
  BY DEF S, S2
<1>3. PathsOK(t, S2) /\ ReachesMore(n, S, t, S2)
  BY <1>1, <1>2 DEF Leaves
<1>4. PathsOK(n2, S2) /\ ReachesMore(n, S, n2, S2)
  BY <1>3 DEF PathsOK, ReachesMore
<1>5. SenderOK(s, Reaches(n2, S2), ReachesAny(n2, S2))
  BY <1>1, <1>4, SenderMore
<1> QED
  BY <1>4, <1>5 DEF S2

\* A message arrives.
LEMMA ReceiveStep ==
    ASSUME Inv(snd, rcv, net, hist), NEW m, m.psn \in Psns, m.ev \in Evs,
           m.t \in {"data", "rtx", "probe", "trim", "rts"},
           m.t = "rts" => m.psn \in hist.rts,
           NEW t, Leaves(net, m, t), Precise => Heard(m, Settled(rcv, hist), hist),
           Receive(m, t)
    PROVE  Inv(snd', rcv', net', hist')
<1>1. /\ SndTyped(snd) /\ RcvTyped(rcv) /\ NetTyped(net) /\ HistTyped(hist)
      /\ Ledger(snd, hist) /\ Window(rcv, hist) /\ RtsKnown(net, hist)
  BY DEF Inv, WellFormed
<1>2. NetTyped(t) /\ t.hi \subseteq net.hi
  BY DEF Leaves
<1>3. CASE Scheme = 2 /\ m.t = "probe"
  <2>1. /\ net' = t /\ hist' = [hist EXCEPT !.crashed = TRUE]
        /\ snd' = snd /\ rcv' = rcv
    BY <1>3 DEF Receive
  <2>2. /\ hist' = [x \in HistFields |-> hist'[x]]
        /\ hist'.lost = hist.lost /\ hist'.nacks = hist.nacks /\ hist'.rtos = hist.rtos
        /\ hist'.rts = hist.rts /\ hist'.faults = hist.faults
        /\ hist'.changes = hist.changes
    BY <1>1, <2>1 DEF HistTyped, HistFields
  <2>3. HistTyped(hist')
    BY <1>1, <2>2 DEF HistTyped
  <2>4. Ledger(snd', hist') /\ Window(rcv', hist') /\ RtsKnown(net', hist')
    BY <1>1, <1>2, <2>1, <2>2 DEF Ledger, Window, RtsKnown
  <2>5. WellFormed(snd', rcv', net', hist')
    BY <1>1, <1>2, <2>1, <2>3, <2>4 DEF WellFormed
  <2> QED
    BY <1>3, <2>5 DEF Inv, Precise
<1>4. CASE ~(Scheme = 2 /\ m.t = "probe")
  <2> DEFINE d == Deliver(m)
             f == [p \in Psns |-> IF p \in d.nacks THEN t.nack[p] + 1 ELSE t.nack[p]]
             g == [p \in Psns |-> IF p \in d.nacks THEN hist.nacks[p] + 1
                                                   ELSE hist.nacks[p]]
  <2>1. /\ rcv' = d.r /\ net' = [t EXCEPT !.nack = f]
        /\ hist' = [hist EXCEPT !.nacks = g] /\ snd' = snd
    BY <1>4 DEF Receive
  <2>2. /\ RcvTyped(d.r) /\ d.nacks \in SUBSET Psns /\ Window(d.r, hist)
        /\ \A p \in Psns : SeenBy(rcv, p) => SeenBy(d.r, p)
        /\ Precise /\ m.t = "data" => SeenBy(d.r, m.psn)
        /\ Scheme = 3 /\ m.t = "rtx" => SeenBy(d.r, m.psn)
        /\ Precise =>
             \A p \in d.nacks :
               \/ m.t = "trim" /\ p = m.psn
               \/ m.t = "data" /\ p \in Section(m.ev, m.psn) \ {m.psn} /\ ~SeenBy(rcv, p)
               \/ /\ m.t = "probe" /\ ~(m.promoted /\ Coalescing /\ ~AcceptPromoted)
                  /\ Scheme = 3 =>
                       /\ ~SeenBy(rcv, p)
                       /\ IF m.kind = "rtx" THEN p = m.psn
                          ELSE p \in Section(m.ev, m.psn)
    BY <1>1, SinkDelivers
  <2> HIDE DEF d
  <2>3. f \in [Psns -> Nat] /\ g \in [Psns -> Nat]
    <3>1. t.nack \in [Psns -> Nat]
      BY <1>2 DEF NetTyped
    <3>2. hist.nacks \in [Psns -> Nat]
      BY <1>1 DEF HistTyped
    <3> QED
      BY <3>1, <3>2
  <2>4. \A p \in Psns : g[p] > 0 => p \in d.nacks \/ hist.nacks[p] > 0
    OBVIOUS
  <2> HIDE DEF f, g
  <2>5. NetTyped(net') /\ net'.hi = t.hi /\ net'.path = t.path
    BY <1>2, <2>1, <2>3, NacksWritten
  <2>6. /\ hist' = [x \in HistFields |-> hist'[x]]
        /\ hist'.lost = hist.lost /\ hist'.nacks = g /\ hist'.rtos = hist.rtos
        /\ hist'.rts = hist.rts /\ hist'.faults = hist.faults
        /\ hist'.changes = hist.changes
    BY <1>1, <2>1 DEF HistTyped, HistFields
  <2>7. HistTyped(hist')
    BY <1>1, <2>3, <2>6 DEF HistTyped
  <2>8. Ledger(snd', hist') /\ Window(rcv', hist') /\ RtsKnown(net', hist')
    BY <1>1, <1>2, <2>1, <2>2, <2>5, <2>6 DEF Ledger, Window, RtsKnown
  <2>9. WellFormed(snd', rcv', net', hist')
    BY <1>1, <2>1, <2>2, <2>5, <2>7, <2>8 DEF WellFormed
  <2>10. ASSUME Precise
         PROVE  InOrder(snd', rcv', net', hist')
    <3>1. HighOK(net, hist) /\ NacksOK(hist)
      BY <2>10 DEF Inv, InOrder
    <3>2. Heard(m, Settled(rcv, hist), hist)
      BY <2>10
    <3>3. Settled(rcv, hist) \subseteq Settled(rcv', hist')
      BY <2>1, <2>2, <2>6 DEF Settled
    <3>4. /\ m.t = "data" => m.psn \in Settled(rcv', hist')
          /\ Scheme = 3 /\ m.t = "rtx" => m.psn \in Settled(rcv', hist')
      BY <2>1, <2>2, <2>10 DEF Settled
    <3>5. /\ PathsOK(net', Settled(rcv', hist'))
          /\ SenderOK(snd, Reaches(net', Settled(rcv', hist')),
                           ReachesAny(net', Settled(rcv', hist')))
      BY <2>5, <2>10, <3>3, <3>4, NetworkStep
    <3>6. HighOK(net', hist')
      BY <1>2, <2>5, <2>6, <3>1 DEF HighOK
    <3>7. ASSUME NEW p \in d.nacks
          PROVE  p \in hist.rts \/ hist.lost[p] > 0
      <4>1. p \in Psns
        BY <2>2
      <4>2. CASE m.t = "trim" /\ p = m.psn
        BY <3>2, <4>2 DEF Heard
      <4>3. CASE m.t = "data" /\ p \in Section(m.ev, m.psn) \ {m.psn} /\ ~SeenBy(rcv, p)
        BY <3>2, <4>3 DEF Heard, Settled
      <4>4. CASE /\ m.t = "probe" /\ ~(m.promoted /\ Coalescing /\ ~AcceptPromoted)
                 /\ Scheme = 3 =>
                      /\ ~SeenBy(rcv, p)
                      /\ IF m.kind = "rtx" THEN p = m.psn ELSE p \in Section(m.ev, m.psn)
        <5>1. ~(m.promoted /\ "promote" \in Faults) /\ Scheme = 3
          BY <2>10, <3>2, <4>4 DEF Heard, Precise
        <5>2. p \in Settled(rcv, hist)
          BY <3>2, <4>4, <5>1 DEF Heard
        <5> QED
          BY <4>4, <5>1, <5>2 DEF Settled
      <4> QED
        BY <2>2, <2>10, <4>2, <4>3, <4>4
    <3>8. NacksOK(hist')
      BY <2>4, <2>6, <3>1, <3>7 DEF NacksOK
    <3> QED
      BY <2>1, <3>5, <3>6, <3>8 DEF InOrder
  <2> QED
    BY <2>9, <2>10 DEF Inv
<1> QED
  BY <1>3, <1>4

\* A full queue drops, trims or promotes a message.
LEMMA LossStep ==
    ASSUME NEW s, NEW r, NEW n, NEW h, Inv(s, r, n, h), NEW m, NEW t, Leaves(n, m, t),
           m.psn \in Psns, m.t = "probe" /\ Precise => Scheme = 3,
           NEW h2, HistTyped(h2), h2.nacks = h.nacks, h2.rts = h.rts,
           \A p \in Psns : h.lost[p] > 0 => h2.lost[p] > 0,
           m.t \in {"data", "rtx"} => h2.lost[m.psn] > 0,
           NEW n2, NetTyped(n2), n2.path = t.path,
           \A x \in n2.hi : \/ x \in t.hi
                            \/ x.t = "trim" /\ h2.lost[x.psn] > 0
                            \/ x.t = "probe" /\ m.t = "probe" /\ x.promoted
                               /\ "promote" \in Faults
    PROVE  Inv(s, r, n2, h2)
<1>1. /\ SndTyped(s) /\ RcvTyped(r) /\ NetTyped(n) /\ HistTyped(h)
      /\ Ledger(s, h) /\ Window(r, h) /\ RtsKnown(n, h)
  BY DEF Inv, WellFormed
<1>2. t.hi \subseteq n.hi
  BY DEF Leaves
<1>3. WellFormed(s, r, n2, h2)
  <2>1. Ledger(s, h2) /\ Window(r, h2)
    BY <1>1 DEF Ledger, Window
  <2>2. RtsKnown(n2, h2)
    BY <1>1, <1>2 DEF RtsKnown
  <2> QED
    BY <1>1, <2>1, <2>2 DEF WellFormed
<1>4. ASSUME Precise
      PROVE  InOrder(s, r, n2, h2)
  <2>1. HighOK(n, h) /\ NacksOK(h)
    BY <1>4 DEF Inv, InOrder
  <2>2. Settled(r, h) \subseteq Settled(r, h2)
    BY SettledMore
  <2>3. m.t \in {"data", "rtx"} => m.psn \in Settled(r, h2)
    BY DEF Settled
  <2>4. /\ PathsOK(n2, Settled(r, h2))
        /\ SenderOK(s, Reaches(n2, Settled(r, h2)), ReachesAny(n2, Settled(r, h2)))
    BY <1>4, <2>2, <2>3, NetworkStep
  <2>5. HighOK(n2, h2)
    <3> SUFFICES ASSUME NEW x \in n2.hi
                 PROVE  /\ x.t = "trim" => h2.lost[x.psn] > 0
                        /\ x.t = "probe" => Scheme = 3 /\ x.promoted /\ "promote" \in Faults
      BY DEF HighOK
    <3>1. CASE x \in t.hi
      <4>1. x \in n.hi /\ x \in HighMsg
        BY <1>1, <1>2, <3>1 DEF NetTyped
      <4>2. x.t = "trim" => x.psn \in Psns
        BY <4>1 DEF HighMsg, ProbeMsg
      <4> QED
        BY <2>1, <4>1, <4>2 DEF HighOK
    <3>2. CASE x.t = "trim" /\ h2.lost[x.psn] > 0
      BY <3>2
    <3>3. CASE x.t = "probe" /\ m.t = "probe" /\ x.promoted /\ "promote" \in Faults
      BY <1>4, <3>3
    <3> QED
      BY <3>1, <3>2, <3>3
  <2>6. NacksOK(h2)
    BY <2>1 DEF NacksOK
  <2> QED
    BY <2>4, <2>5, <2>6 DEF InOrder
<1> QED
  BY <1>3, <1>4 DEF Inv

\* A finite set takes a new number.
LEMMA OneMore ==
    ASSUME NEW T \in SUBSET Psns, NEW x, x \notin T
    PROVE  Cardinality(T \cup {x}) = Cardinality(T) + 1 /\ Cardinality(T) \in Nat
<1>1. IsFiniteSet(Psns)
  BY Numbers, FS_Interval
<1>2. IsFiniteSet(T)
  BY <1>1, FS_Subset
<1> QED
  BY <1>2, FS_AddElement, FS_CardinalityType

\* A timeout sends an RTS, which takes a psn that nothing reports as lost data.
LEMMA RtsStep ==
    ASSUME NEW s, NEW r, NEW n, NEW h, Inv(s, r, n, h), Cardinality(h.rts) < MaxRts,
           NEW q, SndTyped(q), Holds(s, q), Knows(s, q), NEW s2, s2 = WithRts(q),
           NEW n2, NetTyped(n2), n2.path = n.path,
           \A x \in n2.hi : x \in n.hi \/ (x.t = "rts" /\ x.psn = s.next),
           NEW h2, HistTyped(h2), h2.lost = h.lost, h2.nacks = h.nacks,
           h2.rts = h.rts \cup {s.next}
    PROVE  Inv(s2, r, n2, h2)
<1>1. /\ SndTyped(s) /\ RcvTyped(r) /\ NetTyped(n) /\ HistTyped(h)
      /\ Ledger(s, h) /\ Window(r, h) /\ RtsKnown(n, h)
  BY DEF Inv, WellFormed
<1>2. /\ s.next \in Nat /\ s.backlog \in Nat /\ Cardinality(h.rts) \in Nat
      /\ h.rts \in SUBSET Psns /\ h2.rts \in SUBSET Psns
      /\ s.next + s.backlog = NPkts + Cardinality(h.rts)
      /\ \A p \in h.rts : p \in Nat /\ p < s.next
  <2>1. s.next \in Nat /\ s.backlog \in Nat
    BY <1>1, SndNumbers
  <2>2. /\ s.next + s.backlog = NPkts + Cardinality(h.rts)
        /\ Cardinality(h.rts) \in Nat /\ \A p \in h.rts : p < s.next
    BY <1>1 DEF Ledger
  <2>3. h.rts \in SUBSET Psns /\ h2.rts \in SUBSET Psns
    BY <1>1 DEF HistTyped
  <2>4. \A p \in h.rts : p \in Nat
    BY <2>3, Numbers
  <2> QED
    BY <2>1, <2>2, <2>3, <2>4
<1>3. q.next = s.next /\ q.backlog = s.backlog /\ q.next + q.backlog < Total
  BY <1>2, Numbers DEF Holds, Total
<1>4. /\ SndTyped(s2) /\ s2.next = q.next + 1 /\ s2.backlog = q.backlog /\ q.next \in Psns
      /\ \A R, A : SenderOK(q, R, A) /\ q.next \in R[q.cur[Slot(q.next)]]
                   => SenderOK(s2, R, A)
  BY <1>3, RtsTakes
<1>5. Cardinality(h2.rts) = Cardinality(h.rts) + 1
  <2>1. s.next \notin h.rts
    BY <1>2
  <2> QED
    BY <1>2, <2>1, OneMore
<1>6. WellFormed(s2, r, n2, h2)
  <2>1. Ledger(s2, h2)
    <3>1. s2.next + s2.backlog = NPkts + Cardinality(h2.rts)
      BY SMTT(30), <1>2, <1>3, <1>4, <1>5, Numbers
    <3>2. Cardinality(h2.rts) \in Nat /\ Cardinality(h2.rts) <= MaxRts
      BY <1>2, <1>5, Numbers
    <3>3. \A p \in h2.rts : p < s2.next
      BY <1>2, <1>3, <1>4
    <3> QED
      BY <3>1, <3>2, <3>3 DEF Ledger
  <2>2. Window(r, h2)
    BY <1>1 DEF Window
  <2>3. RtsKnown(n2, h2)
    BY <1>1 DEF RtsKnown
  <2> QED
    BY <1>1, <1>4, <2>1, <2>2, <2>3 DEF WellFormed
<1>7. ASSUME Precise
      PROVE  InOrder(s2, r, n2, h2)
  <2> DEFINE S == Settled(r, h)  S2 == Settled(r, h2)
  <2>1. /\ PathsOK(n, S) /\ SenderOK(s, Reaches(n, S), ReachesAny(n, S))
        /\ HighOK(n, h) /\ NacksOK(h)
    BY <1>7 DEF Inv, InOrder
  <2>2. S \subseteq S2 /\ s.next \in S2
    BY <1>3, <1>4 DEF Settled
  <2> HIDE DEF S, S2
  <2>3. PathsOK(n2, S2) /\ ReachesMore(n, S, n2, S2)
    BY <2>1, <2>2, PathsMore
  <2>4. SenderOK(s, Reaches(n2, S2), ReachesAny(n2, S2))
    BY <1>1, <2>1, <2>3, SenderMore
  <2>5. SenderOK(q, Reaches(n2, S2), ReachesAny(n2, S2))
    BY <1>7, <2>4 DEF Knows
  <2>6. q.next \in Reaches(n2, S2)[q.cur[Slot(q.next)]]
    <3>1. Slot(q.next) \in Slots
      BY <1>2, <1>3, SlotOfPsn
    <3>2. q.cur[Slot(q.next)] \in Evs
      BY <3>1 DEF SndTyped
    <3> QED
      BY <1>3, <2>2, <3>2 DEF Reaches, Reach
  <2>7. SenderOK(s2, Reaches(n2, S2), ReachesAny(n2, S2))
    BY <1>4, <2>5, <2>6
  <2>8. HighOK(n2, h2)
    BY <2>1 DEF HighOK
  <2>9. NacksOK(h2)
    BY <2>1 DEF NacksOK
  <2> QED
    BY <2>3, <2>7, <2>8, <2>9 DEF InOrder, S2
<1> QED
  BY <1>6, <1>7 DEF Inv

\* Nothing was sent, and nothing is known.
LEMMA InvInit == Init => Inv(snd, rcv, net, hist)
<1> SUFFICES ASSUME Init
             PROVE  Inv(snd, rcv, net, hist)
  OBVIOUS
<1>1. snd = InitSnd /\ rcv = InitRcv /\ net = InitNet /\ hist = InitHist
  BY DEF Init
<1>2. 0 \in Psns /\ 0 \in Evs /\ 0 \in Nat
  BY Numbers DEF Evs
<1>3. SndTyped(snd)
  <2> DEFINE cur == [k \in Slots |-> InitialEv(k)]
             last == [k \in Slots |-> <<0, 0>>]
             asked == [k \in Slots |-> 0]
             armed == IF ProbeEvery = 0 THEN Slots ELSE {}
  <2>1. cur \in [Slots -> Evs]
    <3> SUFFICES ASSUME NEW k \in Slots
                 PROVE  InitialEv(k) \in Evs
      OBVIOUS
    <3>1. k \in Nat /\ k < NSlots
      BY EvNumbers
    <3>2. k * (EvSpace \div NSlots) \in 0 .. EvSpace - 1 /\ NSlots <= EvSpace
      BY <3>1, Numbers, PartBelow
    <3>3. CASE Scheme = 3
      <4>1. k \in 0 .. EvSpace - 1
        BY <3>1, <3>2, Numbers
      <4> QED
        BY <3>3, <4>1 DEF InitialEv, Evs
    <3>4. CASE Scheme # 3
      BY <3>2, <3>4 DEF InitialEv, Evs, Generations
    <3> QED
      BY <3>3, <3>4
  <2>2. last \in [Slots -> Psns \X Evs]
    BY <1>2
  <2>3. asked \in [Slots -> Nat] /\ armed \in SUBSET Slots
    OBVIOUS
  <2>4. <<>> \in Seq(Asks)
    OBVIOUS
  <2> HIDE DEF cur, last, asked, armed
  <2>5. /\ snd = [x \in SndFields |-> snd[x]]
        /\ snd.next = 0 /\ snd.backlog = NPkts /\ snd.cur = cur /\ snd.probes = <<>>
        /\ snd.out = {} /\ snd.rtx = {} /\ snd.last = last /\ snd.asked = asked
        /\ snd.armed = armed
    BY <1>1 DEF InitSnd, SndFields, cur, last, asked, armed
  <2>6. 0 + NPkts <= Total
    BY Numbers DEF Total
  <2>7. NPkts \in Nat
    BY Numbers
  <2>8. snd.next \in Nat /\ snd.backlog \in Nat /\ snd.next + snd.backlog <= Total
    BY <2>5, <2>6, <2>7
  <2>9. /\ snd.out \in SUBSET Psns /\ snd.rtx \in SUBSET Psns /\ snd.out \cap snd.rtx = {}
        /\ \A p \in snd.out \cup snd.rtx : p < snd.next
    BY <2>5
  <2> QED
    BY <2>1, <2>2, <2>3, <2>4, <2>5, <2>8, <2>9 DEF SndTyped
<1>4. RcvTyped(rcv) /\ Window(rcv, hist)
  <2> DEFINE e == [k \in Slots |-> k]
  <2>1. /\ rcv = [x \in RcvFields |-> rcv[x]]
        /\ rcv.got = {} /\ rcv.start = 0 /\ rcv.end = 0 /\ rcv.bits = {}
        /\ rcv.nacked = {} /\ rcv.expect = e
    BY <1>1 DEF InitRcv, RcvFields
  <2>2. e \in [Slots -> Nat]
    BY EvNumbers
  <2> HIDE DEF e
  <2>3. 0 <= Total
    BY Numbers
  <2>4. RcvTyped(rcv)
    BY <2>1, <2>2, <2>3 DEF RcvTyped
  <2>5. \A p \in Psns : ~Marked(rcv, p)
    <3> TAKE p \in Psns
    <3>1. p \in Nat
      BY Numbers
    <3>2. ~(p < 0)
      BY <3>1
    <3> QED
      BY <2>1, <3>2 DEF Marked
  <2> QED
    BY <2>1, <2>4, <2>5 DEF Window
<1>5. NetTyped(net) /\ net.hi = {} /\ \A e \in Evs : net.path[e] = <<>>
  <2> DEFINE f == [e \in Evs |-> <<>>]  g == [p \in Psns |-> 0]
  <2>1. /\ net = [x \in NetFields |-> net[x]]
        /\ net.path = f /\ net.hi = {} /\ net.nack = g
    BY <1>1 DEF InitNet, NetFields
  <2>2. f \in [Evs -> Seq(PathMsg)] /\ g \in [Psns -> Nat] /\ \A e \in Evs : f[e] = <<>>
    OBVIOUS
  <2> HIDE DEF f, g
  <2> QED
    BY <2>1, <2>2 DEF NetTyped
<1>6. HistTyped(hist) /\ hist.rts = {} /\ \A p \in Psns : ~(hist.nacks[p] > 0)
  <2> DEFINE g == [p \in Psns |-> 0]
  <2>1. /\ hist = [x \in HistFields |-> hist[x]]
        /\ hist.lost = g /\ hist.nacks = g /\ hist.rtos = g /\ hist.rts = {}
        /\ hist.faults = 0 /\ hist.changes = 0
    BY <1>1 DEF InitHist, HistFields
  <2>2. g \in [Psns -> Nat] /\ \A p \in Psns : ~(g[p] > 0)
    OBVIOUS
  <2> HIDE DEF g
  <2> QED
    BY <2>1, <2>2 DEF HistTyped
<1>7. /\ snd.next = 0 /\ snd.backlog = NPkts /\ snd.probes = <<>>
      /\ snd.last = [k \in Slots |-> <<0, 0>>]
  BY <1>1 DEF InitSnd
<1>8. Ledger(snd, hist)
  <2>1. Cardinality({}) = 0
    BY FS_EmptySet
  <2> QED
    BY <1>6, <1>7, <2>1, Numbers DEF Ledger
<1>9. RtsKnown(net, hist)
  BY <1>5 DEF RtsKnown
<1>10. ASSUME NEW S
       PROVE  PathsOK(net, S) /\ SenderOK(snd, Reaches(net, S), ReachesAny(net, S))
  <2>1. PathsOK(net, S)
    BY <1>5 DEF PathsOK, PathOK
  <2>2. \A i \in DOMAIN snd.probes : FALSE
    BY <1>7
  <2>3. \A p \in Psns : ~(p < snd.next)
    BY <1>7, Numbers
  <2>4. \A k \in Slots : ~(snd.last[k][1] > 0)
    BY <1>7
  <2> QED
    BY <2>1, <2>2, <2>3, <2>4 DEF SenderOK
<1>11. HighOK(net, hist) /\ NacksOK(hist)
  BY <1>5, <1>6 DEF HighOK, NacksOK
<1> QED
  BY <1>3, <1>4, <1>5, <1>6, <1>8, <1>9, <1>10, <1>11 DEF Inv, WellFormed, InOrder

\* The counter of path changes takes another value.
LEMMA ChangesWritten ==
    ASSUME NEW h, HistTyped(h), NEW c \in Nat, NEW t, t = [h EXCEPT !.changes = c]
    PROVE  HistTyped(t) /\ Quiet(h, t)
<1>1. /\ t = [x \in HistFields |-> t[x]]
      /\ t.lost = h.lost /\ t.nacks = h.nacks /\ t.rtos = h.rtos
      /\ t.rts = h.rts /\ t.faults = h.faults /\ t.changes = c
  BY DEF HistTyped, HistFields
<1> QED
  BY <1>1 DEF HistTyped, Quiet

\* So does the sender when it sends.
LEMMA TimeToSendKeeps ==
    ASSUME Inv(snd, rcv, net, hist), TimeToSend
    PROVE  Inv(snd', rcv', net', hist')
<1>1. rcv' = rcv /\ hist' = hist
  BY DEF TimeToSend
<1>2. SndTyped(snd) /\ NetTyped(net)
  BY DEF Inv, WellFormed
<1>3. ASSUME NEW psn \in snd.rtx, snd' = SendRtxPacket(snd, psn),
             OnPath(Data("rtx", psn, snd.cur[Slot(psn)]))
      PROVE  Inv(snd', rcv', net', hist')
  <2> DEFINE ev == snd.cur[Slot(psn)]  m == Data("rtx", psn, ev)
  <2>1. psn \in Psns
    BY <1>2 DEF SndTyped
  <2>2. ev \in Evs
    <3>1. Slot(psn) \in Slots
      BY <2>1, SlotOfPsn, Numbers
    <3> QED
      BY <1>2, <3>1 DEF SndTyped
  <2>3. net' = WithMessage(net, m)
    BY <1>3 DEF OnPath, WithMessage
  <2>4. /\ SndTyped(snd') /\ Holds(snd, snd') /\ snd'.cur = snd.cur
        /\ Precise => \A R, A : SenderOK(snd, R, A) /\ psn \in A[ev] => SenderOK(snd', R, A)
    BY <1>2, <1>3, SendRtxKeeps
  <2> HIDE DEF ev
  <2>5. /\ m \in PathMsg /\ m.t = "rtx" /\ m.psn = psn /\ m.ev = ev
    BY <2>1, <2>2 DEF Data, PathMsg, DataMsg
  <2> HIDE DEF m
  <2>6. \A R, A : Follows(m, m.ev, R[m.ev], A[m.ev])
    BY <2>5 DEF Follows
  <2>7. Precise => \A R, A : /\ SenderOK(snd, R, A)
                             /\ m.t = "data" => m.psn \in R[m.ev]
                             /\ m.t \in {"data", "rtx"} => m.psn \in A[m.ev]
                             => SenderOK(snd', R, A)
    BY <2>4, <2>5
  <2>8. snd.next <= snd'.next /\ snd'.next + snd'.backlog = snd.next + snd.backlog
    BY <1>2, <2>4, SndNumbers DEF Holds
  <2>9. Inv(snd', rcv, net', hist)
    BY <2>1, <2>2, <2>3, <2>4, <2>5, <2>6, <2>7, <2>8, SendStep
  <2> QED
    BY <1>1, <2>9
<1>4. ASSUME snd.probes # <<>>, snd' = SendProbePacket(snd),
             LET p == Head(snd.probes)
             IN  OnPath([t |-> "probe", psn |-> p.psn, ev |-> p.ev, kind |-> p.kind,
                         promoted |-> FALSE])
      PROVE  Inv(snd', rcv', net', hist')
  <2> DEFINE p == Head(snd.probes)
             m == [t |-> "probe", psn |-> p.psn, ev |-> p.ev, kind |-> p.kind,
                   promoted |-> FALSE]
  <2>1. SndTyped(snd') /\ Holds(snd, snd') /\ Knows(snd, snd') /\ p \in Asks
    BY <1>2, <1>4, SendProbeKeeps
  <2>2. net' = WithMessage(net, m)
    BY <1>4 DEF OnPath, WithMessage
  <2>3. \A R, A : SenderOK(snd, R, A) => Asked(p, R, A)
    <3>1. snd.probes \in Seq(Asks)
      BY <1>2 DEF SndTyped
    <3>2. p = snd.probes[1] /\ 1 \in DOMAIN snd.probes
      BY <1>4, <3>1
    <3> QED
      BY <3>2 DEF SenderOK
  <2> HIDE DEF p
  <2>4. /\ m \in PathMsg /\ m.t = "probe" /\ m.psn = p.psn /\ m.ev = p.ev
        /\ m.kind = p.kind /\ m.ev \in Evs /\ m.psn \in Psns
    BY <2>1 DEF Asks, PathMsg, ProbeMsg
  <2> HIDE DEF m
  <2>5. \A R, A : SenderOK(snd, R, A) => Follows(m, m.ev, R[m.ev], A[m.ev])
    BY <2>3, <2>4 DEF Follows, Asked, Covered
  <2>6. Precise => \A R, A : /\ SenderOK(snd, R, A)
                             /\ m.t = "data" => m.psn \in R[m.ev]
                             /\ m.t \in {"data", "rtx"} => m.psn \in A[m.ev]
                             => SenderOK(snd', R, A)
    BY <2>1 DEF Knows
  <2>7. snd.next <= snd'.next /\ snd'.next + snd'.backlog = snd.next + snd.backlog
    BY <1>2, <2>1, SndNumbers DEF Holds
  <2>8. Inv(snd', rcv, net', hist)
    BY <2>1, <2>2, <2>4, <2>5, <2>6, <2>7, SendStep
  <2> QED
    BY <1>1, <2>8
<1>5. ASSUME snd.backlog > 0, snd' = SendNewPacket(snd),
             OnPath(Data("data", snd.next, snd.cur[Slot(snd.next)]))
      PROVE  Inv(snd', rcv', net', hist')
  <2> DEFINE psn == snd.next  ev == snd.cur[Slot(psn)]  m == Data("data", psn, ev)
  <2>1. psn \in Psns /\ psn \in Nat /\ snd.backlog \in Nat
    BY <1>2, <1>5, SndNumbers
  <2>2. ev \in Evs
    <3>1. Slot(psn) \in Slots
      BY <2>1, SlotOfPsn
    <3> QED
      BY <1>2, <3>1 DEF SndTyped
  <2>3. net' = WithMessage(net, m)
    BY <1>5 DEF OnPath, WithMessage
  <2>4. /\ SndTyped(snd') /\ snd'.next = psn + 1 /\ snd'.backlog = snd.backlog - 1
        /\ Precise => \A R, A : SenderOK(snd, R, A) /\ psn \in R[ev] => SenderOK(snd', R, A)
    BY <1>2, <1>5, SendNewKeeps
  <2>5. \A R, A : SenderOK(snd, R, A) => Section(ev, psn) \ {psn} \subseteq R[ev]
    <3> SUFFICES ASSUME NEW R, NEW A, SenderOK(snd, R, A), NEW p \in Section(ev, psn), p # psn
                 PROVE  p \in R[ev]
      OBVIOUS
    <3>1. p \in Psns /\ p \in Nat /\ Slot(p) = Slot(psn) /\ Base(ev) <= p /\ p <= psn
      BY Numbers DEF Section
    <3>2. p < psn
      BY <2>1, <3>1
    <3> QED
      BY <3>1, <3>2 DEF SenderOK
  <2> HIDE DEF ev
  <2>6. m \in PathMsg /\ m.t = "data" /\ m.psn = psn /\ m.ev = ev
    BY <2>1, <2>2 DEF Data, PathMsg, DataMsg
  <2> HIDE DEF m, psn
  <2>7. \A R, A : SenderOK(snd, R, A) => Follows(m, m.ev, R[m.ev], A[m.ev])
    BY <2>5, <2>6 DEF Follows
  <2>8. Precise => \A R, A : /\ SenderOK(snd, R, A)
                             /\ m.t = "data" => m.psn \in R[m.ev]
                             /\ m.t \in {"data", "rtx"} => m.psn \in A[m.ev]
                             => SenderOK(snd', R, A)
    BY <2>4, <2>6
  <2>9. snd.next <= snd'.next /\ snd'.next + snd'.backlog = snd.next + snd.backlog
    BY <2>1, <2>4 DEF psn
  <2>10. Inv(snd', rcv, net', hist)
    BY <2>1, <2>2, <2>3, <2>4, <2>6, <2>7, <2>8, <2>9, SendStep
  <2> QED
    BY <1>1, <2>10
<1> QED
  BY <1>3, <1>4, <1>5 DEF TimeToSend

\* The timer of the dynamic probes.
LEMMA ProactiveProbeKeeps ==
    ASSUME Inv(snd, rcv, net, hist), NEW slot \in Slots, ProactiveProbe(slot)
    PROVE  Inv(snd', rcv', net', hist')
<1>1. rcv' = rcv /\ net' = net /\ hist' = hist
  BY DEF ProactiveProbe
<1>2. SndTyped(snd) /\ NetTyped(net) /\ HistTyped(hist)
  BY DEF Inv, WellFormed
<1>3. LET u == [snd EXCEPT !.armed = @ \ {slot}]
          psn == snd.last[slot][1]
      IN  snd' = IF u.next > slot /\ u.asked[slot] < psn /\ u.backlog > 0
                 THEN EnqueueProbe(u, psn, u.last[slot][2], "data") ELSE u
  <2> DEFINE ar == snd.armed \ {slot}  u == [snd EXCEPT !.armed = ar]
  <2>1. u.last = snd.last
    BY <1>2 DEF SndTyped, SndFields
  <2> QED
    BY <2>1 DEF ProactiveProbe
<1>4. SndTyped(snd') /\ Holds(snd, snd') /\ Knows(snd, snd')
  BY <1>2, <1>3, TimerKeeps
<1>5. Inv(snd', rcv, net, hist)
  BY <1>2, <1>4, SenderStep DEF Quiet
<1> QED
  BY <1>1, <1>5

\* The counter of changes follows the paths.
LEMMA CountChangeKeeps ==
    ASSUME HistTyped(hist), NEW t, CountChange(t)
    PROVE  HistTyped(hist') /\ Quiet(hist, hist')
<1> DEFINE c == IF t.cur = snd.cur THEN hist.changes ELSE hist.changes + 1
<1>1. c \in Nat
  BY DEF HistTyped
<1>2. hist' = [hist EXCEPT !.changes = c]
  BY DEF CountChange
<1> HIDE DEF c
<1> QED
  BY <1>1, <1>2, ChangesWritten

\* What the sender knows, step after step.
LEMMA KnowsBoth ==
    ASSUME NEW s, NEW t, NEW u, Knows(s, t), Knows(t, u), Holds(s, t), Holds(t, u)
    PROVE  Knows(s, u) /\ Holds(s, u)
  BY DEF Knows, Holds

\* An acknowledgement comes, and may move a slot to another path.
LEMMA ReceiveAckKeeps ==
    ASSUME Inv(snd, rcv, net, hist), ReceiveAck
    PROVE  Inv(snd', rcv', net', hist')
<1>1. rcv' = rcv /\ net' = net /\ CountChange(snd')
  BY DEF ReceiveAck
<1>2. SndTyped(snd) /\ NetTyped(net) /\ HistTyped(hist)
  BY DEF Inv, WellFormed
<1>3. PICK psn \in rcv.got \cap (snd.out \cup snd.rtx) :
         snd' \in Rerouted([snd EXCEPT !.out = @ \ {psn}, !.rtx = @ \ {psn}])
  BY DEF ReceiveAck
<1> DEFINE t == [snd EXCEPT !.out = @ \ {psn}, !.rtx = @ \ {psn}]
<1>4. SndTyped(t) /\ Holds(snd, t) /\ Knows(snd, t)
  BY <1>2, AckedKeeps
<1> HIDE DEF t
<1>5. snd' \in Rerouted(t)
  BY <1>3 DEF t
<1>6. SndTyped(snd') /\ Holds(t, snd') /\ Knows(t, snd')
  BY <1>4, <1>5, ReroutedKeeps
<1>7. Holds(snd, snd') /\ Knows(snd, snd')
  BY <1>4, <1>6, KnowsBoth
<1>8. HistTyped(hist') /\ Quiet(hist, hist')
  BY <1>1, <1>2, CountChangeKeeps
<1>9. Inv(snd', rcv, net, hist')
  BY <1>2, <1>6, <1>7, <1>8, SenderStep
<1> QED
  BY <1>1, <1>9

\* So may a NACK, which queues the packet again.
LEMMA ReceiveNackKeeps ==
    ASSUME Inv(snd, rcv, net, hist), NEW psn \in Psns, ReceiveNack(psn)
    PROVE  Inv(snd', rcv', net', hist')
<1>1. rcv' = rcv /\ CountChange(snd') /\ net.nack[psn] > 0
  BY DEF ReceiveNack
<1>2. SndTyped(snd) /\ NetTyped(net) /\ HistTyped(hist)
  BY DEF Inv, WellFormed
<1>3. SndTyped(snd') /\ Holds(snd, snd') /\ Knows(snd, snd')
  <2>1. CASE psn \in snd.out
    <3> DEFINE t == QueueForRtx(snd, psn)
    <3>1. SndTyped(t) /\ Holds(snd, t) /\ Knows(snd, t)
      BY <1>2, <2>1, QueueForRtxKeeps
    <3>2. snd' \in Rerouted(t)
      BY <2>1 DEF ReceiveNack
    <3> HIDE DEF t
    <3>3. SndTyped(snd') /\ Holds(t, snd') /\ Knows(t, snd')
      BY <3>1, <3>2, ReroutedKeeps
    <3> QED
      BY <3>1, <3>3, KnowsBoth
  <2>2. CASE psn \notin snd.out
    <3>1. snd' = snd
      BY <2>2 DEF ReceiveNack
    <3> QED
      BY <1>2, <3>1 DEF Holds, Knows
  <2> QED
    BY <2>1, <2>2
<1>4. NetTyped(net') /\ net'.path = net.path /\ net'.hi = net.hi
  <2> DEFINE f == [net.nack EXCEPT ![psn] = @ - 1]
  <2>1. f \in [Psns -> Nat]
    <3>1. net.nack \in [Psns -> Nat]
      BY <1>2 DEF NetTyped
    <3> QED
      BY <1>1, <3>1
  <2>2. net' = [net EXCEPT !.nack = f]
    BY DEF ReceiveNack
  <2> HIDE DEF f
  <2> QED
    BY <1>2, <2>1, <2>2, NacksWritten
<1>5. HistTyped(hist') /\ Quiet(hist, hist')
  BY <1>1, <1>2, CountChangeKeeps
<1>6. Inv(snd', rcv, net', hist')
  BY <1>3, <1>4, <1>5, SenderStep
<1> QED
  BY <1>1, <1>6

\* A timeout queues the packet again, may move its slot to another path, and may
\* send an RTS.
LEMMA RetransmitTimeoutKeeps ==
    ASSUME Inv(snd, rcv, net, hist), NEW psn \in Psns, RetransmitTimeout(psn)
    PROVE  Inv(snd', rcv', net', hist')
<1>1. rcv' = rcv /\ psn \in snd.out
  BY DEF RetransmitTimeout
<1>2. SndTyped(snd) /\ NetTyped(net) /\ HistTyped(hist)
  BY DEF Inv, WellFormed
<1>3. PICK s \in Bumped(snd, Slot(psn)), rts \in BOOLEAN :
         LET q == QueueForRtx(s, psn)
             h == [hist EXCEPT !.rtos[psn] = @ + 1,
                               !.changes = IF s.cur = snd.cur THEN @ ELSE @ + 1]
         IN  IF rts
             THEN /\ Cardinality(hist.rts) < MaxRts
                  /\ snd' = [q EXCEPT !.next = @ + 1, !.out = @ \cup {snd.next}]
                  /\ net' = [net EXCEPT !.hi = @ \cup
                        {[t |-> "rts", psn |-> snd.next, ev |-> snd.cur[Slot(snd.next)]]}]
                  /\ hist' = [h EXCEPT !.rts = @ \cup {snd.next}]
             ELSE /\ snd' = q /\ hist' = h /\ UNCHANGED net
  BY DEF RetransmitTimeout
<1> DEFINE q == QueueForRtx(s, psn)
           ro == [hist.rtos EXCEPT ![psn] = @ + 1]
           ch == IF s.cur = snd.cur THEN hist.changes ELSE hist.changes + 1
           h == [hist EXCEPT !.rtos = ro, !.changes = ch]
           x == [t |-> "rts", psn |-> snd.next, ev |-> snd.cur[Slot(snd.next)]]
<1>4. SndTyped(s) /\ Holds(snd, s) /\ Knows(snd, s) /\ s.out = snd.out
  <2>1. Slot(psn) \in Slots /\ Slot(psn) < snd.next
    <3>1. psn \in Nat /\ psn < snd.next /\ snd.next \in Nat
      BY <1>1, <1>2, SndNumbers
    <3>2. psn = NSlots * (psn \div NSlots) + Slot(psn) /\ psn \div NSlots \in Nat
      BY <3>1, Numbers, Euclid DEF Slot
    <3>3. Slot(psn) \in Slots /\ Slot(psn) \in Nat
      BY <3>1, SlotOfPsn, EvNumbers
    <3>4. NSlots * (psn \div NSlots) \in Nat
      BY <3>2, Numbers
    <3> QED
      BY <3>1, <3>2, <3>3, <3>4
  <2> QED
    BY <1>2, <2>1, BumpedKeeps
<1>5. SndTyped(q) /\ Holds(s, q) /\ Knows(s, q)
  BY <1>1, <1>4, QueueForRtxKeeps
<1> HIDE DEF q
<1>6. Holds(snd, q) /\ Knows(snd, q)
  BY <1>4, <1>5, KnowsBoth
<1>7. ro \in [Psns -> Nat] /\ ch \in Nat
  <2>1. hist.rtos \in [Psns -> Nat] /\ hist.changes \in Nat
    BY <1>2 DEF HistTyped
  <2> QED
    BY <2>1
<1>8. /\ IF rts
         THEN /\ Cardinality(hist.rts) < MaxRts
              /\ snd' = [q EXCEPT !.next = @ + 1, !.out = @ \cup {snd.next}]
              /\ net' = [net EXCEPT !.hi = @ \cup {x}]
              /\ hist' = [h EXCEPT !.rts = @ \cup {snd.next}]
         ELSE /\ snd' = q /\ hist' = h /\ UNCHANGED net
  BY <1>3 DEF q
<1> HIDE DEF ro, ch
<1>9. /\ h = [y \in HistFields |-> h[y]]
      /\ h.lost = hist.lost /\ h.nacks = hist.nacks /\ h.rtos = ro
      /\ h.rts = hist.rts /\ h.faults = hist.faults /\ h.changes = ch
  BY <1>2 DEF HistTyped, HistFields
<1> HIDE DEF h
<1>10. HistTyped(h) /\ Quiet(hist, h)
  BY <1>2, <1>7, <1>9 DEF HistTyped, Quiet
<1>11. CASE ~rts
  <2>1. snd' = q /\ hist' = h /\ net' = net
    BY <1>8, <1>11
  <2>2. Inv(q, rcv, net, h)
    BY <1>2, <1>5, <1>6, <1>10, SenderStep
  <2> QED
    BY <1>1, <2>1, <2>2
<1>12. CASE rts
  <2> DEFINE H == net.hi \cup {x}  T == hist.rts \cup {snd.next}
  <2>1. /\ Cardinality(hist.rts) < MaxRts
        /\ snd' = [q EXCEPT !.next = @ + 1, !.out = @ \cup {snd.next}]
        /\ net' = [net EXCEPT !.hi = H] /\ hist' = [h EXCEPT !.rts = T]
    BY <1>8, <1>9, <1>12
  <2>2. snd' = WithRts(q)
    BY <1>6, <2>1 DEF WithRts, Holds
  <2>3. snd.next \in Psns
    <3>1. /\ snd.next \in Nat /\ snd.backlog \in Nat /\ Cardinality(hist.rts) \in Nat
          /\ snd.next + snd.backlog = NPkts + Cardinality(hist.rts)
      BY <1>2, SndNumbers DEF Inv, WellFormed, Ledger
    <3> QED
      BY SMTT(30), <2>1, <3>1, Numbers DEF Total
  <2>4. H \in SUBSET HighMsg
    <3>1. Slot(snd.next) \in Slots
      BY <2>3, SlotOfPsn, Numbers
    <3>2. snd.cur[Slot(snd.next)] \in Evs
      BY <1>2, <3>1 DEF SndTyped
    <3>3. x \in HighMsg
      BY <2>3, <3>2 DEF HighMsg
    <3> QED
      BY <1>2, <3>3 DEF NetTyped
  <2>5. \A y \in H : y \in net.hi \/ (y.t = "rts" /\ y.psn = snd.next)
    OBVIOUS
  <2> HIDE DEF H
  <2>6. NetTyped(net') /\ net'.path = net.path /\ net'.hi = H
    BY <1>2, <2>1, <2>4, HighWritten
  <2>7. T \in SUBSET Psns
    BY <1>2, <2>3 DEF HistTyped
  <2>8. /\ hist' = [y \in HistFields |-> hist'[y]]
        /\ hist'.lost = hist.lost /\ hist'.nacks = hist.nacks /\ hist'.rtos = ro
        /\ hist'.rts = T /\ hist'.faults = hist.faults /\ hist'.changes = ch
    <3> HIDE DEF T
    <3> QED
      BY <1>9, <2>1 DEF HistFields
  <2>9. HistTyped(hist')
    BY <1>2, <1>7, <2>7, <2>8 DEF HistTyped
  <2>10. \A y \in net'.hi : y \in net.hi \/ (y.t = "rts" /\ y.psn = snd.next)
    BY <2>5, <2>6
  <2>11. /\ hist'.lost = hist.lost /\ hist'.nacks = hist.nacks
         /\ hist'.rts = hist.rts \cup {snd.next}
    BY <2>8
  <2>12. Cardinality(hist.rts) < MaxRts /\ NetTyped(net') /\ net'.path = net.path
    BY <2>1, <2>6
  <2>13. Inv(snd', rcv, net', hist')
    BY <1>5, <1>6, <2>2, <2>9, <2>10, <2>11, <2>12, RtsStep
  <2> QED
    BY <1>1, <2>13
<1> QED
  BY <1>11, <1>12

\* The first message of a path arrives.
LEMMA ArriveInOrderKeeps ==
    ASSUME Inv(snd, rcv, net, hist), NEW ev \in Evs, ArriveInOrder(ev)
    PROVE  Inv(snd', rcv', net', hist')
<1> DEFINE q == net.path[ev]  m == Head(q)  t == WithPath(net, ev, Tail(q))
<1>1. NetTyped(net)
  BY DEF Inv, WellFormed
<1>2. q \in Seq(PathMsg) /\ q # <<>>
  BY <1>1 DEF NetTyped, ArriveInOrder
<1>3. Receive(m, t)
  BY DEF ArriveInOrder, WithPath
<1>4. Cut(q, 1, Tail(q)) /\ 1 \in 1 .. Len(q) /\ m = q[1] /\ m \in PathMsg
  BY <1>2, TailCuts
<1>5. Leaves(net, m, t)
  <2> DEFINE r == Tail(q)
  <2>1. Cut(net.path[ev], 1, r) /\ 1 \in 1 .. Len(net.path[ev])
    BY <1>4
  <2> HIDE DEF r
  <2>2. t = WithPath(net, ev, r)
    BY DEF r
  <2> HIDE DEF t
  <2>3. /\ NetTyped(t) /\ t.hi = net.hi /\ t.nack = net.nack
        /\ \A S, S2 :
              /\ S \subseteq S2 /\ PathsOK(net, S)
              /\ net.path[ev][1].t = "data" => net.path[ev][1].psn \in S2
              /\ Scheme = 3 /\ net.path[ev][1].t = "rtx" => net.path[ev][1].psn \in S2
              => PathsOK(t, S2) /\ ReachesMore(net, S, t, S2)
    BY <1>1, <2>1, <2>2, LeftPath
  <2> QED
    BY <1>4, <2>3 DEF Leaves
<1>6. Precise => Heard(m, Settled(rcv, hist), hist)
  <2> SUFFICES ASSUME Precise
               PROVE  Heard(m, Settled(rcv, hist), hist)
    OBVIOUS
  <2> DEFINE S == Settled(rcv, hist)
  <2>1. PathOK(q, ev, S)
    BY DEF Inv, InOrder, PathsOK
  <2> HIDE DEF S, q
  <2>2. Follows(q[1], ev, Before(q, 1, S), BeforeAny(q, 1, S))
    BY <1>4, <2>1 DEF PathOK
  <2>3. Before(q, 1, S) = S /\ BeforeAny(q, 1, S) = S
    <3>1. \A p : ~On(q, 1 - 1, p) /\ ~OnAny(q, 1 - 1, p)
      BY DEF On, OnAny
    <3> QED
      BY <3>1 DEF Before, BeforeAny
  <2>4. Follows(m, ev, S, S)
    BY <1>4, <2>2, <2>3
  <2>5. m.t # "trim"
    BY <1>4 DEF PathMsg, DataMsg, ProbeMsg
  <2> QED
    BY <2>4, <2>5 DEF Follows, Heard, S
<1> HIDE DEF m, q, t
<1>7. m.psn \in Psns /\ m.ev \in Evs /\ m.t \in {"data", "rtx", "probe"}
  BY <1>4 DEF PathMsg, DataMsg, ProbeMsg
<1> QED
  BY <1>3, <1>5, <1>6, <1>7, ReceiveStep

\* A message of the high priority queue arrives.
LEMMA ArriveHighKeeps ==
    ASSUME Inv(snd, rcv, net, hist), NEW m, ArriveHigh(m)
    PROVE  Inv(snd', rcv', net', hist')
<1> DEFINE H == net.hi \ {m}  t == [net EXCEPT !.hi = H]
<1>1. NetTyped(net) /\ RtsKnown(net, hist)
  BY DEF Inv, WellFormed
<1>2. m \in net.hi /\ Receive(m, t)
  BY DEF ArriveHigh
<1>3. m \in HighMsg
  BY <1>1, <1>2 DEF NetTyped
<1>4. m.psn \in Psns /\ m.ev \in Evs /\ m.t \in {"probe", "trim", "rts"}
  BY <1>3 DEF HighMsg, ProbeMsg
<1>5. NetTyped(t) /\ t.hi = H /\ t.path = net.path /\ t.nack = net.nack
  <2>1. H \in SUBSET HighMsg
    BY <1>1 DEF NetTyped
  <2> HIDE DEF H
  <2> QED
    BY <1>1, <2>1, HighWritten
<1> HIDE DEF t
<1>6. Leaves(net, m, t)
  <2>1. \A S, S2 : S \subseteq S2 /\ PathsOK(net, S)
                   => PathsOK(t, S2) /\ ReachesMore(net, S, t, S2)
    BY <1>5, PathsMore
  <2> QED
    BY <1>5, <2>1 DEF Leaves
<1>7. Precise => Heard(m, Settled(rcv, hist), hist)
  BY <1>2, <1>4 DEF Inv, InOrder, HighOK, Heard
<1>8. m.t = "rts" => m.psn \in hist.rts
  BY <1>1, <1>2 DEF RtsKnown
<1> QED
  BY <1>2, <1>4, <1>6, <1>7, <1>8, ReceiveStep

\* A full queue drops, trims or promotes a message of a path.
LEMMA OverflowKeeps ==
    ASSUME Inv(snd, rcv, net, hist), NEW ev \in Evs, Overflow(ev)
    PROVE  Inv(snd', rcv', net', hist')
<1>1. snd' = snd /\ rcv' = rcv
  BY DEF Overflow
<1>2. NetTyped(net) /\ HistTyped(hist)
  BY DEF Inv, WellFormed
<1>3. net.path[ev] \in Seq(PathMsg)
  BY SMTT(30), <1>2 DEF NetTyped
<1>4. PICK i \in DOMAIN net.path[ev] :
         LET m == net.path[ev][i]
             rest == [net EXCEPT !.path[ev] = RemoveAt(@, i)]
             counted == [hist EXCEPT !.faults = @ + 1]
         IN  \/ /\ m.t # "probe"
                /\ \/ "drop" \in Faults /\ net' = rest
                   \/ /\ "trim" \in Faults
                      /\ net' = [rest EXCEPT !.hi = @ \cup {[m EXCEPT !.t = "trim"]}]
                /\ hist' = [counted EXCEPT !.lost[m.psn] = @ + 1]
             \/ /\ m.t = "probe" /\ "promote" \in Faults
                /\ \/ net' = rest
                   \/ net' = [rest EXCEPT !.hi = @ \cup {[m EXCEPT !.promoted = TRUE]}]
                /\ hist' = counted
  BY DEF Overflow
<1> DEFINE m == net.path[ev][i]
           r == RemoveAt(net.path[ev], i)
           t == WithPath(net, ev, r)
           fa == hist.faults + 1
           counted == [hist EXCEPT !.faults = fa]
           lo == [hist.lost EXCEPT ![m.psn] = hist.lost[m.psn] + 1]
           trim == [m EXCEPT !.t = "trim"]
           moved == [m EXCEPT !.promoted = TRUE]
<1>5. i \in 1 .. Len(net.path[ev])
  BY <1>3
<1>6. Cut(net.path[ev], i, r) /\ m \in PathMsg
  BY <1>3, <1>5, RemoveAtCuts
<1>7. Leaves(net, m, t)
  <2> HIDE DEF r
  <2>1. t = WithPath(net, ev, r)
    OBVIOUS
  <2> HIDE DEF t
  <2>2. /\ NetTyped(t) /\ t.hi = net.hi /\ t.nack = net.nack
        /\ \A S, S2 :
              /\ S \subseteq S2 /\ PathsOK(net, S)
              /\ net.path[ev][i].t = "data" => net.path[ev][i].psn \in S2
              /\ Scheme = 3 /\ net.path[ev][i].t = "rtx" => net.path[ev][i].psn \in S2
              => PathsOK(t, S2) /\ ReachesMore(net, S, t, S2)
    BY <1>2, <1>5, <1>6, <2>1, LeftPath
  <2> QED
    BY <2>2 DEF Leaves
<1>8. \/ /\ m.t # "probe"
         /\ net' = t \/ net' = [t EXCEPT !.hi = t.hi \cup {trim}]
         /\ hist' = [counted EXCEPT !.lost = lo]
      \/ /\ m.t = "probe" /\ "promote" \in Faults
         /\ net' = t \/ net' = [t EXCEPT !.hi = t.hi \cup {moved}]
         /\ hist' = counted
  <2>1. counted.lost = hist.lost
    BY <1>2 DEF HistTyped, HistFields
  <2>2. t = [net EXCEPT !.path[ev] = RemoveAt(net.path[ev], i)]
    BY DEF WithPath
  <2> QED
    BY <1>4, <2>1, <2>2
<1>9. Precise /\ m.t = "probe" => Scheme = 3
  <2> SUFFICES ASSUME Precise, m.t = "probe"
               PROVE  Scheme = 3
    OBVIOUS
  <2>1. PathOK(net.path[ev], ev, Settled(rcv, hist))
    BY DEF Inv, InOrder, PathsOK
  <2> QED
    BY <1>5, <2>1 DEF PathOK, Follows
<1>10. NetTyped(t)
  BY <1>7 DEF Leaves
<1> HIDE DEF t, r
<1> HIDE DEF m
<1>11. m.psn \in Psns /\ m.t \in {"data", "rtx", "probe"}
  BY <1>6 DEF PathMsg, DataMsg, ProbeMsg
<1>12. fa \in Nat /\ lo \in [Psns -> Nat] /\ lo[m.psn] > 0
       /\ \A p \in Psns : hist.lost[p] > 0 => lo[p] > 0
  <2>1. hist.lost \in [Psns -> Nat] /\ hist.faults \in Nat
    BY <1>2 DEF HistTyped
  <2> QED
    BY <1>11, <2>1
<1> HIDE DEF fa, lo
<1>13. /\ counted = [x \in HistFields |-> counted[x]]
       /\ counted.lost = hist.lost /\ counted.nacks = hist.nacks
       /\ counted.rtos = hist.rtos /\ counted.rts = hist.rts
       /\ counted.faults = fa /\ counted.changes = hist.changes
  BY <1>2 DEF HistTyped, HistFields
<1> HIDE DEF counted
<1>14. CASE m.t # "probe"
  <2>1. /\ net' = t \/ net' = [t EXCEPT !.hi = t.hi \cup {trim}]
        /\ hist' = [counted EXCEPT !.lost = lo]
    BY <1>8, <1>14
  <2>2. /\ hist' = [x \in HistFields |-> hist'[x]]
        /\ hist'.lost = lo /\ hist'.nacks = hist.nacks
        /\ hist'.rtos = hist.rtos /\ hist'.rts = hist.rts
        /\ hist'.faults = fa /\ hist'.changes = hist.changes
    BY <1>13, <2>1 DEF HistFields
  <2>3. HistTyped(hist')
    BY <1>2, <1>12, <2>2 DEF HistTyped
  <2>4. trim \in HighMsg /\ trim.t = "trim" /\ trim.psn = m.psn
    <3>1. m \in DataMsg
      BY <1>6, <1>14 DEF PathMsg, ProbeMsg
    <3> QED
      BY <3>1 DEF DataMsg, HighMsg
  <2> HIDE DEF trim
  <2>5. /\ NetTyped(net') /\ net'.path = t.path
        /\ \A x \in net'.hi : x \in t.hi \/ x = trim
    <3>1. CASE net' = t
      BY <1>10, <3>1
    <3>2. CASE net' = [t EXCEPT !.hi = t.hi \cup {trim}]
      <4> DEFINE H == t.hi \cup {trim}
      <4>1. H \in SUBSET HighMsg
        BY <1>10, <2>4 DEF NetTyped
      <4>2. \A x \in H : x \in t.hi \/ x = trim
        OBVIOUS
      <4>3. net' = [t EXCEPT !.hi = H]
        BY <3>2
      <4> HIDE DEF H
      <4>4. NetTyped(net') /\ net'.hi = H /\ net'.path = t.path
        BY <1>10, <4>1, <4>3, HighWritten
      <4> QED
        BY <4>2, <4>4
    <3> QED
      BY <2>1, <3>1, <3>2
  <2>6. \A x \in net'.hi : x \in t.hi \/ (x.t = "trim" /\ hist'.lost[x.psn] > 0)
    BY <1>12, <2>2, <2>4, <2>5
  <2>7. /\ \A p \in Psns : hist.lost[p] > 0 => hist'.lost[p] > 0
        /\ hist'.lost[m.psn] > 0 /\ hist'.nacks = hist.nacks /\ hist'.rts = hist.rts
    BY <1>12, <2>2
  <2>8. Inv(snd, rcv, net', hist')
    BY <1>7, <1>9, <1>11, <2>3, <2>5, <2>6, <2>7, LossStep
  <2> QED
    BY <1>1, <2>8
<1>15. CASE m.t = "probe"
  <2>1. /\ net' = t \/ net' = [t EXCEPT !.hi = t.hi \cup {moved}]
        /\ hist' = counted /\ "promote" \in Faults
    BY <1>8, <1>15
  <2>2. HistTyped(counted)
    BY <1>2, <1>12, <1>13 DEF HistTyped
  <2>3. moved \in HighMsg /\ moved.t = "probe" /\ moved.promoted
    <3>1. m \in ProbeMsg
      BY <1>6, <1>15 DEF PathMsg, DataMsg
    <3> QED
      BY <3>1 DEF ProbeMsg, HighMsg
  <2> HIDE DEF moved
  <2>4. /\ NetTyped(net') /\ net'.path = t.path
        /\ \A x \in net'.hi : x \in t.hi \/ x = moved
    <3>1. CASE net' = t
      BY <1>10, <3>1
    <3>2. CASE net' = [t EXCEPT !.hi = t.hi \cup {moved}]
      <4> DEFINE H == t.hi \cup {moved}
      <4>1. H \in SUBSET HighMsg
        BY <1>10, <2>3 DEF NetTyped
      <4>2. \A x \in H : x \in t.hi \/ x = moved
        OBVIOUS
      <4>3. net' = [t EXCEPT !.hi = H]
        BY <3>2
      <4> HIDE DEF H
      <4>4. NetTyped(net') /\ net'.hi = H /\ net'.path = t.path
        BY <1>10, <4>1, <4>3, HighWritten
      <4> QED
        BY <4>2, <4>4
    <3> QED
      BY <2>1, <3>1, <3>2
  <2>5. \A x \in net'.hi : \/ x \in t.hi
                           \/ x.t = "probe" /\ m.t = "probe" /\ x.promoted
                              /\ "promote" \in Faults
    BY <1>15, <2>1, <2>3, <2>4
  <2>6. /\ \A p \in Psns : hist.lost[p] > 0 => counted.lost[p] > 0
        /\ counted.nacks = hist.nacks /\ counted.rts = hist.rts
    BY <1>13
  <2>7. Inv(snd, rcv, net', counted)
    BY <1>7, <1>9, <1>11, <1>15, <2>2, <2>4, <2>5, <2>6, LossStep
  <2> QED
    BY <1>1, <2>1, <2>7
<1> QED
  BY <1>14, <1>15

PflrInv == Inv(snd, rcv, net, hist)

\* The invariant holds in every state, for every scheme: the records of both ends,
\* of the network and of the history are well formed, and when the detection is
\* precise everything that is on its way is in order.
THEOREM PflrInvariant == Spec => []PflrInv
<1>1. Init => PflrInv
  BY InvInit DEF PflrInv
<1>2. PflrInv /\ [Next]_vars => PflrInv'
  <2> SUFFICES ASSUME Inv(snd, rcv, net, hist), [Next]_vars
               PROVE  Inv(snd', rcv', net', hist')
    BY DEF PflrInv
  <2>1. CASE UNCHANGED vars
    BY <2>1 DEF vars
  <2>2. CASE TimeToSend
    BY <2>2, TimeToSendKeeps
  <2>3. CASE ReceiveAck
    BY <2>3, ReceiveAckKeeps
  <2>4. ASSUME NEW slot \in Slots, ProactiveProbe(slot)
        PROVE  Inv(snd', rcv', net', hist')
    BY <2>4, ProactiveProbeKeeps
  <2>5. ASSUME NEW psn \in Psns, ReceiveNack(psn)
        PROVE  Inv(snd', rcv', net', hist')
    BY <2>5, ReceiveNackKeeps
  <2>6. ASSUME NEW psn \in Psns, RetransmitTimeout(psn)
        PROVE  Inv(snd', rcv', net', hist')
    BY <2>6, RetransmitTimeoutKeeps
  <2>7. ASSUME NEW ev \in Evs, ArriveInOrder(ev)
        PROVE  Inv(snd', rcv', net', hist')
    BY <2>7, ArriveInOrderKeeps
  <2>8. ASSUME NEW ev \in Evs, Overflow(ev)
        PROVE  Inv(snd', rcv', net', hist')
    BY <2>8, OverflowKeeps
  <2>9. ASSUME NEW m \in net.hi, ArriveHigh(m)
        PROVE  Inv(snd', rcv', net', hist')
    BY <2>9, ArriveHighKeeps
  <2> QED
    BY <2>1, <2>2, <2>3, <2>4, <2>5, <2>6, <2>7, <2>8, <2>9 DEF Next
<1> QED
  BY <1>1, <1>2, PTL DEF Spec

\* Every packet of the sender is in one place, its paths are entropy values, and
\* the bitmaps of the receiver lie between their bounds.
THEOREM PflrTyped == Spec => []TypeOK
<1>1. PflrInv => TypeOK
  <2> SUFFICES ASSUME PflrInv
               PROVE  TypeOK
    OBVIOUS
  <2>1. SndTyped(snd) /\ RcvTyped(rcv)
    BY DEF PflrInv, Inv, WellFormed
  <2>2. /\ snd.next \in Nat /\ snd.backlog \in Nat /\ snd.next + snd.backlog <= Total
        /\ \A p \in snd.out \cup snd.rtx : p \in Nat /\ p < snd.next
    BY <2>1, SndNumbers
  <2>3. /\ rcv.start \in Nat /\ rcv.end \in Nat
        /\ \A p \in rcv.bits \cup rcv.nacked : p \in Nat /\ rcv.start <= p /\ p < rcv.end
    BY <2>1, RcvNumbers
  <2>4. snd.out \cap snd.rtx = {} /\ \A k \in Slots : snd.cur[k] \in Evs
    BY <2>1 DEF SndTyped
  <2>5. snd.out \cup snd.rtx \subseteq 0 .. snd.next - 1
    BY <2>2
  <2>6. rcv.bits \cup rcv.nacked \subseteq rcv.start .. rcv.end - 1
    BY <2>3
  <2>7. snd.next + snd.backlog <= NPkts + MaxRts
    BY <2>2 DEF Total
  <2> QED
    BY <2>4, <2>5, <2>6, <2>7 DEF TypeOK
<1> QED
  BY <1>1, PflrInvariant, PTL

\* Under scheme 3 the bitmaps of the detector hold the data that was accepted, and
\* begin no later than the packet that is expected: an index never falls below zero.
THEOREM PflrWindowAgrees == Scheme = 3 => (Spec => []WindowAgrees)
<1> SUFFICES ASSUME Scheme = 3
             PROVE  Spec => []WindowAgrees
  OBVIOUS
<1>1. PflrInv => WindowAgrees
  <2> SUFFICES ASSUME PflrInv
               PROVE  WindowAgrees
    OBVIOUS
  <2>1. /\ RcvTyped(rcv)
        /\ \A p \in Psns : /\ Marked(rcv, p) => p \in rcv.got
                           /\ p \in rcv.got \ hist.rts => Marked(rcv, p)
    BY DEF PflrInv, Inv, WellFormed, Window
  <2>2. /\ rcv.start \in Nat /\ rcv.start <= Total /\ Total \in Nat
        /\ rcv.got \in SUBSET Psns /\ rcv.bits \in SUBSET Psns
    <3>1. rcv.start \in Nat /\ rcv.end \in Nat /\ rcv.start <= rcv.end /\ rcv.end <= Total
      BY <2>1, RcvNumbers
    <3>2. rcv.got \in SUBSET Psns /\ rcv.bits \in SUBSET Psns
      BY <2>1 DEF RcvTyped
    <3> QED
      BY <3>1, <3>2, Numbers
  <2>3. rcv.start <= Expected(rcv)
    <3> DEFINE M == {p \in 0 .. Total : p \notin rcv.got}
    <3>1. Total \in M /\ M \in SUBSET Nat
      BY <2>2, Numbers
    <3>2. Min(M) \in M
      BY <3>1, MinNat
    <3>3. Expected(rcv) = Min(M)
      BY DEF Expected, Total
    <3> HIDE DEF M
    <3>4. Min(M) \in 0 .. Total /\ Min(M) \notin rcv.got
      BY <3>2 DEF M
    <3> DEFINE e == Min(M)
    <3> HIDE DEF e
    <3>5. e \in Nat /\ e \notin rcv.got /\ (e < Total => e \in Psns) /\ e <= Total
      BY <2>2, <3>4, Numbers DEF e
    <3>6. e < rcv.start => e \in Psns
      BY <2>2, <3>5
    <3>7. ~(e < rcv.start)
      BY <2>1, <3>5, <3>6 DEF Marked
    <3> QED
      BY <2>2, <3>3, <3>5, <3>7 DEF e
  <2>4. rcv.bits \subseteq rcv.got
    BY <2>1, <2>2 DEF Marked
  <2>5. {p \in rcv.got \ hist.rts : p >= rcv.start} \subseteq rcv.bits
    <3> SUFFICES ASSUME NEW p \in rcv.got \ hist.rts, p >= rcv.start
                 PROVE  p \in rcv.bits
      OBVIOUS
    <3>1. p \in Psns /\ p \in Nat
      BY <2>2, Numbers
    <3>2. ~(p < rcv.start)
      BY <2>2, <3>1
    <3> QED
      BY <2>1, <3>1, <3>2 DEF Marked
  <2> QED
    BY <2>3, <2>4, <2>5 DEF WindowAgrees
<1> QED
  BY <1>1, PflrInvariant, PTL

\* Reordering is told from loss: a packet of data is reported lost only if a copy
\* of it was lost, whatever paths the slots take, however late messages come.
THEOREM PflrNoFalseNack == Precise => (Spec => []NoFalseNack)
<1> SUFFICES ASSUME Precise
             PROVE  Spec => []NoFalseNack
  OBVIOUS
<1>1. PflrInv => NoFalseNack
  <2> SUFFICES ASSUME PflrInv, NEW p \in Psns \ hist.rts, hist.nacks[p] > 0
               PROVE  hist.lost[p] > 0
    BY DEF NoFalseNack
  <2> QED
    BY DEF PflrInv, Inv, InOrder, NacksOK
<1> QED
  BY <1>1, PflrInvariant, PTL
=============================================================================
