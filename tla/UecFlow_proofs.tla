--------------------------- MODULE UecFlow_proofs ---------------------------
(***************************************************************************)
(* The inductive invariant of a flow, and the properties of UecFlow that   *)
(* follow from it for every flow size, packet size, window and number of   *)
(* faults.                                                                 *)
(***************************************************************************)
EXTENDS UecFlow, NatFacts_proofs

-----------------------------------------------------------------------------
(* Lemmas about the operators of UecSrc: what each method of the sender preserves of the sender's
   record. *)

\* The psns are finitely many, and so is every set of them.
LEMMA PsnFinite ==
    ASSUME NEW S \in SUBSET Psn
    PROVE  /\ IsFiniteSet(Psn) /\ Psn \subseteq Nat
           /\ IsFiniteSet(S) /\ Cardinality(S) \in Nat
<1>1. IsFiniteSet(Psn)
  BY FS_Interval, NDataAssumption, MaxRtsAssumption DEF Psn
<1>2. IsFiniteSet(S)
  BY <1>1, FS_Subset
<1> QED
  BY <1>1, <1>2, FS_CardinalityType DEF Psn

-----------------------------------------------------------------------------
(* Sizes *)

\* Bytes adds up over the parts of a set.
LEMMA BytesSplit ==
    ASSUME NEW s, NEW S \in SUBSET Psn, NEW A \in SUBSET S
    PROVE  /\ Bytes(s, S) \in Nat /\ Bytes(s, A) \in Nat
           /\ Bytes(s, S \ A) = Bytes(s, S) - Bytes(s, A)
<1> DEFINE data(T) == T \ s.rts  ctrl(T) == T \cap s.rts
<1>1. \A T \in SUBSET Psn : Cardinality(data(T)) \in Nat /\ Cardinality(ctrl(T)) \in Nat
  <2> TAKE T \in SUBSET Psn
  <2>1. data(T) \in SUBSET Psn /\ ctrl(T) \in SUBSET Psn
    OBVIOUS
  <2> QED
    BY <2>1, PsnFinite
<1>2. /\ Cardinality(data(S \ A)) = Cardinality(data(S)) - Cardinality(data(A))
      /\ Cardinality(ctrl(S \ A)) = Cardinality(ctrl(S)) - Cardinality(ctrl(A))
  <2>1. /\ data(S \ A) = data(S) \ data(A) /\ data(S) \cap data(A) = data(A)
        /\ ctrl(S \ A) = ctrl(S) \ ctrl(A) /\ ctrl(S) \cap ctrl(A) = ctrl(A)
    OBVIOUS
  <2>2. IsFiniteSet(data(S)) /\ IsFiniteSet(ctrl(S))
    <3>1. data(S) \in SUBSET Psn /\ ctrl(S) \in SUBSET Psn
      OBVIOUS
    <3> QED
      BY <3>1, PsnFinite
  <2>3. \A U, T : IsFiniteSet(U) => Cardinality(U \ T) = Cardinality(U) - Cardinality(U \cap T)
    BY FS_Difference
  <2> HIDE DEF data, ctrl
  <2>4. /\ Cardinality(data(S) \ data(A)) = Cardinality(data(S)) - Cardinality(data(S) \cap data(A))
        /\ Cardinality(ctrl(S) \ ctrl(A)) = Cardinality(ctrl(S)) - Cardinality(ctrl(S) \cap ctrl(A))
    BY <2>2, <2>3, ZenonT(60)
  <2> QED
    BY <2>1, <2>4, ZenonT(60)
<1>3. A \in SUBSET Psn
  OBVIOUS
<1>4. \A T : Bytes(s, T) = Mtu * Cardinality(data(T)) + Hdr * Cardinality(ctrl(T))
  BY DEF Bytes
<1> HIDE DEF data, ctrl
<1>5. \A a, b \in Nat : Mtu * (a - b) = Mtu * a - Mtu * b /\ Hdr * (a - b) = Hdr * a - Hdr * b
  BY SizeAssumption
<1>6. \A a \in Nat : Mtu * a \in Nat /\ Hdr * a \in Nat
  BY SizeAssumption
<1> DEFINE ds == Cardinality(data(S))  da == Cardinality(data(A))
           cs == Cardinality(ctrl(S))  ca == Cardinality(ctrl(A))
<1>7. ds \in Nat /\ da \in Nat /\ cs \in Nat /\ ca \in Nat
  BY <1>1, <1>3
<1>8. /\ Bytes(s, S) = Mtu * ds + Hdr * cs
      /\ Bytes(s, A) = Mtu * da + Hdr * ca
      /\ Bytes(s, S \ A) = Mtu * (ds - da) + Hdr * (cs - ca)
  BY <1>2, <1>4, ZenonT(60)
<1> HIDE DEF ds, da, cs, ca
<1>9. /\ Mtu * (ds - da) = Mtu * ds - Mtu * da
      /\ Hdr * (cs - ca) = Hdr * cs - Hdr * ca
  BY <1>5, <1>7
<1>10. Mtu * ds \in Nat /\ Mtu * da \in Nat /\ Hdr * cs \in Nat /\ Hdr * ca \in Nat
  BY <1>6, <1>7
<1> QED
  BY <1>8, <1>9, <1>10

\* The size of one packet.
LEMMA BytesOne ==
    ASSUME NEW s, NEW p \in Psn
    PROVE  Bytes(s, {p}) = Size(s, p) /\ Size(s, p) \in Nat
<1>1. Cardinality({}) = 0 /\ Cardinality({p}) = 1
  BY FS_EmptySet, FS_Singleton
<1>2. CASE p \in s.rts
  <2>1. {p} \ s.rts = {} /\ {p} \cap s.rts = {p}
    BY <1>2
  <2>2. Bytes(s, {p}) = Mtu * 0 + Hdr * 1
    BY <1>1, <2>1, ZenonT(60) DEF Bytes
  <2> QED
    BY <1>2, <2>2, SizeAssumption DEF Size
<1>3. CASE p \notin s.rts
  <2>1. {p} \ s.rts = {p} /\ {p} \cap s.rts = {}
    BY <1>3
  <2>2. Bytes(s, {p}) = Mtu * 1 + Hdr * 0
    BY <1>1, <2>1, ZenonT(60) DEF Bytes
  <2> QED
    BY <1>3, <2>2, SizeAssumption DEF Size
<1> QED
  BY <1>2, <1>3

\* A packet leaves a set.
LEMMA BytesRemove ==
    ASSUME NEW s, NEW S \in SUBSET Psn, NEW p \in S
    PROVE  /\ Bytes(s, S \ {p}) = Bytes(s, S) - Size(s, p)
           /\ Bytes(s, S) \in Nat /\ Size(s, p) \in Nat
<1>1. {p} \in SUBSET S /\ p \in Psn
  OBVIOUS
<1>2. Bytes(s, S) \in Nat /\ Bytes(s, S \ {p}) = Bytes(s, S) - Bytes(s, {p})
  BY <1>1, BytesSplit
<1>3. Bytes(s, {p}) = Size(s, p) /\ Size(s, p) \in Nat
  BY <1>1, BytesOne
<1> QED
  BY <1>2, <1>3

\* A packet joins a set.
LEMMA BytesAdd ==
    ASSUME NEW s, NEW S \in SUBSET Psn, NEW p \in Psn, p \notin S
    PROVE  /\ Bytes(s, S \cup {p}) = Bytes(s, S) + Size(s, p)
           /\ Bytes(s, S) \in Nat /\ Size(s, p) \in Nat
<1> DEFINE T == S \cup {p}
<1>1. T \in SUBSET Psn /\ p \in T /\ T \ {p} = S
  OBVIOUS
<1> HIDE DEF T
<1>2. /\ Bytes(s, T \ {p}) = Bytes(s, T) - Size(s, p)
      /\ Bytes(s, T) \in Nat /\ Size(s, p) \in Nat
  BY <1>1, BytesRemove
<1>3. Bytes(s, S) \in Nat
  BY BytesSplit
<1>4. Bytes(s, S) = Bytes(s, T) - Size(s, p)
  BY <1>1, <1>2
<1>5. Bytes(s, T) = Bytes(s, S) + Size(s, p)
  BY <1>2, <1>3, <1>4
<1> QED
  BY <1>2, <1>3, <1>5 DEF T

\* Only the kinds of the packets in a set decide its size.
LEMMA BytesSameKinds ==
    ASSUME NEW s, NEW t, NEW S, S \cap s.rts = S \cap t.rts
    PROVE  Bytes(s, S) = Bytes(t, S)
<1>1. S \ s.rts = S \ t.rts
  OBVIOUS
<1> QED
  BY <1>1 DEF Bytes

-----------------------------------------------------------------------------
(* What holds of the sender's record between any two method calls.  R is   *)
(* the set of psns the sender need not answer for: those the receiver has, *)
(* and one that a handler is about to queue for retransmission.            *)

SrcState ==
    [started : BOOLEAN, done : BOOLEAN, highest : 0 .. (NData + MaxRts),
     backlog : 0 .. NData, tx : SUBSET Psn, sentAt : [Psn -> Nat],
     sendTimes : SUBSET (Nat \X Psn), rtxQueue : SUBSET Psn,
     copies : [Psn -> Nat], rts : SUBSET Psn, inFlight : Int, recvd : Nat,
     cwnd : Nat, rtoPending : BOOLEAN, rtoSendTime : Nat, blocked : BOOLEAN,
     regs : Nat, clock : Nat, out : SUBSET (DataMsg \cup RtsMsg)]

\* _send_times mirrors the send times of the records, all in the past.
Stamped(s) ==
    /\ s.sendTimes = {<<s.sentAt[p], p>> : p \in s.tx}
    /\ \A p \in s.tx : s.sentAt[p] <= s.clock

Records(s) ==
    /\ Stamped(s)
    /\ \A p \in s.tx \cup s.rtxQueue \cup s.rts : p < s.highest
    /\ s.tx \cap s.rtxQueue = {}

Conserved(s) ==
    /\ s.highest + s.backlog = NData + Cardinality(s.rts)
    /\ Cardinality(s.rts) <= MaxRts

Covered(s, R) == \A p \in Psn : p < s.highest => p \in s.tx \cup s.rtxQueue \cup R

\* A packet on the wire was sent, and its size tells data from an RTS.
Genuine(s, m) ==
    /\ m.psn < s.highest
    /\ m.type = "DATA" => m.size = Size(s, m.psn)
    /\ m.type = "RTS"  => m.psn \in s.rts

Shape(s, R) ==
    /\ s \in SrcState
    /\ Records(s)
    /\ Conserved(s)
    /\ Covered(s, R)
    /\ s.blocked => s.regs > 0
    /\ \A m \in s.out : Genuine(s, m)

\* By how much the in-flight count exceeds what the ledger says.
Gap(s) == s.inFlight - (Mtu * (s.highest - Cardinality(s.rts))
                        - Bytes(s, s.rtxQueue) - s.recvd)

\* The timer is set for the oldest outstanding packet.
TimerOK(s) ==
    /\ s.rtoPending <=> s.tx # {}
    /\ s.rtoPending => /\ \E p \in s.tx : s.sentAt[p] = s.rtoSendTime
                       /\ \A p \in s.tx : s.sentAt[p] >= s.rtoSendTime

\* What most methods leave alone.
Keeps(s, t) ==
    /\ t.started = s.started /\ t.done = s.done /\ t.rts = s.rts
    /\ \A p \in Psn : p < s.highest => p < t.highest
    /\ Gap(t) = Gap(s)
    /\ TimerOK(s) => TimerOK(t)

\* What a method that only takes acknowledged packets off does.
Shrinks(s, t) ==
    /\ t.tx \subseteq s.tx /\ t.rtxQueue \subseteq s.rtxQueue
    /\ t.highest = s.highest /\ t.backlog = s.backlog /\ t.copies = s.copies
    /\ t.regs = s.regs

-----------------------------------------------------------------------------
(* Sending one packet *)

\* The fields' types, one by one.
LEMMA FieldTypes ==
    ASSUME NEW s \in SrcState
    PROVE  /\ s.started \in BOOLEAN /\ s.done \in BOOLEAN
           /\ s.highest \in Nat /\ s.highest <= NData + MaxRts
           /\ s.backlog \in Nat /\ s.backlog <= NData
           /\ s.tx \in SUBSET Psn /\ s.sentAt \in [Psn -> Nat]
           /\ s.rtxQueue \in SUBSET Psn /\ s.rts \in SUBSET Psn
           /\ s.copies \in [Psn -> Nat]
           /\ s.inFlight \in Int /\ s.recvd \in Nat /\ s.cwnd \in Nat
           /\ s.rtoPending \in BOOLEAN /\ s.rtoSendTime \in Nat
           /\ s.blocked \in BOOLEAN /\ s.regs \in Nat /\ s.clock \in Nat
           /\ s.out \in SUBSET (DataMsg \cup RtsMsg)
           /\ NData \in Nat /\ NData > 0 /\ MaxRts \in Nat
           /\ Mtu \in Nat /\ Hdr \in Nat
  BY NDataAssumption, MaxRtsAssumption, SizeAssumption DEF SrcState

\* The pairs <<send time, psn>> after p is sent at time now.
LEMMA StampOne ==
    ASSUME NEW tx \in SUBSET Psn, NEW at \in [Psn -> Nat], NEW p \in Psn,
           p \notin tx, NEW now \in Nat
    PROVE  LET at2 == [at EXCEPT ![p] = now]
           IN  /\ ({<<at[q], q>> : q \in tx} \ {<<at[p], p>>}) \cup {<<now, p>>}
                    = {<<at2[q], q>> : q \in tx \cup {p}}
               /\ at2[p] = now /\ \A q \in tx : at2[q] = at[q]
<1> DEFINE at2 == [at EXCEPT ![p] = now]
<1>1. at2[p] = now /\ \A q \in tx : at2[q] = at[q]
  OBVIOUS
<1>2. {<<at[q], q>> : q \in tx} \ {<<at[p], p>>} = {<<at[q], q>> : q \in tx}
  OBVIOUS
<1>3. {<<at[q], q>> : q \in tx} = {<<at2[q], q>> : q \in tx}
  BY <1>1
<1> HIDE DEF at2
<1>4. {<<at2[q], q>> : q \in tx} \cup {<<now, p>>} = {<<at2[q], q>> : q \in tx \cup {p}}
  BY <1>1
<1> QED
  BY <1>1, <1>2, <1>3, <1>4 DEF at2

\* A new send record, stamped with the next instant.
LEMMA CreateSendRecordFields ==
    ASSUME NEW s \in SrcState, Stamped(s), NEW p \in Psn, p \notin s.tx,
           NEW t, t = CreateSendRecord(s, p)
    PROVE  /\ t \in SrcState /\ Stamped(t)
           /\ t.clock = s.clock + 1 /\ t.tx = s.tx \cup {p}
           /\ t.sentAt[p] = s.clock + 1
           /\ \A q \in s.tx : t.sentAt[q] = s.sentAt[q]
           /\ t.started = s.started /\ t.done = s.done
           /\ t.highest = s.highest /\ t.backlog = s.backlog
           /\ t.rtxQueue = s.rtxQueue /\ t.rts = s.rts
           /\ t.inFlight = s.inFlight /\ t.recvd = s.recvd
           /\ t.rtoPending = s.rtoPending /\ t.rtoSendTime = s.rtoSendTime
           /\ t.blocked = s.blocked /\ t.regs = s.regs /\ t.out = s.out
<1> DEFINE at2 == [s.sentAt EXCEPT ![p] = s.clock + 1]
           st2 == (s.sendTimes \ {<<s.sentAt[p], p>>}) \cup {<<s.clock + 1, p>>}
           cp2 == [s.copies EXCEPT ![p] = @ + 1]
<1>1. t = [s EXCEPT !.clock = s.clock + 1, !.tx = s.tx \cup {p},
                    !.sentAt = at2, !.sendTimes = st2, !.copies = cp2]
  BY DEF CreateSendRecord, SrcState
<1>2. /\ at2 \in [Psn -> Nat] /\ cp2 \in [Psn -> Nat]
      /\ st2 \in SUBSET (Nat \X Psn)
      /\ s.clock + 1 \in Nat /\ s.tx \cup {p} \in SUBSET Psn
  BY DEF SrcState
<1>3. /\ s.tx \in SUBSET Psn /\ s.sentAt \in [Psn -> Nat] /\ s.clock \in Nat
  BY FieldTypes
<1>4. s.sendTimes = {<<s.sentAt[q], q>> : q \in s.tx}
  BY DEF Stamped
<1>5. st2 = {<<at2[q], q>> : q \in s.tx \cup {p}}
  BY <1>2, <1>3, <1>4, StampOne
<1>6. at2[p] = s.clock + 1 /\ \A q \in s.tx : at2[q] = s.sentAt[q]
  BY <1>3
<1>7. \A q \in s.tx : s.sentAt[q] <= s.clock /\ s.sentAt[q] \in Nat
  BY <1>3 DEF Stamped
<1> HIDE DEF at2, st2, cp2
<1>8. t \in SrcState
  BY ZenonT(60), <1>1, <1>2 DEF SrcState
<1>9. /\ t.clock = s.clock + 1 /\ t.tx = s.tx \cup {p}
      /\ t.sentAt = at2 /\ t.sendTimes = st2
  BY <1>1 DEF SrcState
<1>10. /\ t.started = s.started /\ t.done = s.done
       /\ t.highest = s.highest /\ t.backlog = s.backlog
       /\ t.rtxQueue = s.rtxQueue /\ t.rts = s.rts
       /\ t.inFlight = s.inFlight /\ t.recvd = s.recvd
       /\ t.rtoPending = s.rtoPending /\ t.rtoSendTime = s.rtoSendTime
       /\ t.blocked = s.blocked /\ t.regs = s.regs /\ t.out = s.out
  BY <1>1 DEF SrcState
<1>11. Stamped(t)
  <2>1. t.sendTimes = {<<t.sentAt[q], q>> : q \in t.tx}
    BY <1>5, <1>9
  <2>2. \A q \in t.tx : t.sentAt[q] <= t.clock
    BY <1>3, <1>6, <1>7, <1>9
  <2> QED
    BY <2>1, <2>2 DEF Stamped
<1> QED
  BY <1>6, <1>8, <1>9, <1>10, <1>11

\* StartRTO(s, t) never moves the timer to a later send time.
LEMMA StartRTOFields ==
    ASSUME NEW s \in SrcState, NEW now \in Nat, NEW t, t = StartRTO(s, now)
    PROVE  /\ t \in SrcState
           /\ t.rtoPending
           /\ t.rtoSendTime = IF ~s.rtoPending \/ now < s.rtoSendTime
                              THEN now ELSE s.rtoSendTime
           /\ t.clock = s.clock /\ t.tx = s.tx /\ t.sentAt = s.sentAt
           /\ t.sendTimes = s.sendTimes
           /\ t.started = s.started /\ t.done = s.done
           /\ t.highest = s.highest /\ t.backlog = s.backlog
           /\ t.rtxQueue = s.rtxQueue /\ t.rts = s.rts
           /\ t.inFlight = s.inFlight /\ t.recvd = s.recvd
           /\ t.blocked = s.blocked /\ t.regs = s.regs /\ t.out = s.out
<1>1. CASE ~s.rtoPending \/ now < s.rtoSendTime
  <2>1. t = [s EXCEPT !.rtoPending = TRUE, !.rtoSendTime = now]
    BY <1>1 DEF StartRTO
  <2> QED
    BY ZenonT(60), <1>1, <2>1 DEF SrcState
<1>2. CASE ~(~s.rtoPending \/ now < s.rtoSendTime)
  <2>1. t = s
    BY <1>2 DEF StartRTO
  <2> QED
    BY <1>2, <2>1 DEF SrcState
<1> QED
  BY <1>1, <1>2

\* The end of each way of sending a packet: it goes out, and the timer starts.
Transmit(s, m) == StartRTO([s EXCEPT !.out = @ \cup {m}], s.clock)

\* What that changes, field by field.
LEMMA TransmitFields ==
    ASSUME NEW s \in SrcState, NEW m \in DataMsg \cup RtsMsg,
           NEW t, t = Transmit(s, m)
    PROVE  /\ t \in SrcState /\ t.out = s.out \cup {m}
           /\ t.rtoPending
           /\ t.rtoSendTime = IF ~s.rtoPending \/ s.clock < s.rtoSendTime
                              THEN s.clock ELSE s.rtoSendTime
           /\ t.clock = s.clock /\ t.tx = s.tx /\ t.sentAt = s.sentAt
           /\ t.sendTimes = s.sendTimes
           /\ t.started = s.started /\ t.done = s.done
           /\ t.highest = s.highest /\ t.backlog = s.backlog
           /\ t.rtxQueue = s.rtxQueue /\ t.rts = s.rts
           /\ t.inFlight = s.inFlight /\ t.recvd = s.recvd
           /\ t.blocked = s.blocked /\ t.regs = s.regs
<1> DEFINE s2 == [s EXCEPT !.out = @ \cup {m}]
<1>1. /\ s2 \in SrcState /\ s2.out = s.out \cup {m}
      /\ s2.clock = s.clock /\ s2.tx = s.tx /\ s2.sentAt = s.sentAt
      /\ s2.sendTimes = s.sendTimes
      /\ s2.started = s.started /\ s2.done = s.done
      /\ s2.highest = s.highest /\ s2.backlog = s.backlog
      /\ s2.rtxQueue = s.rtxQueue /\ s2.rts = s.rts
      /\ s2.inFlight = s.inFlight /\ s2.recvd = s.recvd
      /\ s2.rtoPending = s.rtoPending /\ s2.rtoSendTime = s.rtoSendTime
      /\ s2.blocked = s.blocked /\ s2.regs = s.regs
  BY DEF SrcState
<1>2. s.clock \in Nat /\ t = StartRTO(s2, s.clock)
  BY FieldTypes DEF Transmit
<1> HIDE DEF s2
<1>3. /\ t \in SrcState
      /\ t.rtoPending
      /\ t.rtoSendTime = IF ~s2.rtoPending \/ s.clock < s2.rtoSendTime
                         THEN s.clock ELSE s2.rtoSendTime
      /\ t.clock = s2.clock /\ t.tx = s2.tx /\ t.sentAt = s2.sentAt
      /\ t.sendTimes = s2.sendTimes
      /\ t.started = s2.started /\ t.done = s2.done
      /\ t.highest = s2.highest /\ t.backlog = s2.backlog
      /\ t.rtxQueue = s2.rtxQueue /\ t.rts = s2.rts
      /\ t.inFlight = s2.inFlight /\ t.recvd = s2.recvd
      /\ t.blocked = s2.blocked /\ t.regs = s2.regs /\ t.out = s2.out
  BY <1>1, <1>2, StartRTOFields
<1> QED
  BY <1>1, <1>3

\* The record of a packet that is sent: the timer now covers it as well.
LEMMA SendRecorded ==
    ASSUME NEW s \in SrcState, Stamped(s), NEW p \in Psn, p \notin s.tx,
           NEW m \in DataMsg \cup RtsMsg,
           NEW s1, s1 = CreateSendRecord(s, p),
           NEW t, t = Transmit(s1, m)
    PROVE  /\ t \in SrcState /\ Stamped(t)
           /\ TimerOK(s) => TimerOK(t)
           /\ t.tx = s.tx \cup {p} /\ t.out = s.out \cup {m}
           /\ t.started = s.started /\ t.done = s.done
           /\ t.highest = s.highest /\ t.backlog = s.backlog
           /\ t.rtxQueue = s.rtxQueue /\ t.rts = s.rts
           /\ t.inFlight = s.inFlight /\ t.recvd = s.recvd
           /\ t.blocked = s.blocked /\ t.regs = s.regs
<1>1. /\ s1 \in SrcState /\ Stamped(s1)
      /\ s1.clock = s.clock + 1 /\ s1.tx = s.tx \cup {p}
      /\ s1.sentAt[p] = s.clock + 1
      /\ \A q \in s.tx : s1.sentAt[q] = s.sentAt[q]
      /\ s1.started = s.started /\ s1.done = s.done
      /\ s1.highest = s.highest /\ s1.backlog = s.backlog
      /\ s1.rtxQueue = s.rtxQueue /\ s1.rts = s.rts
      /\ s1.inFlight = s.inFlight /\ s1.recvd = s.recvd
      /\ s1.rtoPending = s.rtoPending /\ s1.rtoSendTime = s.rtoSendTime
      /\ s1.blocked = s.blocked /\ s1.regs = s.regs /\ s1.out = s.out
  BY CreateSendRecordFields
<1>2. /\ t \in SrcState /\ t.out = s1.out \cup {m}
      /\ t.rtoPending
      /\ t.rtoSendTime = IF ~s1.rtoPending \/ s1.clock < s1.rtoSendTime
                         THEN s1.clock ELSE s1.rtoSendTime
      /\ t.clock = s1.clock /\ t.tx = s1.tx /\ t.sentAt = s1.sentAt
      /\ t.sendTimes = s1.sendTimes
      /\ t.started = s1.started /\ t.done = s1.done
      /\ t.highest = s1.highest /\ t.backlog = s1.backlog
      /\ t.rtxQueue = s1.rtxQueue /\ t.rts = s1.rts
      /\ t.inFlight = s1.inFlight /\ t.recvd = s1.recvd
      /\ t.blocked = s1.blocked /\ t.regs = s1.regs
  BY <1>1, TransmitFields
<1>3. Stamped(t)
  BY <1>1, <1>2 DEF Stamped
<1>4. /\ s.rtoSendTime \in Nat /\ s.clock \in Nat
      /\ \A q \in s.tx : s.sentAt[q] \in Nat /\ s.sentAt[q] <= s.clock
  <2>1. s.tx \in SUBSET Psn /\ s.sentAt \in [Psn -> Nat]
    BY FieldTypes
  <2> QED
    BY <2>1, FieldTypes DEF Stamped
<1>5. ASSUME TimerOK(s) PROVE TimerOK(t)
  <2>1. CASE s.rtoPending
    <3>1. PICK q \in s.tx : /\ s.sentAt[q] = s.rtoSendTime
                            /\ \A r \in s.tx : s.sentAt[r] >= s.rtoSendTime
      BY <1>5, <2>1 DEF TimerOK
    <3>2. t.rtoPending /\ t.rtoSendTime = s.rtoSendTime
      BY <1>1, <1>2, <1>4, <2>1, <3>1
    <3>3. t.sentAt[q] = t.rtoSendTime /\ q \in t.tx
      BY <1>1, <1>2, <3>1, <3>2
    <3>4. \A r \in t.tx : t.sentAt[r] >= t.rtoSendTime
      BY <1>1, <1>2, <1>4, <3>1, <3>2
    <3> QED
      BY <3>2, <3>3, <3>4 DEF TimerOK
  <2>2. CASE ~s.rtoPending
    <3>1. t.rtoPending /\ t.rtoSendTime = s.clock + 1
      BY <1>1, <1>2, <2>2
    <3>2. t.tx = {p}
      BY <1>1, <1>2, <1>5, <2>2 DEF TimerOK
    <3> QED
      BY <1>1, <1>2, <1>4, <3>1, <3>2 DEF TimerOK
  <2> QED
    BY <2>1, <2>2
<1> QED
  BY <1>1, <1>2, <1>3, <1>5

\* Sending p from a state in which only p's own record is missing.
LEMMA SendPrepared ==
    ASSUME NEW R, NEW p \in Psn, NEW s, Shape(s, R \cup {p}),
           p < s.highest, p \notin s.tx, p \notin s.rtxQueue,
           NEW m \in DataMsg \cup RtsMsg, Genuine(s, m),
           NEW s1, s1 = CreateSendRecord(s, p), NEW t, t = Transmit(s1, m)
    PROVE  Shape(t, R) /\ Keeps(s, t)
<1>1. s \in SrcState /\ Stamped(s)
  BY DEF Shape, Records
<1>2. /\ t \in SrcState /\ Stamped(t)
      /\ TimerOK(s) => TimerOK(t)
      /\ t.tx = s.tx \cup {p} /\ t.out = s.out \cup {m}
      /\ t.started = s.started /\ t.done = s.done
      /\ t.highest = s.highest /\ t.backlog = s.backlog
      /\ t.rtxQueue = s.rtxQueue /\ t.rts = s.rts
      /\ t.inFlight = s.inFlight /\ t.recvd = s.recvd
      /\ t.blocked = s.blocked /\ t.regs = s.regs
  BY <1>1, SendRecorded
<1>3. Gap(t) = Gap(s)
  BY <1>2 DEF Gap, Bytes
<1>4. Records(t)
  BY <1>2 DEF Shape, Records
<1>5. Conserved(t)
  BY <1>2 DEF Shape, Conserved
<1>6. Covered(t, R)
  BY <1>2 DEF Shape, Covered
<1>7. \A x \in t.out : Genuine(t, x)
  BY <1>2 DEF Shape, Genuine, Size
<1>8. t.blocked => t.regs > 0
  BY <1>2 DEF Shape
<1> QED
  BY <1>2, <1>3, <1>4, <1>5, <1>6, <1>7, <1>8 DEF Shape, Keeps

\* What is sent for psn p is a data packet of p.
LEMMA DataPacketType ==
    ASSUME NEW s \in SrcState, NEW p \in Psn, p < s.highest, NEW ar \in BOOLEAN
    PROVE  /\ DataPacket(s, p, ar) \in DataMsg
           /\ Genuine(s, DataPacket(s, p, ar))
<1>1. s.copies[p] \in Nat /\ Size(s, p) \in {Hdr, Mtu}
  BY FieldTypes DEF Size
<1>2. DataPacket(s, p, ar) \in DataMsg
  BY <1>1 DEF DataPacket, DataMsg
<1>3. /\ DataPacket(s, p, ar).type = "DATA" /\ DataPacket(s, p, ar).psn = p
      /\ DataPacket(s, p, ar).size = Size(s, p)
  BY DEF DataPacket
<1> QED
  BY <1>2, <1>3 DEF Genuine

\* The ledger of psns has room for one more whenever one is sent.
LEMMA HighestIsPsn ==
    ASSUME NEW s \in SrcState, Conserved(s),
           s.backlog > 0 \/ Cardinality(s.rts) < MaxRts
    PROVE  s.highest \in Psn /\ s.highest + 1 \in 0 .. (NData + MaxRts)
<1>1. Cardinality(s.rts) \in Nat
  BY FieldTypes, PsnFinite
<1> QED
  BY SMTT(30), <1>1, FieldTypes DEF Conserved, Psn

\* A new packet moves from the backlog into flight.
LEMMA SendNewPacketKeeps ==
    ASSUME NEW R, NEW s, Shape(s, R), s.backlog > 0,
           NEW t, t = SendNewPacket(s)
    PROVE  Shape(t, R) /\ Keeps(s, t)
<1> DEFINE p  == s.highest
           s0 == [s EXCEPT !.backlog = @ - 1, !.inFlight = @ + Mtu,
                           !.highest = @ + 1]
           s1 == CreateSendRecord(s0, p)
           ar == s1.backlog = 0 \/ s1.inFlight + Mtu >= s.cwnd
           m  == DataPacket(s1, p, ar)
<1>1. s \in SrcState /\ Conserved(s)
  BY DEF Shape
<1>2. p \in Psn /\ s.highest + 1 \in 0 .. (NData + MaxRts)
  BY <1>1, HighestIsPsn
<1>3. /\ s0 \in SrcState
      /\ s0.backlog = s.backlog - 1 /\ s0.inFlight = s.inFlight + Mtu
      /\ s0.highest = s.highest + 1
      /\ s0.started = s.started /\ s0.done = s.done
      /\ s0.tx = s.tx /\ s0.sentAt = s.sentAt /\ s0.sendTimes = s.sendTimes
      /\ s0.clock = s.clock /\ s0.rtxQueue = s.rtxQueue /\ s0.rts = s.rts
      /\ s0.recvd = s.recvd /\ s0.blocked = s.blocked /\ s0.regs = s.regs
      /\ s0.rtoPending = s.rtoPending /\ s0.rtoSendTime = s.rtoSendTime
      /\ s0.out = s.out
  <2>1. s.backlog - 1 \in 0 .. NData /\ s.inFlight + Mtu \in Int
    BY <1>1, FieldTypes
  <2> QED
    BY <1>1, <1>2, <2>1 DEF SrcState
<1>4. t = Transmit(s1, m)
  BY DEF SendNewPacket, Transmit
<1>5. s1 \in SrcState /\ s1.highest = s0.highest /\ s1.rts = s0.rts
  <2>1. s0 \in SrcState /\ Stamped(s0) /\ p \in Psn /\ p \notin s0.tx
    BY <1>1, <1>2, <1>3, FieldTypes DEF Shape, Records, Stamped
  <2>2. s1 = CreateSendRecord(s0, p)
    OBVIOUS
  <2> HIDE DEF s0, s1, p
  <2> QED
    BY <2>1, <2>2, CreateSendRecordFields
<1>6. m \in DataMsg /\ Genuine(s1, m)
  <2>1. p < s1.highest /\ ar \in BOOLEAN
    BY <1>1, <1>3, <1>5, FieldTypes
  <2> HIDE DEF s1, ar
  <2> QED
    BY <1>2, <1>5, <2>1, DataPacketType
<1>7. /\ TimerOK(s) => TimerOK(s0)
      /\ Gap(s0) = Gap(s)
  <2>1. Cardinality(s.rts) \in Nat /\ Bytes(s, s.rtxQueue) \in Nat
    BY <1>1, FieldTypes, PsnFinite, BytesSplit
  <2>2. Bytes(s0, s0.rtxQueue) = Bytes(s, s.rtxQueue)
    BY <1>3 DEF Bytes
  <2>3. Mtu * (s.highest + 1 - Cardinality(s.rts))
          = Mtu * (s.highest - Cardinality(s.rts)) + Mtu
    BY SMTT(30), <1>1, <2>1, FieldTypes
  <2>4. Mtu * (s.highest - Cardinality(s.rts)) \in Int
    BY <1>1, <2>1, FieldTypes
  <2>5. Gap(s0) = Gap(s)
    BY <1>1, <1>3, <2>1, <2>2, <2>3, <2>4, FieldTypes DEF Gap
  <2> QED
    BY <1>3, <2>5 DEF TimerOK
<1>8. Shape(s0, R \cup {p}) /\ Genuine(s0, m)
  <2>1. Records(s0)
    BY <1>1, <1>3, FieldTypes DEF Shape, Records, Stamped, Psn
  <2>2. Conserved(s0)
    BY <1>1, <1>3, FieldTypes DEF Conserved
  <2>3. Covered(s0, R \cup {p})
    BY <1>1, <1>3, FieldTypes DEF Shape, Covered, Psn
  <2>4. \A x \in s0.out : Genuine(s0, x)
    <3> TAKE x \in s0.out
    <3>1. x.psn \in Nat /\ Genuine(s, x)
      BY <1>1, <1>3, FieldTypes DEF Shape, DataMsg, RtsMsg, Psn
    <3> QED
      BY <1>1, <1>3, <3>1, FieldTypes DEF Genuine, Size
  <2>5. Genuine(s0, m)
    BY <1>5, <1>6 DEF Genuine, Size
  <2> QED
    BY <1>3, <2>1, <2>2, <2>3, <2>4, <2>5 DEF Shape
<1>9. p < s0.highest /\ p \notin s0.tx /\ p \notin s0.rtxQueue
  BY <1>1, <1>3, FieldTypes DEF Shape, Records
<1>10. s1 = CreateSendRecord(s0, p)
  OBVIOUS
<1>11. \A q \in Psn : q < s.highest => q < s0.highest
  BY <1>1, <1>3, FieldTypes DEF Psn
<1> HIDE DEF s0, s1, m, p
<1>12. Shape(t, R) /\ Keeps(s0, t)
  BY <1>2, <1>4, <1>6, <1>8, <1>9, <1>10, SendPrepared
<1> QED
  BY <1>3, <1>7, <1>11, <1>12 DEF Keeps

\* A retransmission moves the first queued packet back into flight.
LEMMA SendRtxPacketKeeps ==
    ASSUME NEW R, NEW s, Shape(s, R), s.rtxQueue # {},
           NEW t, t = SendRtxPacket(s)
    PROVE  Shape(t, R) /\ Keeps(s, t)
<1> DEFINE p  == Min(s.rtxQueue)
           s0 == [s EXCEPT !.rtxQueue = @ \ {p}, !.inFlight = @ + Size(s, p)]
           s1 == CreateSendRecord(s0, p)
           m  == DataPacket(s1, p, TRUE)
<1>1. s \in SrcState /\ Conserved(s) /\ Records(s)
  BY DEF Shape
<1>2. p \in s.rtxQueue /\ p \in Psn /\ s.rtxQueue \in SUBSET Psn
  <2>1. s.rtxQueue \in SUBSET Psn /\ s.rtxQueue \in SUBSET Nat
    BY <1>1, FieldTypes, PsnFinite
  <2> QED
    BY <2>1, MinNat
<1>3. /\ Bytes(s, s.rtxQueue \ {p}) = Bytes(s, s.rtxQueue) - Size(s, p)
      /\ Bytes(s, s.rtxQueue) \in Nat /\ Size(s, p) \in Nat
  <2> HIDE DEF p
  <2> QED
    BY <1>2, BytesRemove
<1>4. /\ s0 \in SrcState
      /\ s0.rtxQueue = s.rtxQueue \ {p} /\ s0.inFlight = s.inFlight + Size(s, p)
      /\ s0.highest = s.highest /\ s0.backlog = s.backlog
      /\ s0.started = s.started /\ s0.done = s.done
      /\ s0.tx = s.tx /\ s0.sentAt = s.sentAt /\ s0.sendTimes = s.sendTimes
      /\ s0.clock = s.clock /\ s0.rts = s.rts
      /\ s0.recvd = s.recvd /\ s0.blocked = s.blocked /\ s0.regs = s.regs
      /\ s0.rtoPending = s.rtoPending /\ s0.rtoSendTime = s.rtoSendTime
      /\ s0.out = s.out
  <2>1. s.inFlight + Size(s, p) \in Int
    BY <1>1, <1>3, FieldTypes
  <2> HIDE DEF p
  <2> QED
    BY <1>1, <2>1 DEF SrcState
<1>5. t = Transmit(s1, m)
  BY DEF SendRtxPacket, Transmit
<1>6. s1 = CreateSendRecord(s0, p)
  OBVIOUS
<1>7. p \notin s0.tx /\ p \notin s0.rtxQueue /\ p < s0.highest
  BY <1>1, <1>2, <1>4 DEF Records
<1>8. Stamped(s0)
  BY <1>1, <1>4 DEF Records, Stamped
<1> HIDE DEF s0, s1, p
<1>9. s1 \in SrcState /\ s1.highest = s0.highest /\ s1.rts = s0.rts
  BY <1>2, <1>4, <1>6, <1>7, <1>8, CreateSendRecordFields
<1>10. m \in DataMsg /\ Genuine(s1, m)
  BY <1>2, <1>7, <1>9, DataPacketType
<1> HIDE DEF m
<1>11. (TimerOK(s) => TimerOK(s0)) /\ Gap(s0) = Gap(s)
  <2>1. Bytes(s0, s0.rtxQueue) = Bytes(s, s0.rtxQueue)
    BY <1>4 DEF Bytes
  <2>2. Mtu * (s.highest - Cardinality(s.rts)) \in Int
    BY <1>1, FieldTypes, PsnFinite
  <2>3. Gap(s0) = Gap(s)
    BY <1>1, <1>3, <1>4, <2>1, <2>2, FieldTypes DEF Gap
  <2> QED
    BY <1>4, <2>3 DEF TimerOK
<1>12. Shape(s0, R \cup {p}) /\ Genuine(s0, m)
  <2>1. Records(s0)
    BY <1>1, <1>4, <1>8 DEF Records
  <2>2. Conserved(s0)
    BY <1>1, <1>4 DEF Conserved
  <2>3. Covered(s0, R \cup {p})
    BY <1>4 DEF Shape, Covered
  <2>4. Genuine(s0, m)
    BY <1>9, <1>10 DEF Genuine, Size
  <2>5. (\A x \in s0.out : Genuine(s0, x)) /\ (s0.blocked => s0.regs > 0)
    BY <1>4 DEF Shape, Genuine, Size
  <2> QED
    BY <1>4, <2>1, <2>2, <2>3, <2>4, <2>5 DEF Shape
<1>13. Shape(t, R) /\ Keeps(s0, t)
  BY <1>2, <1>5, <1>6, <1>7, <1>10, <1>12, SendPrepared
<1> QED
  BY <1>4, <1>11, <1>13 DEF Keeps

\* What two calls in a row leave alone.
LEMMA KeepsTwice ==
    ASSUME NEW a, NEW b, NEW c, Keeps(a, b), Keeps(b, c)
    PROVE  Keeps(a, c)
  BY DEF Keeps

\* Either way of sending a packet.
LEMMA SendPacketKeeps ==
    ASSUME NEW R, NEW s, Shape(s, R), CanSendNSCC(s),
           NEW t, t = SendPacket(s)
    PROVE  Shape(t, R) /\ Keeps(s, t)
<1>1. CASE s.rtxQueue # {}
  BY <1>1, SendRtxPacketKeeps DEF SendPacket
<1>2. CASE s.rtxQueue = {}
  <2>1. s.backlog > 0
    BY <1>2 DEF CanSendNSCC, NextPacketSize
  <2> QED
    BY <1>2, <2>1, SendNewPacketKeeps DEF SendPacket
<1> QED
  BY <1>1, <1>2

\* A request to the NIC without the mark that the sender waits for it.
LEMMA RequestSendingKeeps ==
    ASSUME NEW R, NEW s, Shape(s, R), NEW t, t = RequestSending(s)
    PROVE  Shape(t, R) /\ Keeps(s, t)
<1>1. s \in SrcState /\ s.regs \in Nat
  BY FieldTypes DEF Shape
<1>2. t = [s EXCEPT !.regs = s.regs + 1]
  BY <1>1 DEF RequestSending, SrcState
<1>3. /\ t \in SrcState /\ t.regs = s.regs + 1
      /\ t.rtxQueue = s.rtxQueue /\ t.inFlight = s.inFlight
      /\ t.highest = s.highest /\ t.backlog = s.backlog
      /\ t.started = s.started /\ t.done = s.done
      /\ t.tx = s.tx /\ t.sentAt = s.sentAt /\ t.sendTimes = s.sendTimes
      /\ t.clock = s.clock /\ t.rts = s.rts /\ t.recvd = s.recvd
      /\ t.rtoPending = s.rtoPending /\ t.rtoSendTime = s.rtoSendTime
      /\ t.out = s.out
  BY <1>1, <1>2 DEF SrcState
<1>4. Records(t) /\ Conserved(t) /\ Covered(t, R)
  BY <1>3 DEF Shape, Records, Stamped, Conserved, Covered
<1>5. \A x \in t.out : Genuine(t, x)
  BY <1>3 DEF Shape, Genuine, Size
<1>6. Shape(t, R)
  BY <1>1, <1>3, <1>4, <1>5 DEF Shape
<1>7. Keeps(s, t)
  BY <1>3 DEF Keeps, Gap, Bytes, TimerOK
<1> QED
  BY <1>6, <1>7

\* Waiting for the NIC.
LEMMA BlockOnNicKeeps ==
    ASSUME NEW R, NEW s, Shape(s, R), NEW t, t = BlockOnNic(s)
    PROVE  Shape(t, R) /\ Keeps(s, t)
<1> DEFINE r == RequestSending(s)
<1>1. Shape(r, R) /\ Keeps(s, r) /\ r.regs > 0
  <2>1. s \in SrcState /\ s.regs \in Nat
    BY FieldTypes DEF Shape
  <2>2. r.regs = s.regs + 1
    BY <2>1 DEF RequestSending, SrcState
  <2> QED
    BY <2>1, <2>2, RequestSendingKeeps
<1>2. t = [r EXCEPT !.blocked = TRUE]
  BY DEF BlockOnNic
<1> HIDE DEF r
<1>3. /\ t \in SrcState /\ t.regs = r.regs
      /\ t.rtxQueue = r.rtxQueue /\ t.inFlight = r.inFlight
      /\ t.highest = r.highest /\ t.backlog = r.backlog
      /\ t.started = r.started /\ t.done = r.done
      /\ t.tx = r.tx /\ t.sentAt = r.sentAt /\ t.sendTimes = r.sendTimes
      /\ t.clock = r.clock /\ t.rts = r.rts /\ t.recvd = r.recvd
      /\ t.rtoPending = r.rtoPending /\ t.rtoSendTime = r.rtoSendTime
      /\ t.out = r.out
  BY ZenonT(60), <1>1, <1>2 DEF Shape, SrcState
<1>4. Records(t) /\ Conserved(t) /\ Covered(t, R)
  BY <1>1, <1>3 DEF Shape, Records, Stamped, Conserved, Covered
<1>5. \A x \in t.out : Genuine(t, x)
  BY <1>1, <1>3 DEF Shape, Genuine, Size
<1>6. Shape(t, R)
  BY <1>1, <1>3, <1>4, <1>5 DEF Shape
<1>7. Keeps(r, t)
  BY <1>3 DEF Keeps, Gap, Bytes, TimerOK
<1> QED
  BY <1>1, <1>6, <1>7, KeepsTwice

\* A call that does nothing leaves everything alone.
LEMMA KeepsItself == \A s : Keeps(s, s)
  BY DEF Keeps

\* Sending what the window and the NIC permit.
LEMMA SendIfPermittedKeeps ==
    ASSUME NEW R, NEW s, Shape(s, R), NEW free \in BOOLEAN,
           NEW t, t = SendIfPermitted(s, free)
    PROVE  Shape(t, R) /\ Keeps(s, t)
<1>1. CASE ~CanSendNSCC(s) \/ s.blocked
  BY <1>1, KeepsItself DEF SendIfPermitted
<1>2. CASE CanSendNSCC(s) /\ ~s.blocked /\ ~free
  BY <1>2, BlockOnNicKeeps DEF SendIfPermitted
<1>3. CASE CanSendNSCC(s) /\ ~s.blocked /\ free
  <2> DEFINE s1 == SendPacket(s)
  <2>1. Shape(s1, R) /\ Keeps(s, s1)
    BY <1>3, SendPacketKeeps
  <2>2. t = IF CanSendNSCC(s1) THEN BlockOnNic(s1) ELSE s1
    BY <1>3 DEF SendIfPermitted
  <2> HIDE DEF s1
  <2>3. CASE CanSendNSCC(s1)
    <3>1. Shape(t, R) /\ Keeps(s1, t)
      BY <2>1, <2>2, <2>3, BlockOnNicKeeps
    <3> QED
      BY <2>1, <3>1, KeepsTwice
  <2>4. CASE ~CanSendNSCC(s1)
    BY <2>1, <2>2, <2>4
  <2> QED
    BY <2>3, <2>4
<1> QED
  BY <1>1, <1>2, <1>3

-----------------------------------------------------------------------------
(* The retransmission timer and the send records *)

\* A larger set of psns to disregard.
LEMMA ShapeMono ==
    ASSUME NEW s, NEW R, NEW R2, Shape(s, R), R \subseteq R2
    PROVE  Shape(s, R2)
  BY DEF Shape, Covered

\* recalculateRTO sets the timer right, whatever it was.
LEMMA RecalculateRTOKeeps ==
    ASSUME NEW R, NEW s, Shape(s, R), NEW t, t = RecalculateRTO(s)
    PROVE  Shape(t, R) /\ Keeps(s, t) /\ Shrinks(s, t) /\ TimerOK(t)
<1>1. s \in SrcState /\ s.tx \in SUBSET Psn /\ s.sentAt \in [Psn -> Nat]
  BY FieldTypes DEF Shape
<1>2. s.sendTimes = {<<s.sentAt[p], p>> : p \in s.tx}
  BY DEF Shape, Records, Stamped
<1> DEFINE T == {e[1] : e \in s.sendTimes}
<1>3. T = {s.sentAt[p] : p \in s.tx}
  <2>1. \A e \in s.sendTimes : \E p \in s.tx : e = <<s.sentAt[p], p>>
    BY <1>2
  <2>2. \A p \in s.tx : <<s.sentAt[p], p>> \in s.sendTimes
    BY <1>2
  <2>3. \A x \in T : x \in {s.sentAt[p] : p \in s.tx}
    <3> TAKE x \in T
    <3>1. PICK e \in s.sendTimes : x = e[1]
      OBVIOUS
    <3>2. PICK p \in s.tx : e = <<s.sentAt[p], p>>
      BY <2>1
    <3>3. x = s.sentAt[p]
      BY <3>1, <3>2
    <3> QED
      BY <3>3
  <2>4. \A p \in s.tx : s.sentAt[p] \in T
    <3> TAKE p \in s.tx
    <3>1. <<s.sentAt[p], p>>[1] = s.sentAt[p]
      OBVIOUS
    <3> QED
      BY <2>2, <3>1
  <2> HIDE DEF T
  <2> QED
    BY <2>3, <2>4
<1>4. T \in SUBSET Nat /\ (s.sendTimes = {} <=> s.tx = {}) /\ (T = {} <=> s.tx = {})
  <2>1. \A p \in s.tx : s.sentAt[p] \in Nat
    BY <1>1
  <2>2. T \in SUBSET Nat /\ (T = {} <=> s.tx = {})
    BY <1>3, <2>1
  <2>3. s.sendTimes = {} <=> s.tx = {}
    BY <1>2
  <2> QED
    BY <2>2, <2>3
<1>5. /\ t \in SrcState
      /\ t.rtxQueue = s.rtxQueue /\ t.inFlight = s.inFlight
      /\ t.highest = s.highest /\ t.backlog = s.backlog
      /\ t.copies = s.copies
      /\ t.started = s.started /\ t.done = s.done
      /\ t.tx = s.tx /\ t.sentAt = s.sentAt /\ t.sendTimes = s.sendTimes
      /\ t.clock = s.clock /\ t.rts = s.rts /\ t.recvd = s.recvd
      /\ t.blocked = s.blocked /\ t.regs = s.regs /\ t.out = s.out
      /\ t.rtoPending = (s.tx # {})
      /\ s.tx # {} => t.rtoSendTime = Min(T)
  <2>1. CASE s.tx = {}
    <3>1. t = [s EXCEPT !.rtoPending = FALSE]
      BY <1>4, <2>1 DEF RecalculateRTO
    <3> QED
      BY ZenonT(60), <1>1, <2>1, <3>1 DEF SrcState
  <2>2. CASE s.tx # {}
    <3>1. t = [[s EXCEPT !.rtoPending = TRUE] EXCEPT !.rtoSendTime = Min(T)]
      BY <1>1, <1>4, <2>2 DEF RecalculateRTO, SrcState
    <3>2. Min(T) \in Nat
      BY <1>4, <2>2, MinNat
    <3> HIDE DEF T
    <3> DEFINE r == [s EXCEPT !.rtoPending = TRUE]
    <3>3. /\ r \in SrcState
          /\ r.rtxQueue = s.rtxQueue /\ r.inFlight = s.inFlight
          /\ r.highest = s.highest /\ r.backlog = s.backlog
          /\ r.copies = s.copies
          /\ r.started = s.started /\ r.done = s.done
          /\ r.tx = s.tx /\ r.sentAt = s.sentAt /\ r.sendTimes = s.sendTimes
          /\ r.clock = s.clock /\ r.rts = s.rts /\ r.recvd = s.recvd
          /\ r.blocked = s.blocked /\ r.regs = s.regs /\ r.out = s.out
          /\ r.rtoPending = TRUE
      BY <1>1 DEF SrcState
    <3>4. t = [r EXCEPT !.rtoSendTime = Min(T)]
      BY <3>1
    <3> HIDE DEF r
    <3>5. /\ t \in SrcState
          /\ t.rtxQueue = r.rtxQueue /\ t.inFlight = r.inFlight
          /\ t.highest = r.highest /\ t.backlog = r.backlog
          /\ t.copies = r.copies
          /\ t.started = r.started /\ t.done = r.done
          /\ t.tx = r.tx /\ t.sentAt = r.sentAt /\ t.sendTimes = r.sendTimes
          /\ t.clock = r.clock /\ t.rts = r.rts /\ t.recvd = r.recvd
          /\ t.blocked = r.blocked /\ t.regs = r.regs /\ t.out = r.out
          /\ t.rtoPending = r.rtoPending
          /\ t.rtoSendTime = Min(T)
      BY <3>2, <3>3, <3>4 DEF SrcState
    <3> QED
      BY ZenonT(60), <2>2, <3>3, <3>5
  <2> QED
    BY <2>1, <2>2
<1>6. TimerOK(t)
  <2>1. CASE s.tx = {}
    BY <1>5, <2>1 DEF TimerOK
  <2>2. CASE s.tx # {}
    <3>1. Min(T) \in T /\ \A y \in T : Min(T) <= y
      BY <1>4, <2>2, MinNat
    <3>2. PICK q \in s.tx : s.sentAt[q] = Min(T)
      BY <1>3, <3>1
    <3>3. \A p \in s.tx : s.sentAt[p] \in Nat /\ Min(T) <= s.sentAt[p]
      BY <1>1, <1>3, <3>1
    <3> HIDE DEF T
    <3> QED
      BY ZenonT(60), <1>5, <2>2, <3>2, <3>3 DEF TimerOK
  <2> QED
    BY <2>1, <2>2
<1> HIDE DEF T
<1>7. Records(t) /\ Conserved(t) /\ Covered(t, R)
  BY <1>5 DEF Shape, Records, Stamped, Conserved, Covered
<1>8. (\A x \in t.out : Genuine(t, x)) /\ (t.blocked => t.regs > 0)
  BY <1>5 DEF Shape, Genuine, Size
<1>9. Gap(t) = Gap(s)
  BY <1>5 DEF Gap, Bytes
<1> QED
  BY <1>5, <1>6, <1>7, <1>8, <1>9 DEF Shape, Keeps, Shrinks

\* Erasing records of packets that the sender need not answer for.  Only the
\* timer may be wrong afterwards.
LEMMA DropRecordsKeeps ==
    ASSUME NEW R, NEW s, Shape(s, R), NEW A \in SUBSET Psn, A \subseteq R,
           NEW t, t = DropRecords(s, A)
    PROVE  /\ Shape(t, R) /\ Gap(t) = Gap(s) /\ Shrinks(s, t)
           /\ t.started = s.started /\ t.done = s.done /\ t.rts = s.rts
           /\ t.tx = s.tx \ A /\ t.rtxQueue = s.rtxQueue
           /\ t.highest = s.highest /\ t.inFlight = s.inFlight
           /\ \A q \in t.tx : t.sentAt[q] = s.sentAt[q]
           /\ t.rtoPending = s.rtoPending /\ t.rtoSendTime = s.rtoSendTime
           /\ t.regs = s.regs
<1>1. /\ s \in SrcState /\ s.tx \in SUBSET Psn /\ s.sentAt \in [Psn -> Nat]
      /\ s.sendTimes \in SUBSET (Nat \X Psn)
  BY FieldTypes DEF Shape, SrcState
<1> DEFINE at2 == [p \in Psn |-> IF p \in A THEN 0 ELSE s.sentAt[p]]
           st2 == {e \in s.sendTimes : e[2] \notin A}
<1>2. t = [[[s EXCEPT !.tx = s.tx \ A] EXCEPT !.sentAt = at2] EXCEPT !.sendTimes = st2]
  BY <1>1 DEF DropRecords, SrcState
<1>3. at2 \in [Psn -> Nat] /\ st2 \in SUBSET (Nat \X Psn) /\ s.tx \ A \in SUBSET Psn
  BY <1>1
<1>4. \A q \in s.tx \ A : at2[q] = s.sentAt[q]
  BY <1>1
<1>5. st2 = {<<at2[q], q>> : q \in s.tx \ A}
  <2>1. s.sendTimes = {<<s.sentAt[q], q>> : q \in s.tx}
    BY DEF Shape, Records, Stamped
  <2>2. st2 = {<<s.sentAt[q], q>> : q \in s.tx \ A}
    BY <2>1
  <2> HIDE DEF at2, st2
  <2> QED
    BY <1>4, <2>2
<1> HIDE DEF at2, st2
<1>6. /\ t \in SrcState
      /\ t.rtxQueue = s.rtxQueue /\ t.inFlight = s.inFlight
      /\ t.highest = s.highest /\ t.backlog = s.backlog
      /\ t.copies = s.copies
      /\ t.started = s.started /\ t.done = s.done
      /\ t.tx = s.tx \ A /\ t.sentAt = at2 /\ t.sendTimes = st2
      /\ t.clock = s.clock /\ t.rts = s.rts /\ t.recvd = s.recvd
      /\ t.blocked = s.blocked /\ t.regs = s.regs /\ t.out = s.out
      /\ t.rtoPending = s.rtoPending /\ t.rtoSendTime = s.rtoSendTime
  BY ZenonT(60), <1>1, <1>2, <1>3 DEF SrcState
<1>7. Stamped(t)
  <2>1. t.sendTimes = {<<t.sentAt[q], q>> : q \in t.tx}
    BY <1>5, <1>6
  <2>2. \A q \in t.tx : t.sentAt[q] <= t.clock
    BY <1>4, <1>6 DEF Shape, Records, Stamped
  <2> QED
    BY <2>1, <2>2 DEF Stamped
<1>8. Records(t) /\ Conserved(t) /\ Covered(t, R)
  BY <1>6, <1>7 DEF Shape, Records, Conserved, Covered
<1>9. (\A x \in t.out : Genuine(t, x)) /\ (t.blocked => t.regs > 0)
  BY <1>6 DEF Shape, Genuine, Size
<1>10. Gap(t) = Gap(s)
  BY <1>6 DEF Gap, Bytes
<1> QED
  BY <1>4, <1>6, <1>8, <1>9, <1>10 DEF Shape, Shrinks

\* Erasing acknowledged records moves the timer on when it must.
LEMMA EraseRecordsKeeps ==
    ASSUME NEW R, NEW s, Shape(s, R), NEW A \in SUBSET Psn, A \subseteq R,
           NEW t, t = EraseRecords(s, A)
    PROVE  Shape(t, R) /\ Keeps(s, t) /\ Shrinks(s, t)
<1> DEFINE d == DropRecords(s, A)
<1>1. /\ Shape(d, R) /\ Gap(d) = Gap(s) /\ Shrinks(s, d)
      /\ d.started = s.started /\ d.done = s.done /\ d.rts = s.rts
      /\ d.tx = s.tx \ A
      /\ \A q \in d.tx : d.sentAt[q] = s.sentAt[q]
      /\ d.rtoPending = s.rtoPending /\ d.rtoSendTime = s.rtoSendTime
  BY DropRecordsKeeps
<1>2. t = IF \E p \in A : s.sentAt[p] = s.rtoSendTime THEN RecalculateRTO(d) ELSE d
  BY DEF EraseRecords
<1> HIDE DEF d
<1>3. CASE \E p \in A : s.sentAt[p] = s.rtoSendTime
  <2>1. Shape(t, R) /\ Keeps(d, t) /\ Shrinks(d, t) /\ TimerOK(t)
    BY <1>1, <1>2, <1>3, RecalculateRTOKeeps
  <2> QED
    BY <1>1, <2>1 DEF Keeps, Shrinks
<1>4. CASE ~(\E p \in A : s.sentAt[p] = s.rtoSendTime)
  <2>1. t = d
    BY <1>2, <1>4
  <2>2. TimerOK(s) => TimerOK(d)
    BY <1>1, <1>4 DEF TimerOK
  <2> QED
    BY <1>1, <2>1, <2>2 DEF Keeps, Shrinks
<1> QED
  BY <1>3, <1>4

\* Taking acknowledged packets off the retransmission queue: the correction
\* of the in-flight count keeps the ledger.
LEMMA UnqueueKeeps ==
    ASSUME NEW R, NEW s, Shape(s, R), NEW A \in SUBSET s.rtxQueue, A \subseteq R,
           NEW t, t = Unqueue(s, A)
    PROVE  Shape(t, R) /\ Keeps(s, t) /\ Shrinks(s, t)
<1>1. s \in SrcState /\ s.rtxQueue \in SUBSET Psn /\ s.inFlight \in Int
  BY FieldTypes DEF Shape
<1>2. /\ Bytes(s, s.rtxQueue) \in Nat /\ Bytes(s, A) \in Nat
      /\ Bytes(s, s.rtxQueue \ A) = Bytes(s, s.rtxQueue) - Bytes(s, A)
  BY <1>1, BytesSplit
<1> DEFINE b == Bytes(s, A)
<1>3. t = [[s EXCEPT !.rtxQueue = s.rtxQueue \ A] EXCEPT !.inFlight = s.inFlight + b]
  BY <1>1 DEF Unqueue, SrcState
<1>4. s.inFlight + b \in Int
  BY <1>1, <1>2
<1> HIDE DEF b
<1>5. /\ t \in SrcState
      /\ t.rtxQueue = s.rtxQueue \ A /\ t.inFlight = s.inFlight + b
      /\ t.highest = s.highest /\ t.backlog = s.backlog
      /\ t.copies = s.copies
      /\ t.started = s.started /\ t.done = s.done
      /\ t.tx = s.tx /\ t.sentAt = s.sentAt /\ t.sendTimes = s.sendTimes
      /\ t.clock = s.clock /\ t.rts = s.rts /\ t.recvd = s.recvd
      /\ t.blocked = s.blocked /\ t.regs = s.regs /\ t.out = s.out
      /\ t.rtoPending = s.rtoPending /\ t.rtoSendTime = s.rtoSendTime
  BY ZenonT(60), <1>1, <1>3, <1>4 DEF SrcState
<1>6. Records(t) /\ Conserved(t) /\ Covered(t, R)
  BY <1>5 DEF Shape, Records, Stamped, Conserved, Covered
<1>7. (\A x \in t.out : Genuine(t, x)) /\ (t.blocked => t.regs > 0)
  BY <1>5 DEF Shape, Genuine, Size
<1>8. Gap(t) = Gap(s)
  <2>1. Bytes(t, t.rtxQueue) = Bytes(s, s.rtxQueue \ A)
    BY <1>5 DEF Bytes
  <2>2. Mtu * (s.highest - Cardinality(s.rts)) \in Int
    BY <1>1, FieldTypes, PsnFinite
  <2> QED
    BY <1>1, <1>2, <1>5, <2>1, <2>2, FieldTypes DEF Gap, b
<1>9. TimerOK(s) => TimerOK(t)
  BY <1>5 DEF TimerOK
<1> QED
  BY <1>5, <1>6, <1>7, <1>8, <1>9 DEF Shape, Keeps, Shrinks

\* Two such methods in a row.
LEMMA ShrinksTwice ==
    ASSUME NEW a, NEW b, NEW c, Shrinks(a, b), Shrinks(b, c)
    PROVE  Shrinks(a, c)
  BY DEF Shrinks

\* The cumulative part of an ACK.
LEMMA HandleCumulativeAckKeeps ==
    ASSUME NEW R, NEW s, Shape(s, R), NEW cum \in Nat,
           \A p \in Psn : p < cum => p \in R,
           NEW t, t = HandleCumulativeAck(s, cum)
    PROVE  Shape(t, R) /\ Keeps(s, t) /\ Shrinks(s, t)
<1> DEFINE A  == {p \in s.rtxQueue : p < cum}
           s1 == Unqueue(s, A)
           B  == {p \in s1.tx : p < cum}
<1>1. s.rtxQueue \in SUBSET Psn
  BY FieldTypes DEF Shape
<1>2. A \in SUBSET s.rtxQueue /\ A \subseteq R
  BY <1>1
<1>3. t = EraseRecords(s1, B) /\ s1 = Unqueue(s, A)
  BY DEF HandleCumulativeAck
<1> HIDE DEF A, s1
<1>4. Shape(s1, R) /\ Keeps(s, s1) /\ Shrinks(s, s1)
  BY <1>2, <1>3, UnqueueKeeps
<1>5. s1.tx \in SUBSET Psn
  BY <1>4, FieldTypes DEF Shape
<1>6. B \in SUBSET Psn /\ B \subseteq R
  BY <1>5
<1> HIDE DEF B
<1>7. Shape(t, R) /\ Keeps(s1, t) /\ Shrinks(s1, t)
  BY <1>3, <1>4, <1>6, EraseRecordsKeeps
<1> QED
  BY <1>4, <1>7, KeepsTwice, ShrinksTwice

\* The selective part of an ACK.
LEMMA HandleAcknoKeeps ==
    ASSUME NEW R, NEW s, Shape(s, R), NEW sacks \in SUBSET Psn, sacks \subseteq R,
           NEW t, t = HandleAckno(s, sacks)
    PROVE  Shape(t, R) /\ Keeps(s, t) /\ Shrinks(s, t)
<1> DEFINE A  == (s.rtxQueue \cap sacks) \ s.tx
           s1 == Unqueue(s, A)
           B  == s.tx \cap sacks
<1>1. A \in SUBSET s.rtxQueue /\ A \subseteq R /\ B \in SUBSET Psn /\ B \subseteq R
  OBVIOUS
<1>2. t = EraseRecords(s1, B) /\ s1 = Unqueue(s, A)
  BY DEF HandleAckno
<1> HIDE DEF A, B, s1
<1>3. Shape(s1, R) /\ Keeps(s, s1) /\ Shrinks(s, s1)
  BY <1>1, <1>2, UnqueueKeeps
<1>4. Shape(t, R) /\ Keeps(s1, t) /\ Shrinks(s1, t)
  BY <1>1, <1>2, <1>3, EraseRecordsKeeps
<1> QED
  BY <1>3, <1>4, KeepsTwice, ShrinksTwice

\* The receiver's byte count moves bytes out of the flight.
LEMMA CountReceivedKeeps ==
    ASSUME NEW R, NEW s, Shape(s, R), NEW recvd \in Nat,
           NEW t, t = CountReceived(s, recvd)
    PROVE  Shape(t, R) /\ Keeps(s, t) /\ Shrinks(s, t)
<1>1. s \in SrcState /\ s.inFlight \in Int /\ s.recvd \in Nat
      /\ s.rtxQueue \in SUBSET Psn
  BY FieldTypes DEF Shape
<1>2. CASE recvd > s.recvd
  <2> DEFINE f == s.inFlight - (recvd - s.recvd)
  <2>1. t = [[s EXCEPT !.inFlight = f] EXCEPT !.recvd = recvd]
    BY <1>1, <1>2 DEF CountReceived, SrcState
  <2>2. f \in Int
    BY <1>1
  <2> HIDE DEF f
  <2>3. /\ t \in SrcState
        /\ t.rtxQueue = s.rtxQueue /\ t.inFlight = f
        /\ t.highest = s.highest /\ t.backlog = s.backlog
        /\ t.copies = s.copies
        /\ t.started = s.started /\ t.done = s.done
        /\ t.tx = s.tx /\ t.sentAt = s.sentAt /\ t.sendTimes = s.sendTimes
        /\ t.clock = s.clock /\ t.rts = s.rts /\ t.recvd = recvd
        /\ t.blocked = s.blocked /\ t.regs = s.regs /\ t.out = s.out
        /\ t.rtoPending = s.rtoPending /\ t.rtoSendTime = s.rtoSendTime
    BY ZenonT(60), <1>1, <2>1, <2>2 DEF SrcState
  <2>4. Records(t) /\ Conserved(t) /\ Covered(t, R)
    BY <2>3 DEF Shape, Records, Stamped, Conserved, Covered
  <2>5. (\A x \in t.out : Genuine(t, x)) /\ (t.blocked => t.regs > 0)
    BY <2>3 DEF Shape, Genuine, Size
  <2>6. Gap(t) = Gap(s)
    <3>1. Bytes(t, t.rtxQueue) = Bytes(s, s.rtxQueue)
      BY <2>3 DEF Bytes
    <3>2. Mtu * (s.highest - Cardinality(s.rts)) \in Int
      BY <1>1, FieldTypes, PsnFinite
    <3>3. Bytes(s, s.rtxQueue) \in Nat
      BY <1>1, BytesSplit
    <3> QED
      BY <1>1, <2>3, <3>1, <3>2, <3>3, FieldTypes DEF Gap, f
  <2>7. TimerOK(s) => TimerOK(t)
    BY <2>3 DEF TimerOK
  <2> QED
    BY <2>3, <2>4, <2>5, <2>6, <2>7 DEF Shape, Keeps, Shrinks
<1>3. CASE ~(recvd > s.recvd)
  <2>1. t = s
    BY <1>3 DEF CountReceived
  <2>2. Shrinks(s, s)
    BY DEF Shrinks
  <2>3. Keeps(s, s)
    BY KeepsItself
  <2> QED
    BY <2>1, <2>2, <2>3
<1> QED
  BY <1>2, <1>3

-----------------------------------------------------------------------------
(* Packets given up for lost *)

\* A new window.
LEMMA SetWindowKeeps ==
    ASSUME NEW R, NEW s, Shape(s, R), NEW w \in Nat,
           NEW t, t = [s EXCEPT !.cwnd = w]
    PROVE  Shape(t, R) /\ Keeps(s, t) /\ Shrinks(s, t)
<1>1. /\ t \in SrcState
      /\ t.rtxQueue = s.rtxQueue /\ t.inFlight = s.inFlight
      /\ t.highest = s.highest /\ t.backlog = s.backlog
      /\ t.copies = s.copies
      /\ t.started = s.started /\ t.done = s.done
      /\ t.tx = s.tx /\ t.sentAt = s.sentAt /\ t.sendTimes = s.sendTimes
      /\ t.clock = s.clock /\ t.rts = s.rts /\ t.recvd = s.recvd
      /\ t.blocked = s.blocked /\ t.regs = s.regs /\ t.out = s.out
      /\ t.rtoPending = s.rtoPending /\ t.rtoSendTime = s.rtoSendTime
  BY DEF Shape, SrcState
<1>2. Records(t) /\ Conserved(t) /\ Covered(t, R)
  BY <1>1 DEF Shape, Records, Stamped, Conserved, Covered
<1>3. (\A x \in t.out : Genuine(t, x)) /\ (t.blocked => t.regs > 0)
  BY <1>1 DEF Shape, Genuine, Size
<1>4. Gap(t) = Gap(s) /\ (TimerOK(s) => TimerOK(t))
  BY <1>1 DEF Gap, Bytes, TimerOK
<1> QED
  BY <1>1, <1>2, <1>3, <1>4 DEF Shape, Keeps, Shrinks

\* A lost packet leaves the flight and joins the retransmission queue.
LEMMA RequeueKeeps ==
    ASSUME NEW R, NEW p \in Psn, NEW s, Shape(s, R \cup {p}),
           p < s.highest, p \notin s.tx, p \notin s.rtxQueue,
           NEW w \in Nat,
           NEW t, t = [[[s EXCEPT !.inFlight = s.inFlight - Size(s, p)]
                           EXCEPT !.cwnd = w]
                           EXCEPT !.rtxQueue = s.rtxQueue \cup {p}]
    PROVE  Shape(t, R) /\ Keeps(s, t)
<1>1. s \in SrcState /\ s.rtxQueue \in SUBSET Psn /\ s.inFlight \in Int
  BY FieldTypes DEF Shape
<1>2. /\ Bytes(s, s.rtxQueue \cup {p}) = Bytes(s, s.rtxQueue) + Size(s, p)
      /\ Bytes(s, s.rtxQueue) \in Nat /\ Size(s, p) \in Nat
  BY <1>1, BytesAdd
<1> DEFINE i == s.inFlight - Size(s, p)  U == s.rtxQueue \cup {p}
<1>3. i \in Int /\ U \in SUBSET Psn
  BY <1>1, <1>2
<1>5. /\ t \in SrcState /\ t.rtxQueue = U /\ t.inFlight = i
      /\ t.highest = s.highest /\ t.backlog = s.backlog
      /\ t.started = s.started /\ t.done = s.done
      /\ t.tx = s.tx /\ t.sentAt = s.sentAt /\ t.sendTimes = s.sendTimes
      /\ t.clock = s.clock /\ t.rts = s.rts /\ t.recvd = s.recvd
      /\ t.blocked = s.blocked /\ t.regs = s.regs /\ t.out = s.out
      /\ t.rtoPending = s.rtoPending /\ t.rtoSendTime = s.rtoSendTime
  <2> DEFINE a == [s EXCEPT !.inFlight = i]  b == [a EXCEPT !.cwnd = w]
  <2>a. a = [s EXCEPT !.inFlight = i]
    OBVIOUS
  <2>b. b = [a EXCEPT !.cwnd = w]
    OBVIOUS
  <2>t. t = [b EXCEPT !.rtxQueue = U]
    OBVIOUS
  <2> HIDE DEF i, U, a, b
  <2>1. /\ a \in SrcState /\ a.inFlight = i
        /\ a.highest = s.highest /\ a.backlog = s.backlog
        /\ a.started = s.started /\ a.done = s.done
        /\ a.tx = s.tx /\ a.sentAt = s.sentAt /\ a.sendTimes = s.sendTimes
        /\ a.clock = s.clock /\ a.rts = s.rts /\ a.recvd = s.recvd
        /\ a.blocked = s.blocked /\ a.regs = s.regs /\ a.out = s.out
        /\ a.rtoPending = s.rtoPending /\ a.rtoSendTime = s.rtoSendTime
    BY ONLY <1>1, <1>3, <2>a DEF SrcState
  <2>2. /\ b \in SrcState /\ b.inFlight = i
        /\ b.highest = s.highest /\ b.backlog = s.backlog
        /\ b.started = s.started /\ b.done = s.done
        /\ b.tx = s.tx /\ b.sentAt = s.sentAt /\ b.sendTimes = s.sendTimes
        /\ b.clock = s.clock /\ b.rts = s.rts /\ b.recvd = s.recvd
        /\ b.blocked = s.blocked /\ b.regs = s.regs /\ b.out = s.out
        /\ b.rtoPending = s.rtoPending /\ b.rtoSendTime = s.rtoSendTime
    BY ONLY <2>1, w \in Nat, <2>b DEF SrcState
  <2>3. /\ t \in SrcState /\ t.rtxQueue = U /\ t.inFlight = i
        /\ t.highest = b.highest /\ t.backlog = b.backlog
        /\ t.started = b.started /\ t.done = b.done
        /\ t.tx = b.tx /\ t.sentAt = b.sentAt /\ t.sendTimes = b.sendTimes
        /\ t.clock = b.clock /\ t.rts = b.rts /\ t.recvd = b.recvd
        /\ t.blocked = b.blocked /\ t.regs = b.regs /\ t.out = b.out
        /\ t.rtoPending = b.rtoPending /\ t.rtoSendTime = b.rtoSendTime
    BY ONLY <2>2, <1>3, <2>t DEF SrcState
  <2> QED
    BY ONLY <2>2, <2>3
<1> HIDE DEF i, U
<1>6. Records(t) /\ Conserved(t) /\ Covered(t, R)
  BY <1>5 DEF U, Shape, Records, Stamped, Conserved, Covered
<1>7. (\A x \in t.out : Genuine(t, x)) /\ (t.blocked => t.regs > 0)
  BY <1>5 DEF Shape, Genuine, Size
<1>8. Gap(t) = Gap(s)
  <2>1. Bytes(t, t.rtxQueue) = Bytes(s, s.rtxQueue \cup {p})
    BY <1>5 DEF Bytes, U
  <2>2. Mtu * (s.highest - Cardinality(s.rts)) \in Int
    BY <1>1, FieldTypes, PsnFinite
  <2> QED
    BY <1>1, <1>2, <1>5, <2>1, <2>2, FieldTypes DEF Gap, i
<1>9. TimerOK(s) => TimerOK(t)
  BY <1>5 DEF TimerOK
<1> QED
  BY <1>5, <1>6, <1>7, <1>8, <1>9 DEF Shape, Keeps

\* An RTS spends a psn on a packet without data: the ledger is the same.
LEMMA SendRTSKeeps ==
    ASSUME NEW R, NEW s, Shape(s, R), Cardinality(s.rts) < MaxRts,
           NEW t, t = SendRTS(s)
    PROVE  /\ Shape(t, R) /\ Gap(t) = Gap(s) /\ (TimerOK(s) => TimerOK(t))
           /\ t.started = s.started /\ t.done = s.done
           /\ t.rts = s.rts \cup {s.highest}
           /\ \A q \in Psn : q < s.highest => q < t.highest
<1> DEFINE p  == s.highest
           h  == s.highest + 1
           U  == s.rts \cup {p}
           s0 == [[s EXCEPT !.rts = U] EXCEPT !.highest = h]
           s1 == CreateSendRecord(s0, p)
           m  == [type |-> "RTS", psn |-> p]
<1>1. s \in SrcState /\ Conserved(s) /\ Records(s) /\ s.highest \in Nat
  BY FieldTypes DEF Shape
<1>2. p \in Psn /\ h \in 0 .. (NData + MaxRts) /\ U \in SUBSET Psn
  <2>1. p \in Psn /\ h \in 0 .. (NData + MaxRts)
    BY <1>1, HighestIsPsn
  <2> QED
    BY <1>1, <2>1, FieldTypes
<1>3. p \notin s.rts /\ p \notin s.tx /\ p \notin s.rtxQueue
  BY <1>1 DEF Records
<1>4. Cardinality(U) = Cardinality(s.rts) + 1 /\ Cardinality(s.rts) \in Nat
  <2>1. IsFiniteSet(s.rts) /\ Cardinality(s.rts) \in Nat
    BY <1>1, FieldTypes, PsnFinite
  <2> QED
    BY <1>3, <2>1, FS_AddElement
<1>5. t = Transmit(s1, m) /\ s1 = CreateSendRecord(s0, p)
  <2>1. s0 = [s EXCEPT !.rts = @ \cup {p}, !.highest = @ + 1]
    BY <1>1 DEF SrcState
  <2> HIDE DEF s0
  <2> QED
    BY <2>1 DEF SendRTS, Transmit
<1>6. m \in RtsMsg /\ m.type = "RTS" /\ m.psn = p
  BY <1>2 DEF RtsMsg
<1> HIDE DEF U, h
<1>7. /\ s0 \in SrcState /\ s0.rts = U /\ s0.highest = h
      /\ s0.rtxQueue = s.rtxQueue /\ s0.inFlight = s.inFlight
      /\ s0.backlog = s.backlog
      /\ s0.started = s.started /\ s0.done = s.done
      /\ s0.tx = s.tx /\ s0.sentAt = s.sentAt /\ s0.sendTimes = s.sendTimes
      /\ s0.clock = s.clock /\ s0.recvd = s.recvd
      /\ s0.blocked = s.blocked /\ s0.regs = s.regs /\ s0.out = s.out
      /\ s0.rtoPending = s.rtoPending /\ s0.rtoSendTime = s.rtoSendTime
  BY <1>1, <1>2 DEF SrcState
<1> HIDE DEF s0, s1, m, p
<1>8. /\ p = s.highest /\ h = p + 1 /\ U = s.rts \cup {p}
      /\ \A q \in Psn : q < s.highest => q < h /\ (q \in U <=> q \in s.rts)
  BY <1>1, FieldTypes DEF h, p, U, Psn
<1>9. Records(s0)
  <2>1. Stamped(s0)
    BY <1>1, <1>7 DEF Records, Stamped
  <2>2. \A q \in s0.tx \cup s0.rtxQueue : q < h
    BY <1>1, <1>7, <1>8, FieldTypes DEF Records
  <2>3. \A q \in U : q < h
    BY <1>1, <1>2, <1>8, FieldTypes DEF Records
  <2> QED
    BY <1>1, <1>7, <2>1, <2>2, <2>3 DEF Records
<1>10. Conserved(s0)
  BY <1>1, <1>4, <1>7, <1>8, FieldTypes DEF Conserved
<1>11. Covered(s0, R \cup {p})
  <2>1. \A q \in Psn : q < h => q < s.highest \/ q = p
    BY <1>1, <1>2, <1>8 DEF Psn
  <2> QED
    BY <1>7, <2>1 DEF Shape, Covered
<1>12. \A x \in s0.out : Genuine(s0, x)
  <2> TAKE x \in s0.out
  <2>1. x.psn \in Psn /\ Genuine(s, x)
    BY <1>1, <1>7, FieldTypes DEF Shape, DataMsg, RtsMsg
  <2> QED
    BY <1>7, <1>8, <2>1 DEF Genuine, Size
<1>13. Genuine(s0, m)
  BY <1>1, <1>6, <1>7, <1>8 DEF Genuine
<1>14. Shape(s0, R \cup {p})
  BY <1>7, <1>9, <1>10, <1>11, <1>12 DEF Shape
<1>15. Gap(s0) = Gap(s) /\ (TimerOK(s) => TimerOK(s0))
  <2>1. s.rtxQueue \cap s.rts = s.rtxQueue \cap s0.rts
    BY <1>3, <1>7, <1>8
  <2>2. Bytes(s0, s0.rtxQueue) = Bytes(s, s.rtxQueue)
    BY <1>7, <2>1, BytesSameKinds
  <2>3. s0.highest - Cardinality(s0.rts) = s.highest - Cardinality(s.rts)
    BY <1>1, <1>4, <1>7, <1>8
  <2> QED
    BY <1>7, <2>2, <2>3 DEF Gap, TimerOK
<1>16. Shape(t, R) /\ Keeps(s0, t)
  <2>1. p < s0.highest /\ p \notin s0.tx /\ p \notin s0.rtxQueue
    BY <1>1, <1>3, <1>7, <1>8
  <2> QED
    BY <1>2, <1>5, <1>6, <1>13, <1>14, <2>1, SendPrepared
<1> QED
  BY <1>7, <1>8, <1>15, <1>16 DEF Keeps

-----------------------------------------------------------------------------
(* What holds of the sender's record between two handlers, once the flow   *)
(* has started, and how a handler may change it.                           *)

Over(s) == s.tx = {} /\ s.rtxQueue = {} /\ s.backlog = 0

Sound(s, R) ==
    /\ Shape(s, R)
    /\ TimerOK(s)
    /\ s.started
    /\ IF s.done THEN Over(s) ELSE Gap(s) = 0

Follows(s, t) ==
    /\ s.done => t.done /\ t.highest = s.highest /\ t.copies = s.copies
    /\ \A p \in Psn : p < s.highest => p < t.highest /\ (p \in t.rts <=> p \in s.rts)

\* While the flow runs, a method that keeps the invariants is sound.
LEMMA KeepsSound ==
    ASSUME NEW R, NEW s, ~s.done, Sound(s, R), NEW t, Shape(t, R), Keeps(s, t)
    PROVE  Sound(t, R) /\ Follows(s, t)
  BY DEF Sound, Keeps, Follows

\* A completed flow is only ever shrunk.
LEMMA ShrinksSound ==
    ASSUME NEW R, NEW s, s.done, Sound(s, R), NEW t, Shape(t, R), Keeps(s, t),
           Shrinks(s, t)
    PROVE  Sound(t, R) /\ Follows(s, t)
  BY DEF Sound, Over, Keeps, Shrinks, Follows

\* A completed flow has nothing to send.
LEMMA OverCannotSend ==
    ASSUME NEW s, s.rtxQueue = {}, s.backlog = 0
    PROVE  ~CanSendNSCC(s)
  BY DEF CanSendNSCC, NextPacketSize

\* The first packet.
LEMMA StartFlowSound ==
    ASSUME NEW R, NEW free \in BOOLEAN, NEW t, t = StartFlowOn(InitSrc, free)
    PROVE  Sound(t, R)
<1> DEFINE s0 == [InitSrc EXCEPT !.started = TRUE, !.backlog = NData]
           s1 == IF free THEN SendNewPacket(s0) ELSE s0
<1>1. NData \in Nat /\ NData > 0 /\ MaxRts \in Nat /\ InitCwnd \in Nat
      /\ Mtu \in Nat /\ Hdr \in Nat
  BY NDataAssumption, MaxRtsAssumption, CwndAssumption, SizeAssumption
<1>2. /\ s0 \in SrcState
      /\ s0.highest = 0 /\ s0.backlog = NData /\ s0.started = TRUE
      /\ s0.done = FALSE /\ s0.tx = {} /\ s0.sendTimes = {}
      /\ s0.rtxQueue = {} /\ s0.rts = {} /\ s0.inFlight = 0 /\ s0.recvd = 0
      /\ s0.rtoPending = FALSE /\ s0.blocked = FALSE /\ s0.out = {}
  <2> DEFINE c == [InitSrc EXCEPT !.started = TRUE]
  <2>1. /\ c \in SrcState
        /\ c.highest = 0 /\ c.started = TRUE
        /\ c.done = FALSE /\ c.tx = {} /\ c.sendTimes = {}
        /\ c.rtxQueue = {} /\ c.rts = {} /\ c.inFlight = 0 /\ c.recvd = 0
        /\ c.rtoPending = FALSE /\ c.blocked = FALSE /\ c.out = {}
    <3>1. [p \in Psn |-> 0] \in [Psn -> Nat]
      OBVIOUS
    <3>2. InitSrc \in SrcState
      BY <1>1, <3>1 DEF InitSrc, SrcState
    <3>3. c \in SrcState
      BY <3>2 DEF SrcState
    <3> QED
      BY <3>3 DEF InitSrc
  <2>2. s0 = [c EXCEPT !.backlog = NData]
    BY DEF InitSrc
  <2> HIDE DEF c, s0
  <2> QED
    BY <1>1, <2>1, <2>2 DEF SrcState
<1>3. t = IF s1.backlog > 0 THEN BlockOnNic(s1) ELSE s1
  BY DEF StartFlowOn
<1>4. s1 = IF free THEN SendNewPacket(s0) ELSE s0
  OBVIOUS
<1> HIDE DEF s0, s1
<1>5. Cardinality({}) = 0
  BY FS_EmptySet
<1>6. Records(s0) /\ Conserved(s0) /\ Covered(s0, R)
  BY <1>1, <1>2, <1>5 DEF Records, Stamped, Conserved, Covered, Psn
<1>7. Shape(s0, R)
  BY <1>2, <1>6 DEF Shape
<1>8. Gap(s0) = 0
  <2>1. Bytes(s0, {}) = Mtu * 0 + Hdr * 0
    <3>1. {} \ s0.rts = {} /\ {} \cap s0.rts = {}
      OBVIOUS
    <3> QED
      BY <1>5, <3>1, ZenonT(60) DEF Bytes
  <2>2. Mtu * (0 - 0) = 0 /\ Mtu * 0 + Hdr * 0 = 0
    BY <1>1
  <2> QED
    BY <1>2, <1>5, <2>1, <2>2 DEF Gap
<1>9. Sound(s0, R) /\ ~s0.done
  BY <1>2, <1>7, <1>8 DEF Sound, TimerOK
<1>10. Shape(s1, R) /\ Keeps(s0, s1)
  <2>1. s0.backlog > 0
    BY <1>1, <1>2
  <2> QED
    BY <1>4, <1>7, <2>1, KeepsItself, SendNewPacketKeeps
<1>11. Shape(t, R) /\ Keeps(s1, t)
  BY <1>3, <1>10, KeepsItself, BlockOnNicKeeps
<1> QED
  BY <1>9, <1>10, <1>11, KeepsTwice, KeepsSound

\* A callback from the NIC.
LEMMA TimeToSendSound ==
    ASSUME NEW R, NEW s, Sound(s, R), s.regs > 0, NEW t, t = TimeToSendOn(s)
    PROVE  Sound(t, R) /\ Follows(s, t)
<1> DEFINE s0 == [s EXCEPT !.blocked = FALSE, !.regs = @ - 1]
           s1 == SendPacket(s0)
<1>1. s \in SrcState /\ s.regs \in Nat /\ Shape(s, R)
  BY FieldTypes DEF Sound, Shape
<1>2. s0 = [[s EXCEPT !.blocked = FALSE] EXCEPT !.regs = s.regs - 1]
  BY <1>1 DEF SrcState
<1>3. s.regs - 1 \in Nat
  BY <1>1
<1>4. t = IF ~CanSendNSCC(s0) THEN s0
          ELSE IF CanSendNSCC(s1) THEN BlockOnNic(s1) ELSE s1
  BY DEF TimeToSendOn
<1>5. s1 = SendPacket(s0)
  OBVIOUS
<1> HIDE DEF s0, s1
<1>6. /\ s0 \in SrcState
      /\ s0.rtxQueue = s.rtxQueue /\ s0.inFlight = s.inFlight
      /\ s0.highest = s.highest /\ s0.backlog = s.backlog
      /\ s0.copies = s.copies
      /\ s0.started = s.started /\ s0.done = s.done
      /\ s0.tx = s.tx /\ s0.sentAt = s.sentAt /\ s0.sendTimes = s.sendTimes
      /\ s0.clock = s.clock /\ s0.rts = s.rts /\ s0.recvd = s.recvd
      /\ s0.blocked = FALSE /\ s0.out = s.out
      /\ s0.rtoPending = s.rtoPending /\ s0.rtoSendTime = s.rtoSendTime
  BY <1>1, <1>2, <1>3 DEF SrcState
<1>7. Records(s0) /\ Conserved(s0) /\ Covered(s0, R)
  BY <1>1, <1>6 DEF Shape, Records, Stamped, Conserved, Covered
<1>8. \A x \in s0.out : Genuine(s0, x)
  BY <1>1, <1>6 DEF Shape, Genuine, Size
<1>9. Shape(s0, R)
  BY <1>6, <1>7, <1>8 DEF Shape
<1>10. Keeps(s, s0)
  BY <1>6 DEF Keeps, Gap, Bytes, TimerOK
<1>11. CASE s.done
  <2>1. ~CanSendNSCC(s0)
    BY <1>6, <1>11, OverCannotSend DEF Sound, Over
  <2>2. t = s0
    BY <1>4, <2>1
  <2> QED
    BY <1>6, <1>9, <1>10, <1>11, <2>2 DEF Sound, Over, Keeps, Follows
<1>12. CASE ~s.done
  <2>1. CASE ~CanSendNSCC(s0)
    BY <1>4, <1>9, <1>10, <1>12, <2>1, KeepsSound
  <2>2. CASE CanSendNSCC(s0)
    <3>1. Shape(s1, R) /\ Keeps(s0, s1)
      BY <1>5, <1>9, <2>2, SendPacketKeeps
    <3>2. Shape(t, R) /\ Keeps(s1, t)
      BY <1>4, <2>2, <3>1, KeepsItself, BlockOnNicKeeps
    <3>3. Keeps(s, t)
      BY <1>10, <3>1, <3>2, KeepsTwice
    <3> QED
      BY <1>12, <3>2, <3>3, KeepsSound
  <2> QED
    BY <2>1, <2>2
<1> QED
  BY <1>11, <1>12

\* Completion, when the receiver has everything.
LEMMA FinishFlowSound ==
    ASSUME NEW R, NEW s, Shape(s, R), ~s.done, s.started, s.backlog = 0,
           \A p \in Psn : p < s.highest => p \in R,
           NEW t, t = FinishFlow(s)
    PROVE  Sound(t, R) /\ Follows(s, t)
<1>1. s \in SrcState
  BY DEF Shape
<1> DEFINE a == [s EXCEPT !.done = TRUE, !.rtoPending = FALSE]
           b == [a EXCEPT !.rtxQueue = {}, !.tx = {}]
           at == [p \in Psn |-> 0]
<1>2. t = [[[b EXCEPT !.sentAt = at] EXCEPT !.sendTimes = {}] EXCEPT !.inFlight = 0]
  BY DEF FinishFlow
<1>3. /\ b \in SrcState /\ b.done = TRUE /\ b.rtoPending = FALSE
      /\ b.rtxQueue = {} /\ b.tx = {}
      /\ b.highest = s.highest /\ b.backlog = s.backlog
      /\ b.started = s.started /\ b.rts = s.rts
      /\ b.blocked = s.blocked /\ b.regs = s.regs /\ b.out = s.out
  BY ZenonT(60), <1>1 DEF SrcState
<1>4. at \in [Psn -> Nat]
  OBVIOUS
<1> DEFINE c == [b EXCEPT !.sentAt = at]
<1> HIDE DEF b, at
<1>5. /\ c \in SrcState /\ c.done = TRUE /\ c.rtoPending = FALSE
      /\ c.rtxQueue = {} /\ c.tx = {}
      /\ c.highest = s.highest /\ c.backlog = s.backlog
      /\ c.started = s.started /\ c.rts = s.rts
      /\ c.blocked = s.blocked /\ c.regs = s.regs /\ c.out = s.out
  BY <1>3, <1>4 DEF SrcState
<1> DEFINE d == [c EXCEPT !.sendTimes = {}]
           zero == 0
<1>6. t = [d EXCEPT !.inFlight = zero] /\ zero \in Int
  BY <1>2
<1> HIDE DEF c, zero
<1>7. /\ d \in SrcState /\ d.done = TRUE /\ d.rtoPending = FALSE
      /\ d.rtxQueue = {} /\ d.tx = {} /\ d.sendTimes = {}
      /\ d.highest = s.highest /\ d.backlog = s.backlog
      /\ d.started = s.started /\ d.rts = s.rts
      /\ d.blocked = s.blocked /\ d.regs = s.regs /\ d.out = s.out
  BY <1>5 DEF SrcState
<1> HIDE DEF d
<1>8. /\ t \in SrcState /\ t.done = TRUE /\ t.rtoPending = FALSE
      /\ t.rtxQueue = {} /\ t.tx = {} /\ t.sendTimes = {}
      /\ t.highest = s.highest /\ t.backlog = s.backlog
      /\ t.started = s.started /\ t.rts = s.rts
      /\ t.blocked = s.blocked /\ t.regs = s.regs /\ t.out = s.out
  BY ZenonT(60), <1>6, <1>7 DEF SrcState
<1>9. Records(t) /\ Conserved(t) /\ Covered(t, R)
  BY <1>8 DEF Shape, Records, Stamped, Conserved, Covered
<1>10. (\A x \in t.out : Genuine(t, x)) /\ (t.blocked => t.regs > 0)
  BY <1>8 DEF Shape, Genuine, Size
<1>11. Shape(t, R)
  BY <1>8, <1>9, <1>10 DEF Shape
<1> QED
  BY <1>8, <1>11 DEF Sound, Over, TimerOK, Follows

\* An ACK of what the receiver has.
LEMMA ProcessAckSound ==
    ASSUME NEW R, NEW s, Sound(s, R), NEW m,
           m.cum \in Nat, m.cum <= s.highest, m.recvd \in Nat,
           m.sacks \in SUBSET Psn, m.sacks \subseteq R,
           \A p \in Psn : p < m.cum => p \in R,
           NEW w \in Nat, NEW free \in BOOLEAN,
           NEW t, t = ProcessAck(s, m, w, free)
    PROVE  Sound(t, R) /\ Follows(s, t)
<1> DEFINE a  == CountReceived(s, m.recvd)
           b  == HandleCumulativeAck(a, m.cum)
           c  == HandleAckno(b, m.sacks)
           s2 == [c EXCEPT !.cwnd = w]
<1>1. t = IF Finished(s2, m.cum)
          THEN IF s2.done THEN s2 ELSE FinishFlow(s2)
          ELSE SendIfPermitted(s2, free)
  BY DEF ProcessAck
<1>2. /\ a = CountReceived(s, m.recvd) /\ b = HandleCumulativeAck(a, m.cum)
      /\ c = HandleAckno(b, m.sacks) /\ s2 = [c EXCEPT !.cwnd = w]
  OBVIOUS
<1> HIDE DEF a, b, c, s2
<1>3. Shape(a, R) /\ Keeps(s, a) /\ Shrinks(s, a)
  BY <1>2, CountReceivedKeeps DEF Sound
<1>4. Shape(b, R) /\ Keeps(a, b) /\ Shrinks(a, b)
  BY <1>2, <1>3, HandleCumulativeAckKeeps
<1>5. Shape(c, R) /\ Keeps(b, c) /\ Shrinks(b, c)
  BY <1>2, <1>4, HandleAcknoKeeps
<1>6. Shape(s2, R) /\ Keeps(c, s2) /\ Shrinks(c, s2)
  BY <1>2, <1>5, SetWindowKeeps
<1>7. Keeps(s, s2) /\ Shrinks(s, s2)
  <2>1. Keeps(s, b) /\ Shrinks(s, b)
    BY <1>3, <1>4, KeepsTwice, ShrinksTwice
  <2>2. Keeps(s, c) /\ Shrinks(s, c)
    BY <1>5, <2>1, KeepsTwice, ShrinksTwice
  <2> QED
    BY <1>6, <2>2, KeepsTwice, ShrinksTwice
<1>8. CASE s.done
  <2>1. s2.done
    BY <1>7, <1>8 DEF Keeps
  <2>2. t = s2
    BY <1>1, <2>1 DEF Finished
  <2> QED
    BY <1>6, <1>7, <1>8, <2>2, ShrinksSound
<1>9. CASE ~s.done /\ Finished(s2, m.cum)
  <2>1. ~s2.done /\ s2.started /\ s2.highest = s.highest
    BY <1>7, <1>9 DEF Keeps, Shrinks, Sound
  <2>2. s2 \in SrcState /\ Conserved(s2)
    BY <1>6 DEF Shape
  <2>3. Cardinality(s2.rts) \in Nat
    BY <2>2, FieldTypes, PsnFinite
  <2>4. m.cum - Cardinality(s2.rts) >= NData
    BY <1>9, <2>1 DEF Finished
  <2>5. s2.backlog = 0 /\ m.cum = s2.highest
    BY <2>1, <2>2, <2>3, <2>4, FieldTypes DEF Conserved
  <2>6. t = FinishFlow(s2)
    BY <1>1, <1>9, <2>1
  <2>7. Sound(t, R) /\ Follows(s2, t)
    BY <1>6, <2>1, <2>5, <2>6, FinishFlowSound
  <2> QED
    BY <1>7, <1>9, <2>7 DEF Follows, Keeps
<1>10. CASE ~s.done /\ ~Finished(s2, m.cum)
  <2>1. t = SendIfPermitted(s2, free)
    BY <1>1, <1>10
  <2>2. Shape(t, R) /\ Keeps(s2, t)
    BY <1>6, <2>1, SendIfPermittedKeeps
  <2>3. Keeps(s, t)
    BY <1>7, <2>2, KeepsTwice
  <2> QED
    BY <1>10, <2>2, <2>3, KeepsSound
<1> QED
  BY <1>8, <1>9, <1>10

\* The record of p is dropped, and p is queued again.
LEMMA RequeueRecord ==
    ASSUME NEW R, NEW s, Shape(s, R), NEW p \in s.tx, NEW d, Shape(d, R \cup {p}),
           Gap(d) = Gap(s), d.started = s.started, d.done = s.done,
           d.rts = s.rts, d.tx = s.tx \ {p}, d.rtxQueue = s.rtxQueue,
           d.highest = s.highest, NEW w \in Nat, NEW free \in BOOLEAN,
           NEW d2, d2 = [d EXCEPT !.cwnd = w, !.inFlight = @ - Size(s, p)],
           NEW t, t = QueueForRtx(d2, p, free)
    PROVE  Shape(t, R) /\ Keeps(d, t)
<1>1. p \in Psn /\ p \notin s.rtxQueue /\ p < s.highest
  BY FieldTypes DEF Shape, Records
<1>2. d \in SrcState /\ Size(s, p) = Size(d, p)
  BY DEF Shape, Size
<1> DEFINE r == [d2 EXCEPT !.rtxQueue = @ \cup {p}]
<1>3. r = [[[d EXCEPT !.inFlight = d.inFlight - Size(d, p)]
               EXCEPT !.cwnd = w] EXCEPT !.rtxQueue = d.rtxQueue \cup {p}]
  <2> DEFINE i == d.inFlight - Size(d, p)
  <2>1. d2 = [[d EXCEPT !.inFlight = i] EXCEPT !.cwnd = w]
    BY <1>2 DEF SrcState
  <2> HIDE DEF i
  <2>2. d2.rtxQueue = d.rtxQueue
    BY <1>2, <2>1 DEF SrcState
  <2> QED
    BY <2>1, <2>2 DEF i
<1>4. t = SendIfPermitted(r, free)
  BY DEF QueueForRtx
<1> HIDE DEF r
<1>5. Shape(r, R) /\ Keeps(d, r)
  BY <1>1, <1>3, RequeueKeeps
<1>6. Shape(t, R) /\ Keeps(r, t)
  BY <1>4, <1>5, SendIfPermittedKeeps
<1> QED
  BY <1>5, <1>6, KeepsTwice

\* A NACK.
LEMMA ProcessNackSound ==
    ASSUME NEW R, NEW s, Sound(s, R), NEW p \in Psn, NEW w \in Nat,
           NEW free \in BOOLEAN, NEW t, t = ProcessNack(s, p, w, free)
    PROVE  Sound(t, R) /\ Follows(s, t)
<1> DEFINE d  == DropRecords(s, {p})
           s1 == [d EXCEPT !.cwnd = w, !.inFlight = @ - Size(s, p)]
           s2 == QueueForRtx(s1, p, free)
<1>1. t = IF p \notin s.tx THEN s
          ELSE IF s.sentAt[p] = s.rtoSendTime THEN RecalculateRTO(s2)
          ELSE s2
  BY DEF ProcessNack
<1>2. /\ d = DropRecords(s, {p}) /\ s2 = QueueForRtx(s1, p, free)
      /\ s1 = [d EXCEPT !.cwnd = w, !.inFlight = @ - Size(s, p)]
  OBVIOUS
<1> HIDE DEF d, s1, s2
<1>3. CASE p \notin s.tx
  BY <1>1, <1>3 DEF Follows
<1>4. CASE p \in s.tx
  <2>1. ~s.done /\ TimerOK(s) /\ Shape(s, R)
    BY <1>4 DEF Sound, Over
  <2>2. Shape(s, R \cup {p})
    BY <2>1, ShapeMono
  <2>3. /\ Shape(d, R \cup {p}) /\ Gap(d) = Gap(s)
        /\ d.started = s.started /\ d.done = s.done /\ d.rts = s.rts
        /\ d.tx = s.tx \ {p} /\ d.rtxQueue = s.rtxQueue
        /\ d.highest = s.highest
        /\ \A q \in d.tx : d.sentAt[q] = s.sentAt[q]
        /\ d.rtoPending = s.rtoPending /\ d.rtoSendTime = s.rtoSendTime
    BY <1>2, <2>2, DropRecordsKeeps
  <2>4. Shape(s2, R) /\ Keeps(d, s2)
    BY <1>2, <1>4, <2>1, <2>3, RequeueRecord
  <2>5. CASE s.sentAt[p] = s.rtoSendTime
    <3>1. Shape(t, R) /\ Keeps(s2, t) /\ TimerOK(t)
      BY <1>1, <1>4, <2>4, <2>5, RecalculateRTOKeeps
    <3> QED
      BY <2>1, <2>3, <2>4, <3>1, KeepsSound DEF Keeps
  <2>6. CASE s.sentAt[p] # s.rtoSendTime
    <3>1. t = s2
      BY <1>1, <1>4, <2>6
    <3>2. TimerOK(d)
      BY <1>4, <2>1, <2>3, <2>6 DEF TimerOK
    <3> QED
      BY <2>1, <2>3, <2>4, <3>1, <3>2, KeepsSound DEF Keeps
  <2> QED
    BY <2>5, <2>6
<1> QED
  BY <1>3, <1>4

\* The oldest entry of _send_times belongs to an outstanding packet.
LEMMA OldestOutstanding ==
    ASSUME NEW s \in SrcState, Stamped(s), s.sendTimes # {}, NEW first,
           first = CHOOSE e \in s.sendTimes : \A f \in s.sendTimes : e[1] <= f[1]
    PROVE  first[2] \in s.tx
<1>1. s.sendTimes \in SUBSET (Nat \X Psn)
  BY DEF SrcState
<1> DEFINE T == {e[1] : e \in s.sendTimes}
<1>2. T \in SUBSET Nat /\ T # {}
  BY <1>1
<1>3. PICK x \in T : \A y \in T : x <= y
  <2> HIDE DEF T
  <2> QED
    BY <1>2, LeastNat
<1>4. \E e \in s.sendTimes : \A f \in s.sendTimes : e[1] <= f[1]
  <2>1. PICK e \in s.sendTimes : x = e[1]
    OBVIOUS
  <2>2. \A f \in s.sendTimes : f[1] \in T
    OBVIOUS
  <2> HIDE DEF T
  <2> QED
    BY <1>3, <2>1, <2>2
<1>5. first \in s.sendTimes
  BY <1>4
<1>6. PICK p \in s.tx : first = <<s.sentAt[p], p>>
  BY <1>5 DEF Stamped
<1>7. <<s.sentAt[p], p>>[2] = p
  OBVIOUS
<1> QED
  BY <1>6, <1>7, ZenonT(60)

\* First steps of the timeout handler.
TimerOff(s) == [s EXCEPT !.rtoPending = FALSE]

GivenUp(s, p) == MarkForRetransmission(RecalculateRTO(DropRecords(TimerOff(s), {p})), p)

\* Before the timeout handler looks further: the timer is off, the oldest
\* packet is queued again and the timer runs for the next one.
LEMMA ExpiryKeeps ==
    ASSUME NEW R, NEW s, Shape(s, R), NEW p \in s.tx, NEW free \in BOOLEAN,
           NEW t, t = QueueForRtx(GivenUp(s, p), p, free)
    PROVE  /\ Shape(t, R) /\ Gap(t) = Gap(s) /\ TimerOK(t)
           /\ t.started = s.started /\ t.done = s.done /\ t.rts = s.rts
           /\ \A q \in Psn : q < s.highest => q < t.highest
<1> DEFINE s0 == TimerOff(s)
           d  == DropRecords(s0, {p})
           r  == RecalculateRTO(d)
           s1 == MarkForRetransmission(r, p)
<1>0. /\ s0 = TimerOff(s) /\ d = DropRecords(s0, {p}) /\ r = RecalculateRTO(d)
      /\ s1 = MarkForRetransmission(r, p) /\ t = QueueForRtx(s1, p, free)
  BY DEF GivenUp
<1> HIDE DEF s0, d, r, s1
<1>1. s \in SrcState /\ p \in Psn
  BY FieldTypes DEF Shape
<1>2. /\ s0 \in SrcState
      /\ s0.rtxQueue = s.rtxQueue /\ s0.inFlight = s.inFlight
      /\ s0.highest = s.highest /\ s0.backlog = s.backlog
      /\ s0.started = s.started /\ s0.done = s.done
      /\ s0.tx = s.tx /\ s0.sentAt = s.sentAt /\ s0.sendTimes = s.sendTimes
      /\ s0.clock = s.clock /\ s0.rts = s.rts /\ s0.recvd = s.recvd
      /\ s0.blocked = s.blocked /\ s0.regs = s.regs /\ s0.out = s.out
  BY <1>0, <1>1 DEF SrcState, TimerOff
<1>3. Shape(s0, R \cup {p})
  <2>1. Records(s0) /\ Conserved(s0) /\ Covered(s0, R \cup {p})
    BY <1>2 DEF Shape, Records, Stamped, Conserved, Covered
  <2>2. (\A x \in s0.out : Genuine(s0, x)) /\ (s0.blocked => s0.regs > 0)
    BY <1>2 DEF Shape, Genuine, Size
  <2> QED
    BY <1>2, <2>1, <2>2 DEF Shape
<1>4. Gap(s0) = Gap(s)
  BY <1>2 DEF Gap, Bytes
<1>5. /\ Shape(d, R \cup {p}) /\ Gap(d) = Gap(s0)
      /\ d.started = s0.started /\ d.done = s0.done /\ d.rts = s0.rts
      /\ d.tx = s0.tx \ {p} /\ d.rtxQueue = s0.rtxQueue
      /\ d.highest = s0.highest
  BY <1>0, <1>1, <1>3, DropRecordsKeeps
<1>6. /\ Shape(r, R \cup {p}) /\ Keeps(d, r) /\ Shrinks(d, r) /\ TimerOK(r)
  BY <1>0, <1>5, RecalculateRTOKeeps
<1>7. r \in SrcState /\ r.rts = s.rts /\ r.highest = s.highest
      /\ p \notin r.tx /\ p \notin r.rtxQueue /\ p < r.highest
  <2>1. r \in SrcState /\ r.rts = s.rts /\ r.highest = s.highest
    BY <1>2, <1>5, <1>6 DEF Shape, Keeps, Shrinks
  <2>2. r.tx \subseteq s.tx \ {p} /\ r.rtxQueue \subseteq s.rtxQueue
    BY <1>2, <1>5, <1>6 DEF Shrinks
  <2>3. p \notin s.rtxQueue /\ p < s.highest
    BY DEF Shape, Records
  <2> QED
    BY <2>1, <2>2, <2>3
<1>8. Size(r, p) \in Nat /\ r.cwnd \in Nat /\ Mtu \in Nat
  BY <1>1, <1>7, BytesOne, FieldTypes
<1> DEFINE w == Max({r.cwnd - Size(r, p), Mtu})
           i == r.inFlight - Size(r, p)
           q == [s1 EXCEPT !.rtxQueue = @ \cup {p}]
<1>9. w \in Nat
  <2> DEFINE j == r.cwnd - Size(r, p)
  <2>1. j \in Int /\ w = Max({j, Mtu})
    BY <1>8
  <2> HIDE DEF j, w
  <2> QED
    BY <1>8, <2>1, MaxTwo
<1>10. s1 = [[r EXCEPT !.inFlight = i] EXCEPT !.cwnd = w]
  <2>1. s1 = [r EXCEPT !.inFlight = i, !.cwnd = w]
    BY <1>0, <1>7 DEF MarkForRetransmission, SrcState
  <2> HIDE DEF i, w
  <2> QED
    BY <1>7, <2>1 DEF SrcState
<1>11. t = SendIfPermitted(q, free)
  BY <1>0 DEF QueueForRtx
<1> HIDE DEF w
<1>12. q = [[[r EXCEPT !.inFlight = r.inFlight - Size(r, p)]
                EXCEPT !.cwnd = w] EXCEPT !.rtxQueue = r.rtxQueue \cup {p}]
  <2> HIDE DEF i
  <2>1. s1.rtxQueue = r.rtxQueue
    BY <1>7, <1>10 DEF SrcState
  <2> QED
    BY <1>10, <2>1 DEF i
<1> HIDE DEF q
<1>13. Shape(q, R) /\ Keeps(r, q)
  BY <1>1, <1>6, <1>7, <1>9, <1>12, RequeueKeeps
<1>14. Shape(t, R) /\ Keeps(q, t)
  BY <1>11, <1>13, SendIfPermittedKeeps
<1>15. Keeps(d, t)
  BY <1>6, <1>13, <1>14, KeepsTwice
<1> QED
  BY <1>2, <1>4, <1>5, <1>6, <1>13, <1>14, <1>15 DEF Keeps

\* The timeout handler.
LEMMA RtxTimerExpiredSound ==
    ASSUME NEW R, NEW s, Sound(s, R), s.rtoPending, NEW free \in BOOLEAN,
           NEW rtsDue \in BOOLEAN, rtsDue => Cardinality(s.rts) < MaxRts,
           NEW t, t = RtxTimerExpired(s, free, rtsDue)
    PROVE  Sound(t, R) /\ Follows(s, t)
<1>1. Shape(s, R) /\ s \in SrcState /\ Stamped(s) /\ ~s.done
      /\ s.started /\ Gap(s) = 0 /\ s.tx # {}
  BY DEF Sound, Shape, Records, Over, TimerOK
<1>2. s.sendTimes # {}
  BY <1>1 DEF Stamped
<1> DEFINE first == CHOOSE e \in s.sendTimes : \A f \in s.sendTimes : e[1] <= f[1]
           p  == first[2]
           s2 == QueueForRtx(GivenUp(s, p), p, free)
<1>3. \/ t = s2
      \/ rtsDue /\ t = SendRTS(s2)
      \/ t = RequestSending(s2)
  BY <1>2, ZenonT(60) DEF RtxTimerExpired, GivenUp, TimerOff
<1>4. p \in s.tx
  BY <1>1, <1>2, OldestOutstanding
<1>5. s2 = QueueForRtx(GivenUp(s, p), p, free)
  OBVIOUS
<1> HIDE DEF p, s2
<1>6. /\ Shape(s2, R) /\ Gap(s2) = Gap(s) /\ TimerOK(s2)
      /\ s2.started = s.started /\ s2.done = s.done /\ s2.rts = s.rts
      /\ \A q \in Psn : q < s.highest => q < s2.highest
  <2> HIDE DEF first
  <2>1. Shape(s, R)
    BY <1>1
  <2> QED
    BY <1>4, <1>5, <2>1, ExpiryKeeps
<1>7. CASE t = s2
  BY <1>1, <1>6, <1>7 DEF Sound, Follows
<1>8. CASE rtsDue /\ t = SendRTS(s2)
  <2>1. /\ Shape(t, R) /\ Gap(t) = Gap(s2) /\ (TimerOK(s2) => TimerOK(t))
        /\ t.started = s2.started /\ t.done = s2.done
        /\ t.rts = s2.rts \cup {s2.highest}
        /\ \A q \in Psn : q < s2.highest => q < t.highest
    BY <1>6, <1>8, SendRTSKeeps
  <2>2. \A q \in Psn : q < s2.highest => q # s2.highest
    BY <1>6, FieldTypes DEF Shape, Psn
  <2> QED
    BY <1>1, <1>6, <2>1, <2>2 DEF Sound, Follows
<1>9. CASE t = RequestSending(s2)
  <2>1. Shape(t, R) /\ Keeps(s2, t)
    BY <1>6, <1>9, RequestSendingKeeps
  <2> QED
    BY <1>1, <1>6, <2>1 DEF Sound, Follows, Keeps
<1> QED
  BY <1>3, <1>7, <1>8, <1>9

\* The end of a handler: what it sent leaves the record.
LEMMA CompleteSound ==
    ASSUME NEW R, NEW s, Sound(s, R), NEW t, t = [s EXCEPT !.out = {}]
    PROVE  Sound(t, R) /\ Follows(s, t) /\ t.out = {}
<1>1. /\ t \in SrcState
      /\ t.rtxQueue = s.rtxQueue /\ t.inFlight = s.inFlight
      /\ t.highest = s.highest /\ t.backlog = s.backlog
      /\ t.copies = s.copies
      /\ t.started = s.started /\ t.done = s.done
      /\ t.tx = s.tx /\ t.sentAt = s.sentAt /\ t.sendTimes = s.sendTimes
      /\ t.clock = s.clock /\ t.rts = s.rts /\ t.recvd = s.recvd
      /\ t.blocked = s.blocked /\ t.regs = s.regs /\ t.out = {}
      /\ t.rtoPending = s.rtoPending /\ t.rtoSendTime = s.rtoSendTime
  BY DEF Sound, Shape, SrcState
<1>2. Records(t) /\ Conserved(t) /\ Covered(t, R) /\ (t.blocked => t.regs > 0)
  BY <1>1 DEF Sound, Shape, Records, Stamped, Conserved, Covered
<1>3. Shape(t, R)
  BY <1>1, <1>2 DEF Shape
<1>4. Gap(t) = Gap(s) /\ TimerOK(t)
  BY <1>1 DEF Sound, Gap, Bytes, TimerOK
<1> QED
  BY <1>1, <1>3, <1>4 DEF Sound, Over, Follows
-----------------------------------------------------------------------------
(* How far a handler moves the sender: at most one new psn, and completion  *)
(* without one.                                                            *)

Advancing(s) ==
    /\ s = [x \in DOMAIN s |-> s[x]]
    /\ {"highest", "done", "rtxQueue"} \subseteq DOMAIN s

Stays(s, t) == Advancing(t) /\ t.highest = s.highest /\ t.done = s.done

Advances(s, t) ==
    /\ Advancing(t) /\ t.done = s.done
    /\ t.highest = s.highest \/ t.highest = s.highest + 1

\* The bookkeeping of records and timers takes no psn.
LEMMA RecordsStay ==
    ASSUME NEW s, Advancing(s)
    PROVE  /\ \A now : Stays(s, StartRTO(s, now))
           /\ \A p : Stays(s, CreateSendRecord(s, p))
           /\ Stays(s, RecalculateRTO(s))
           /\ \A A : Stays(s, DropRecords(s, A)) /\ Stays(s, Unqueue(s, A))
           /\ \A p : Stays(s, MarkForRetransmission(s, p))
           /\ \A n : Stays(s, CountReceived(s, n))
<1>1. \A now : Stays(s, StartRTO(s, now))
  BY DEF Advancing, Stays, StartRTO
<1>2. ASSUME NEW p PROVE Stays(s, CreateSendRecord(s, p))
  <2> DEFINE now == s.clock + 1
             tx == s.tx \cup {p}
             times == (s.sendTimes \ {<<s.sentAt[p], p>>}) \cup {<<now, p>>}
             at == [s.sentAt EXCEPT ![p] = now]
             copies == [s.copies EXCEPT ![p] = @ + 1]
  <2>1. CreateSendRecord(s, p) = [s EXCEPT !.clock = now, !.tx = tx, !.sentAt = at,
                                           !.sendTimes = times, !.copies = copies]
    BY DEF CreateSendRecord
  <2> HIDE DEF now, tx, times, at, copies
  <2> QED
    BY <2>1 DEF Advancing, Stays
<1>3. Stays(s, RecalculateRTO(s))
  BY DEF Advancing, Stays, RecalculateRTO
<1>4. \A A : Stays(s, DropRecords(s, A))
  BY DEF Advancing, Stays, DropRecords
<1>5. \A A : Stays(s, Unqueue(s, A))
  BY DEF Advancing, Stays, Unqueue
<1>6. \A p : Stays(s, MarkForRetransmission(s, p))
  BY DEF Advancing, Stays, MarkForRetransmission
<1>7. \A n : Stays(s, CountReceived(s, n))
  BY DEF Advancing, Stays, CountReceived
<1> QED
  BY <1>1, <1>2, <1>3, <1>4, <1>5, <1>6, <1>7

\* A handler that stays, and goes on from there.
LEMMA StaysThen ==
    ASSUME NEW s, NEW t, NEW u, Stays(s, t)
    PROVE  /\ Advancing(t)
           /\ Stays(t, u) => Stays(s, u)
           /\ Advances(t, u) => Advances(s, u)
BY DEF Stays, Advances

\* What acknowledges packets takes no psn.
LEMMA AcknowledgedStays ==
    ASSUME NEW s, Advancing(s)
    PROVE  /\ \A A : Stays(s, EraseRecords(s, A))
           /\ \A cum : Stays(s, HandleCumulativeAck(s, cum))
           /\ \A sacks : Stays(s, HandleAckno(s, sacks))
<1>1. ASSUME NEW t, Advancing(t), NEW A PROVE Stays(t, EraseRecords(t, A))
  <2>1. Stays(t, DropRecords(t, A))
    BY <1>1, RecordsStay
  <2>2. Stays(DropRecords(t, A), RecalculateRTO(DropRecords(t, A)))
    BY <2>1, StaysThen, RecordsStay
  <2>3. Stays(t, RecalculateRTO(DropRecords(t, A)))
    BY <2>1, <2>2, StaysThen
  <2> QED
    BY <2>1, <2>3 DEF EraseRecords
<1>2. ASSUME NEW A, NEW B PROVE Stays(s, EraseRecords(Unqueue(s, A), B))
  <2>1. Stays(s, Unqueue(s, A))
    BY RecordsStay
  <2>2. Stays(Unqueue(s, A), EraseRecords(Unqueue(s, A), B))
    BY <2>1, <1>1, StaysThen
  <2> QED
    BY <2>1, <2>2, StaysThen
<1>3. ASSUME NEW cum PROVE Stays(s, HandleCumulativeAck(s, cum))
  BY <1>2 DEF HandleCumulativeAck
<1>4. ASSUME NEW sacks PROVE Stays(s, HandleAckno(s, sacks))
  BY <1>2 DEF HandleAckno
<1> QED
  BY <1>1, <1>3, <1>4

\* Taking the front of the retransmission queue takes no psn, new data one.
LEMMA SendingAdvances ==
    ASSUME NEW s, Advancing(s)
    PROVE  /\ Stays(s, SendRtxPacket(s)) /\ Advances(s, SendNewPacket(s))
           /\ Advances(s, SendRTS(s)) /\ SendRTS(s).highest = s.highest + 1
           /\ Stays(s, RequestSending(s)) /\ Stays(s, BlockOnNic(s))
<1>1. Stays(s, SendRtxPacket(s))
  <2> DEFINE p == Min(s.rtxQueue)
             a == [s EXCEPT !.rtxQueue = @ \ {p}, !.inFlight = @ + Size(s, p)]
             b == CreateSendRecord(a, p)
             c == [b EXCEPT !.out = @ \cup {DataPacket(b, p, TRUE)}]
  <2>1. Stays(s, a)
    BY DEF Advancing, Stays
  <2>2. Stays(a, b)
    BY <2>1, RecordsStay, StaysThen
  <2> HIDE DEF a
  <2>3. Stays(b, c)
    BY <2>2 DEF Advancing, Stays
  <2>4. Stays(c, StartRTO(c, b.clock))
    BY <2>3, RecordsStay, StaysThen
  <2>5. SendRtxPacket(s) = StartRTO(c, b.clock)
    BY DEF SendRtxPacket, a
  <2> HIDE DEF b, c
  <2> QED
    BY <2>1, <2>2, <2>3, <2>4, <2>5, StaysThen
<1>2. Advances(s, SendNewPacket(s))
  <2> DEFINE p == s.highest
             a == [s EXCEPT !.backlog = @ - 1, !.inFlight = @ + Mtu, !.highest = @ + 1]
             b == CreateSendRecord(a, p)
             ar == b.backlog = 0 \/ b.inFlight + Mtu >= s.cwnd
             c == [b EXCEPT !.out = @ \cup {DataPacket(b, p, ar)}]
  <2>1. Advancing(a) /\ a.highest = s.highest + 1 /\ a.done = s.done
    BY DEF Advancing
  <2>2. Stays(a, b)
    BY <2>1, RecordsStay
  <2> HIDE DEF a
  <2>3. Stays(b, c)
    BY <2>2 DEF Advancing, Stays
  <2>4. Stays(c, StartRTO(c, b.clock))
    BY <2>3, RecordsStay, StaysThen
  <2>5. SendNewPacket(s) = StartRTO(c, b.clock)
    BY DEF SendNewPacket, a
  <2> HIDE DEF b, c
  <2> QED
    BY <2>1, <2>2, <2>3, <2>4, <2>5 DEF Stays, Advances
<1>3. Advances(s, SendRTS(s)) /\ SendRTS(s).highest = s.highest + 1
  <2> DEFINE p == s.highest
             a == [s EXCEPT !.rts = @ \cup {p}, !.highest = @ + 1]
             b == CreateSendRecord(a, p)
             c == [b EXCEPT !.out = @ \cup {[type |-> "RTS", psn |-> p]}]
  <2>1. Advancing(a) /\ a.highest = s.highest + 1 /\ a.done = s.done
    BY DEF Advancing
  <2>2. Stays(a, b)
    BY <2>1, RecordsStay
  <2> HIDE DEF a
  <2>3. Stays(b, c)
    BY <2>2 DEF Advancing, Stays
  <2>4. Stays(c, StartRTO(c, b.clock))
    BY <2>3, RecordsStay, StaysThen
  <2>5. SendRTS(s) = StartRTO(c, b.clock)
    BY DEF SendRTS, a
  <2> HIDE DEF b, c
  <2> QED
    BY <2>1, <2>2, <2>3, <2>4, <2>5 DEF Stays, Advances
<1>4. Stays(s, RequestSending(s)) /\ Stays(s, BlockOnNic(s))
  BY DEF Advancing, Stays, RequestSending, BlockOnNic
<1> QED
  BY <1>1, <1>2, <1>3, <1>4

\* Whatever is permitted, one packet leaves at once at most, and it is no new
\* one while packets wait to be repeated.
LEMMA PermittedAdvances ==
    ASSUME NEW s, Advancing(s), NEW free
    PROVE  /\ Advances(s, SendIfPermitted(s, free))
           /\ s.rtxQueue # {} => Stays(s, SendIfPermitted(s, free))
<1>1. Stays(s, s)
  BY DEF Stays
<1>2. \A t : Stays(s, t) => Advances(s, t)
  BY DEF Stays, Advances
<1>3. /\ Advances(s, SendPacket(s))
      /\ s.rtxQueue # {} => Stays(s, SendPacket(s))
  BY <1>2, SendingAdvances DEF SendPacket
<1>4. /\ Stays(s, BlockOnNic(s))
      /\ Stays(SendPacket(s), BlockOnNic(SendPacket(s)))
  BY <1>3, SendingAdvances DEF Advances
<1>5. /\ Advances(s, BlockOnNic(SendPacket(s)))
      /\ s.rtxQueue # {} => Stays(s, BlockOnNic(SendPacket(s)))
  BY <1>3, <1>4 DEF Stays, Advances
<1> QED
  BY <1>1, <1>2, <1>3, <1>4, <1>5 DEF SendIfPermitted

\* Every handler of the sender takes one psn at most; only an ACK completes
\* the flow, and then it takes none.
LEMMA HandlersAdvance ==
    ASSUME NEW s, Advancing(s), NEW free
    PROVE  /\ Advances(s, StartFlowOn(s, free))
           /\ Advances(s, TimeToSendOn(s))
           /\ \A p, w : Advances(s, ProcessNack(s, p, w, free))
           /\ \A due : Advances(s, RtxTimerExpired(s, free, due))
           /\ \A m, w : LET t == ProcessAck(s, m, w, free)
                        IN  \/ Advances(s, t)
                            \/ Advancing(t) /\ t.highest = s.highest /\ t.done = TRUE
<1>0. \A t, u : Stays(t, u) => Advances(t, u) /\ Advancing(u)
  BY DEF Stays, Advances
<1>1. Advances(s, StartFlowOn(s, free))
  <2> DEFINE s0 == [s EXCEPT !.started = TRUE, !.backlog = NData]
             s1 == IF free THEN SendNewPacket(s0) ELSE s0
  <2>1. Stays(s, s0) /\ Advancing(s0)
    BY DEF Advancing, Stays
  <2> HIDE DEF s0
  <2>2. Advances(s0, SendNewPacket(s0)) /\ Advances(s0, s0)
    BY <2>1, <1>0, SendingAdvances DEF Stays
  <2>3. Advances(s0, s1)
    BY <2>2
  <2> HIDE DEF s1
  <2>4. Stays(s1, BlockOnNic(s1))
    BY <2>3, SendingAdvances DEF Advances
  <2>5. Advances(s0, BlockOnNic(s1))
    BY <2>3, <2>4 DEF Stays, Advances
  <2>6. StartFlowOn(s, free) = IF s1.backlog > 0 THEN BlockOnNic(s1) ELSE s1
    BY DEF StartFlowOn, s1, s0
  <2>7. Advances(s, s1) /\ Advances(s, BlockOnNic(s1))
    BY <2>1, <2>3, <2>5, StaysThen
  <2> QED
    BY <2>6, <2>7
<1>2. Advances(s, TimeToSendOn(s))
  <2> DEFINE s0 == [s EXCEPT !.blocked = FALSE, !.regs = @ - 1]
             s1 == SendPacket(s0)
  <2>1. Stays(s, s0) /\ Advancing(s0)
    BY DEF Advancing, Stays
  <2> HIDE DEF s0
  <2>2. Advances(s0, s1)
    BY <2>1, <1>0, SendingAdvances DEF SendPacket
  <2> HIDE DEF s1
  <2>3. Stays(s1, BlockOnNic(s1))
    BY <2>2, SendingAdvances DEF Advances
  <2>4. Advances(s0, BlockOnNic(s1))
    BY <2>2, <2>3 DEF Stays, Advances
  <2>5. TimeToSendOn(s) = IF ~CanSendNSCC(s0) THEN s0
                          ELSE IF CanSendNSCC(s1) THEN BlockOnNic(s1) ELSE s1
    BY DEF TimeToSendOn, s1, s0
  <2>6. Advances(s, s0) /\ Advances(s, s1) /\ Advances(s, BlockOnNic(s1))
    BY <2>1, <2>2, <2>4, <1>0, StaysThen
  <2> QED
    BY <2>5, <2>6
<1>3. ASSUME NEW t, Stays(s, t), NEW p
      PROVE  Stays(s, QueueForRtx(t, p, free))
  <2> DEFINE u == [t EXCEPT !.rtxQueue = @ \cup {p}]
  <2>1. Stays(t, u)
    BY <1>3 DEF Advancing, Stays
  <2>2. u.rtxQueue # {} /\ Advancing(u)
    BY <1>3, <2>1, <1>0 DEF Advancing
  <2>3. QueueForRtx(t, p, free) = SendIfPermitted(u, free)
    BY DEF QueueForRtx
  <2> HIDE DEF u
  <2>4. Stays(u, SendIfPermitted(u, free))
    BY <2>2, PermittedAdvances
  <2> QED
    BY <1>3, <2>1, <2>3, <2>4, StaysThen
<1>4. ASSUME NEW p, NEW w PROVE Advances(s, ProcessNack(s, p, w, free))
  <2> DEFINE d == DropRecords(s, {p})
             s1 == [d EXCEPT !.cwnd = w, !.inFlight = @ - Size(s, p)]
             s2 == QueueForRtx(s1, p, free)
  <2>1. Stays(s, d)
    BY RecordsStay
  <2> HIDE DEF d
  <2>2. Stays(d, s1)
    BY <2>1 DEF Advancing, Stays
  <2> HIDE DEF s1
  <2>3. Stays(s, s2)
    BY <1>3, <2>1, <2>2, StaysThen
  <2> HIDE DEF s2
  <2>4. Stays(s, RecalculateRTO(s2))
    BY <2>3, RecordsStay, StaysThen
  <2>5. Stays(s, s)
    BY DEF Stays
  <2>6. ProcessNack(s, p, w, free) = IF p \notin s.tx THEN s
                                     ELSE IF s.sentAt[p] = s.rtoSendTime THEN RecalculateRTO(s2)
                                     ELSE s2
    BY DEF ProcessNack, s2, s1, d
  <2> QED
    BY <1>0, <2>3, <2>4, <2>5, <2>6
<1>5. ASSUME NEW due PROVE Advances(s, RtxTimerExpired(s, free, due))
  <2> DEFINE s0 == [s EXCEPT !.rtoPending = FALSE]
             first == CHOOSE e \in s.sendTimes : \A f \in s.sendTimes : e[1] <= f[1]
             p == first[2]
             d == RecalculateRTO(DropRecords(s0, {p}))
             s1 == MarkForRetransmission(d, p)
             s2 == QueueForRtx(s1, p, free)
  <2>0. RtxTimerExpired(s, free, due) =
          IF s.sendTimes = {} THEN s0
          ELSE IF s1.rtxQueue # {} THEN s2
          ELSE IF s2.cwnd < Size(s, p) + s2.inFlight
          THEN IF due THEN SendRTS(s2) ELSE s2
          ELSE RequestSending(s2)
    BY DEF RtxTimerExpired
  <2>1. Stays(s, s0)
    BY DEF Advancing, Stays
  <2> HIDE DEF s0, first, p
  <2>2. Stays(s, DropRecords(s0, {p}))
    BY <2>1, RecordsStay, StaysThen
  <2>3. Stays(s, d)
    BY <2>2, RecordsStay, StaysThen
  <2> HIDE DEF d
  <2>4. Stays(s, s1)
    BY <2>3, RecordsStay, StaysThen
  <2> HIDE DEF s1
  <2>5. Stays(s, s2)
    BY <1>3, <2>4
  <2> HIDE DEF s2
  <2>6. Advances(s, SendRTS(s2)) /\ Stays(s, RequestSending(s2))
    BY <2>5, SendingAdvances, StaysThen
  <2> QED
    BY <1>0, <2>0, <2>1, <2>5, <2>6
<1>6. ASSUME NEW m, NEW w, NEW t, t = ProcessAck(s, m, w, free)
      PROVE  \/ Advances(s, t)
             \/ Advancing(t) /\ t.highest = s.highest /\ t.done = TRUE
  <2> DEFINE a == CountReceived(s, m.recvd)
             b == HandleCumulativeAck(a, m.cum)
             c == HandleAckno(b, m.sacks)
             s2 == [c EXCEPT !.cwnd = w]
  <2>0. t = IF Finished(s2, m.cum)
            THEN IF s2.done THEN s2 ELSE FinishFlow(s2)
            ELSE SendIfPermitted(s2, free)
    BY <1>6 DEF ProcessAck
  <2>1. Stays(s, a)
    BY RecordsStay
  <2> HIDE DEF a
  <2>2. Stays(s, b)
    BY <2>1, AcknowledgedStays, StaysThen
  <2> HIDE DEF b
  <2>3. Stays(s, c)
    BY <2>2, AcknowledgedStays, StaysThen
  <2> HIDE DEF c
  <2>4. Stays(c, s2)
    BY <2>3 DEF Advancing, Stays
  <2> HIDE DEF s2
  <2>5. Stays(s, s2)
    BY <2>3, <2>4, StaysThen
  <2>6. Advances(s, SendIfPermitted(s2, free))
    BY <2>5, PermittedAdvances, StaysThen
  <2>7. /\ Advancing(FinishFlow(s2)) /\ FinishFlow(s2).highest = s2.highest
        /\ FinishFlow(s2).done = TRUE
    BY <2>5 DEF FinishFlow, Advancing, Stays
  <2> QED
    BY <1>0, <2>0, <2>5, <2>6, <2>7 DEF Stays
<1>7. ASSUME NEW m, NEW w
      PROVE  LET t == ProcessAck(s, m, w, free)
             IN  \/ Advances(s, t)
                 \/ Advancing(t) /\ t.highest = s.highest /\ t.done = TRUE
  BY <1>6, ZenonT(60)
<1> QED
  BY <1>1, <1>2, <1>4, <1>5, <1>7, ZenonT(60)

-----------------------------------------------------------------------------
(* Lemmas about the operators of UecSink: reassembly takes each packet once, forgets none, and
   every reply reports what the sink has. *)

\* The psns are finitely many, and so are those that the sink buffers.
LEMMA BufferFinite ==
    ASSUME NEW S \in SUBSET Psn
    PROVE  /\ IsFiniteSet(Psn) /\ Psn \subseteq Nat
           /\ IsFiniteSet(S) /\ Cardinality(S) \in Nat
<1>1. IsFiniteSet(Psn)
  BY FS_Interval, NDataAssumption, MaxRtsAssumption DEF Psn
<1>2. IsFiniteSet(S)
  BY <1>1, FS_Subset
<1> QED
  BY <1>1, <1>2, FS_CardinalityType DEF Psn

-----------------------------------------------------------------------------
(* What holds of the sink's record between any two method calls. *)

SinkState ==
    [expected : 0 .. (NData + MaxRts), rx : SUBSET Psn, ooo : Nat,
     ackRequest : BOOLEAN, accepted : Nat, received : Nat, recvd : Nat,
     out : SUBSET (AckMsg \cup NackMsg)]

\* A reply reports no packet that the sink lacks.
Honest(k, m) ==
    m.type = "ACK" => /\ m.cum <= k.expected
                      /\ \A q \in m.sacks : Has(k, q)

\* The next expected psn is missing, buffered psns lie beyond it and their
\* number is known.
Ordered(k) ==
    /\ \A q \in k.rx : q > k.expected
    /\ k.ooo = Cardinality(k.rx)

SinkOK(k) ==
    /\ k \in SinkState
    /\ Ordered(k)
    /\ \A m \in k.out : Honest(k, m)

\* Nothing is forgotten between k and t.
Extends(k, t) ==
    /\ k.expected <= t.expected
    /\ \A q \in Psn : Has(k, q) => Has(t, q)

\* ... and p alone is new.
Takes(k, t, p) ==
    /\ Extends(k, t)
    /\ \A q \in Psn : Has(t, q) <=> Has(k, q) \/ q = p

-----------------------------------------------------------------------------
(* Fields *)

\* The fields' types, one by one.
LEMMA SinkFieldTypes ==
    ASSUME NEW k \in SinkState
    PROVE  /\ k.expected \in Nat /\ k.expected <= NData + MaxRts
           /\ k.rx \in SUBSET Psn /\ k.rx \in SUBSET Nat
           /\ k.ooo \in Nat /\ k.ackRequest \in BOOLEAN
           /\ k.accepted \in Nat /\ k.received \in Nat /\ k.recvd \in Nat
           /\ k.out \in SUBSET (AckMsg \cup NackMsg)
           /\ NData \in Nat /\ MaxRts \in Nat /\ Mtu \in Nat /\ Hdr \in Nat
  BY NDataAssumption, MaxRtsAssumption, SizeAssumption DEF SinkState, Psn

\* Counters and flags do not matter to the order.
LEMMA SameOrder ==
    ASSUME NEW k, SinkOK(k), NEW t \in SinkState,
           t.expected = k.expected, t.rx = k.rx, t.ooo = k.ooo, t.out = k.out
    PROVE  SinkOK(t) /\ Extends(k, t) /\ Extends(t, k)
<1>1. k.expected \in Nat
  BY SinkFieldTypes DEF SinkOK
<1> QED
  BY <1>1 DEF SinkOK, Ordered, Honest, Has, Extends

\* An honest reply.
LEMMA ReplyOK ==
    ASSUME NEW k, SinkOK(k), NEW m \in AckMsg \cup NackMsg, Honest(k, m),
           NEW t, t = Reply(k, m)
    PROVE  /\ SinkOK(t) /\ Extends(k, t) /\ Extends(t, k)
           /\ t.received = k.received
<1>1. k \in SinkState /\ k.expected \in Nat
  BY SinkFieldTypes DEF SinkOK
<1>2. /\ t \in SinkState /\ t.out = k.out \cup {m}
      /\ t.expected = k.expected /\ t.rx = k.rx /\ t.ooo = k.ooo
      /\ t.received = k.received
  BY <1>1 DEF Reply, SinkState
<1> QED
  BY <1>1, <1>2 DEF SinkOK, Ordered, Honest, Has, Extends

\* Every ACK is honest.
LEMMA SackHonest ==
    ASSUME NEW k \in SinkState, NEW ref
    PROVE  Sack(k, ref) \in AckMsg /\ Honest(k, Sack(k, ref))
<1> DEFINE S == {q \in k.rx : ref <= q /\ q < ref + SackWindow}
<1>1. k.expected \in Nat /\ k.recvd \in Nat /\ k.rx \in SUBSET Psn
  BY SinkFieldTypes
<1>2. S \in SUBSET Psn /\ \A q \in S : q \in k.rx
  BY <1>1
<1>3. Sack(k, ref) = [type |-> "ACK", cum |-> k.expected, recvd |-> k.recvd, sacks |-> S]
  BY DEF Sack
<1> HIDE DEF S
<1>4. Sack(k, ref) \in AckMsg
  BY <1>1, <1>2, <1>3 DEF AckMsg
<1>5. Sack(k, ref).cum = k.expected /\ Sack(k, ref).sacks = S
  BY <1>3
<1> QED
  BY <1>1, <1>2, <1>4, <1>5 DEF Honest, Has

-----------------------------------------------------------------------------
(* Reassembly *)

\* The next expected packet moves the cumulative point to the first gap.
LEMMA AcceptInOrder ==
    ASSUME NEW k, SinkOK(k), NEW p \in Psn, p = k.expected,
           NEW t, t = Accept(k, p)
    PROVE  /\ SinkOK(t) /\ Takes(k, t, p)
           /\ t.received = k.received /\ t.recvd = k.recvd
<1> DEFINE N   == NData + MaxRts
           G   == {q \in (p + 1) .. N : q \notin k.rx}
           gap == Min(G)
           rx2 == {q \in k.rx : q > gap}
           D   == (p + 1) .. (gap - 1)
           n   == k.ooo - (gap - (p + 1))
<1>1. k \in SinkState /\ Ordered(k)
  BY DEF SinkOK
<1>2. p \in Nat /\ N \in Nat /\ p < N /\ \A q \in Psn : q \in Nat /\ q < N
  BY <1>1, SinkFieldTypes DEF Psn
<1>3. G \in SUBSET Nat /\ N \in G
  BY <1>1, <1>2, SinkFieldTypes
<1>4. gap \in G /\ \A y \in G : gap <= y
  <2> HIDE DEF G
  <2> QED
    BY <1>3, MinNat
<1>5. t = [[[k EXCEPT !.expected = gap] EXCEPT !.rx = rx2] EXCEPT !.ooo = n]
  <2>1. t = [k EXCEPT !.expected = gap, !.rx = rx2, !.ooo = n]
    BY <1>1 DEF Accept, SinkState
  <2> HIDE DEF gap, rx2, n
  <2> QED
    BY <1>1, <2>1 DEF SinkState
<1> HIDE DEF gap
<1>6. gap \in Nat /\ p < gap /\ gap <= N /\ gap \notin k.rx
  BY <1>2, <1>4
<1>7. \A q \in D : q \in k.rx
  <2> TAKE q \in D
  <2>1. q \in (p + 1) .. N /\ q < gap /\ q \in Nat
    BY <1>2, <1>6
  <2>2. q \notin G
    <3> HIDE DEF G
    <3> QED
      BY <1>4, <1>6, <2>1
  <2> QED
    BY <2>1, <2>2
<1>8. \A q \in k.rx : q \in Nat /\ q > p
  BY <1>1, SinkFieldTypes DEF Ordered
<1>9. rx2 = k.rx \ D
  <2>1. \A q \in k.rx : q > gap <=> q \notin D
    BY <1>2, <1>6, <1>8
  <2> HIDE DEF D
  <2> QED
    BY <2>1
<1>10. Cardinality(rx2) = n /\ n \in Nat /\ rx2 \in SUBSET Psn
  <2>1. IsFiniteSet(k.rx) /\ k.rx \in SUBSET Psn
    BY <1>1, SinkFieldTypes, BufferFinite
  <2>2. Cardinality(D) = gap - (p + 1)
    <3> DEFINE a == p + 1  b == gap - 1
    <3>1. a \in Int /\ b \in Int /\ D = a .. b
      BY <1>2, <1>6
    <3>2. (IF a <= b THEN b - a + 1 ELSE 0) = gap - (p + 1)
      BY <1>2, <1>6
    <3> HIDE DEF a, b, D
    <3>3. Cardinality(D) = IF a <= b THEN b - a + 1 ELSE 0
      BY <3>1, FS_Interval
    <3> QED
      BY <3>2, <3>3
  <2>3. rx2 \in SUBSET Psn /\ k.rx \cap D = D
    BY <1>7, <2>1
  <2>4. Cardinality(k.rx \ D) = Cardinality(k.rx) - Cardinality(k.rx \cap D)
    BY <2>1, FS_Difference
  <2>5. Cardinality(rx2) \in Nat
    BY <2>3, BufferFinite
  <2> HIDE DEF rx2, D
  <2> QED
    BY <1>1, <1>9, <2>2, <2>3, <2>4, <2>5 DEF Ordered
<1>11. \A q \in Nat : q < gap <=> q < p \/ q = p \/ q \in D
  BY <1>2, <1>6
<1> HIDE DEF n
<1>12. gap \in 0 .. (NData + MaxRts) /\ \A q \in rx2 : q > gap
  BY <1>2, <1>6
<1> HIDE DEF rx2, D, N, G
<1>13. /\ t \in SinkState /\ t.expected = gap /\ t.rx = rx2 /\ t.ooo = n
       /\ t.received = k.received /\ t.recvd = k.recvd /\ t.out = k.out
  BY <1>1, <1>5, <1>10, <1>12 DEF SinkState
<1>14. \A q \in Psn : Has(t, q) <=> Has(k, q) \/ q = p
  BY <1>2, <1>7, <1>8, <1>9, <1>11, <1>13 DEF Has
<1>15. Takes(k, t, p)
  BY <1>2, <1>6, <1>13, <1>14 DEF Takes, Extends
<1>16. \A m \in t.out : Honest(t, m)
  <2> TAKE m \in t.out
  <2>1. Honest(k, m) /\ m \in AckMsg \cup NackMsg
    BY <1>13 DEF SinkOK, SinkState
  <2>2. m.type = "ACK" => m.cum \in Nat /\ m.sacks \in SUBSET Psn
    BY <2>1 DEF AckMsg, NackMsg
  <2> QED
    BY <1>2, <1>6, <1>13, <1>14, <2>1, <2>2 DEF Honest
<1>17. Ordered(t)
  BY <1>10, <1>12, <1>13 DEF Ordered
<1> QED
  BY <1>13, <1>15, <1>16, <1>17 DEF SinkOK

\* A packet beyond a gap is buffered.
LEMMA AcceptOutOfOrder ==
    ASSUME NEW k, SinkOK(k), NEW p \in Psn, p # k.expected, ~Has(k, p),
           NEW t, t = Accept(k, p)
    PROVE  /\ SinkOK(t) /\ Takes(k, t, p)
           /\ t.received = k.received /\ t.recvd = k.recvd
<1> DEFINE rx2 == k.rx \cup {p}  n == k.ooo + 1
<1>1. k \in SinkState /\ Ordered(k) /\ k.expected \in Nat /\ k.rx \in SUBSET Psn
  BY SinkFieldTypes DEF SinkOK
<1>2. p \in Nat /\ p > k.expected /\ p \notin k.rx
  BY <1>1 DEF Has, Psn
<1>3. n \in Nat /\ rx2 \in SUBSET Psn /\ Cardinality(rx2) = n
  <2>1. IsFiniteSet(k.rx)
    BY <1>1, BufferFinite
  <2>2. Cardinality(rx2) = Cardinality(k.rx) + 1
    BY <1>2, <2>1, FS_AddElement
  <2>3. rx2 \in SUBSET Psn
    BY <1>1
  <2> HIDE DEF rx2
  <2> QED
    BY <1>1, <2>2, <2>3, SinkFieldTypes DEF Ordered
<1>4. t = [[k EXCEPT !.rx = rx2] EXCEPT !.ooo = n]
  BY <1>1 DEF Accept, SinkState
<1> HIDE DEF n
<1>5. /\ t \in SinkState /\ t.rx = rx2 /\ t.ooo = n /\ t.expected = k.expected
      /\ t.received = k.received /\ t.recvd = k.recvd /\ t.out = k.out
  <2> HIDE DEF rx2
  <2> QED
    BY <1>1, <1>3, <1>4 DEF SinkState
<1>6. Takes(k, t, p)
  BY <1>1, <1>2, <1>5 DEF Takes, Extends, Has
<1>7. Ordered(t)
  BY <1>1, <1>2, <1>3, <1>5 DEF Ordered
<1>8. \A m \in t.out : Honest(t, m)
  BY <1>5 DEF SinkOK, Honest, Has
<1> QED
  BY <1>5, <1>6, <1>7, <1>8 DEF SinkOK

\* Either way, the packet is taken and nothing else changes.
LEMMA AcceptTakes ==
    ASSUME NEW k, SinkOK(k), NEW p \in Psn, ~Has(k, p), NEW t, t = Accept(k, p)
    PROVE  /\ SinkOK(t) /\ Takes(k, t, p)
           /\ t.received = k.received /\ t.recvd = k.recvd
  BY AcceptInOrder, AcceptOutOfOrder

-----------------------------------------------------------------------------
(* Handlers *)

\* What counts is the packet taken, not the counters before and after it.
LEMMA TakesThrough ==
    ASSUME NEW p, NEW k \in SinkState, NEW a \in SinkState, NEW b \in SinkState,
           NEW t \in SinkState, Extends(k, a), Extends(a, k), Takes(a, b, p),
           Extends(b, t), Extends(t, b)
    PROVE  Takes(k, t, p)
<1>1. k.expected \in Nat /\ a.expected \in Nat /\ b.expected \in Nat /\ t.expected \in Nat
  BY SinkFieldTypes
<1> QED
  BY <1>1 DEF Takes, Extends

\* Resetting the ACK counter.
LEMMA ResetAcceptedOK ==
    ASSUME NEW k, SinkOK(k), NEW t, t = [k EXCEPT !.accepted = 0]
    PROVE  SinkOK(t) /\ Extends(k, t) /\ Extends(t, k) /\ t.received = k.received
<1>1. /\ t \in SinkState
      /\ t.expected = k.expected /\ t.rx = k.rx /\ t.ooo = k.ooo
      /\ t.out = k.out /\ t.received = k.received
  BY DEF SinkOK, SinkState
<1> QED
  BY <1>1, SameOrder

\* An acknowledgement of what the sink has, with the ACK counter reset.
LEMMA AcknowledgeOK ==
    ASSUME NEW k, SinkOK(k), NEW ref,
           NEW t, t = Reply([k EXCEPT !.accepted = 0], Sack(k, ref))
    PROVE  SinkOK(t) /\ Extends(k, t) /\ Extends(t, k) /\ t.received = k.received
<1> DEFINE z == [k EXCEPT !.accepted = 0]  m == Sack(k, ref)
<1>1. z = [k EXCEPT !.accepted = 0] /\ t = Reply(z, m)
  OBVIOUS
<1> HIDE DEF z
<1>2. SinkOK(z) /\ Extends(k, z) /\ Extends(z, k) /\ z.received = k.received
  BY <1>1, ResetAcceptedOK
<1>3. k \in SinkState /\ z \in SinkState
  BY <1>2 DEF SinkOK
<1>4. m \in AckMsg /\ Honest(k, m)
  BY <1>3, SackHonest
<1> HIDE DEF m
<1>5. Honest(z, m)
  <2>1. k.expected \in Nat /\ z.expected \in Nat
    BY <1>3, SinkFieldTypes
  <2>2. m.cum \in Nat /\ m.sacks \in SUBSET Psn
    BY <1>4 DEF AckMsg
  <2> QED
    BY <1>2, <1>4, <2>1, <2>2 DEF Honest, Extends
<1> HIDE DEF m
<1>6. SinkOK(t) /\ Extends(z, t) /\ Extends(t, z) /\ t.received = z.received
  <2>1. t = Reply(z, m) /\ m \in AckMsg \cup NackMsg
    BY <1>1, <1>4
  <2> QED
    BY <1>2, <1>5, <2>1, ReplyOK
<1>7. t \in SinkState
  BY <1>6 DEF SinkOK
<1> QED
  <2>1. k.expected \in Nat /\ z.expected \in Nat /\ t.expected \in Nat
    BY <1>3, <1>7, SinkFieldTypes
  <2> QED
    BY <1>2, <1>6, <2>1 DEF Extends

\* A data packet that the sink lacked.
LEMMA ProcessNewDataOK ==
    ASSUME NEW k, SinkOK(k), NEW m \in DataMsg, ~Has(k, m.psn),
           NEW ecn \in BOOLEAN, NEW t, t = ProcessNewData(k, m, ecn)
    PROVE  /\ SinkOK(t) /\ Takes(k, t, m.psn)
           /\ t.received = IF m.size = Mtu THEN k.received + 1 ELSE k.received
<1> DEFINE acc == k.accepted + m.size
           rec == IF m.size = Mtu THEN k.received + 1 ELSE k.received
           byt == k.recvd + m.size
           req == k.ackRequest \/ m.ar
           k1  == [k EXCEPT !.accepted = @ + m.size,
                            !.received = IF m.size = Mtu THEN @ + 1 ELSE @,
                            !.recvd = @ + m.size,
                            !.ackRequest = @ \/ m.ar]
           k2  == Accept(k1, m.psn)
           drained == m.psn = k.expected /\ k2.ooo = 0 /\ k2.ackRequest
           k3  == IF drained THEN [k2 EXCEPT !.ackRequest = FALSE] ELSE k2
           force == k.received = 0 \/ m.ar \/ drained
           ref == IF ecn \/ m.ar THEN m.psn ELSE SackBitmapBase(k3, m.psn)
<1>1. k \in SinkState /\ m.size \in Nat /\ m.psn \in Psn /\ m.ar \in BOOLEAN
  BY SizeAssumption DEF SinkOK, DataMsg
<1>2. acc \in Nat /\ rec \in Nat /\ byt \in Nat
  BY <1>1, SinkFieldTypes
<1>3. k1 = [[[[k EXCEPT !.accepted = acc] EXCEPT !.received = rec]
               EXCEPT !.recvd = byt] EXCEPT !.ackRequest = req]
  BY <1>1 DEF SinkState
<1>4. req \in BOOLEAN
  OBVIOUS
<1>5. t = Reply([k3 EXCEPT !.accepted = 0], Sack(k3, ref)) \/ t = k3
  BY DEF ProcessNewData
<1>6. k2 = Accept(k1, m.psn)
  OBVIOUS
<1>7. k3 = [k2 EXCEPT !.ackRequest = FALSE] \/ k3 = k2
  OBVIOUS
<1> HIDE DEF k1, k2, k3, ref, acc, rec, byt, req
<1>8. SinkOK(k1) /\ Extends(k, k1) /\ Extends(k1, k) /\ k1.received = rec
  <2> DEFINE c == [[[k EXCEPT !.accepted = acc] EXCEPT !.received = rec]
                     EXCEPT !.recvd = byt]
  <2>1. /\ c \in SinkState
        /\ c.expected = k.expected /\ c.rx = k.rx /\ c.ooo = k.ooo
        /\ c.out = k.out /\ c.received = rec
    BY <1>1, <1>2 DEF SinkState
  <2>2. k1 = [c EXCEPT !.ackRequest = req]
    BY <1>3
  <2> HIDE DEF c
  <2>3. /\ k1 \in SinkState
        /\ k1.expected = c.expected /\ k1.rx = c.rx /\ k1.ooo = c.ooo
        /\ k1.out = c.out /\ k1.received = c.received
    BY <1>4, <2>1, <2>2 DEF SinkState
  <2> QED
    BY <2>1, <2>3, SameOrder
<1>9. ~Has(k1, m.psn)
  BY <1>1, <1>8 DEF Extends
<1>10. SinkOK(k2) /\ Takes(k1, k2, m.psn) /\ k2.received = rec
  BY <1>1, <1>6, <1>8, <1>9, AcceptTakes
<1>11. SinkOK(k3) /\ Extends(k2, k3) /\ Extends(k3, k2) /\ k3.received = rec
  <2>1. CASE k3 = k2
    <3>1. k2.expected \in Nat
      BY <1>10, SinkFieldTypes DEF SinkOK
    <3> QED
      BY <1>10, <2>1, <3>1 DEF Extends
  <2>2. CASE k3 = [k2 EXCEPT !.ackRequest = FALSE]
    <3>1. /\ k3 \in SinkState
          /\ k3.expected = k2.expected /\ k3.rx = k2.rx /\ k3.ooo = k2.ooo
          /\ k3.out = k2.out /\ k3.received = k2.received
      BY <1>10, <2>2 DEF SinkOK, SinkState
    <3> QED
      BY <1>10, <3>1, SameOrder
  <2> QED
    BY <1>7, <2>1, <2>2
<1>12. SinkOK(t) /\ Extends(k3, t) /\ Extends(t, k3) /\ t.received = rec
  <2>1. CASE t = k3
    <3>1. k3.expected \in Nat
      BY <1>11, SinkFieldTypes DEF SinkOK
    <3> QED
      BY <1>11, <2>1, <3>1 DEF Extends
  <2>2. CASE t = Reply([k3 EXCEPT !.accepted = 0], Sack(k3, ref))
    BY <1>11, <2>2, AcknowledgeOK
  <2> QED
    BY <1>5, <2>1, <2>2
<1>13. Takes(k, t, m.psn)
  <2>1. k1 \in SinkState /\ k2 \in SinkState /\ k3 \in SinkState /\ t \in SinkState
    BY <1>8, <1>10, <1>11, <1>12 DEF SinkOK
  <2>2. Takes(k, k3, m.psn)
    BY <1>1, <1>8, <1>10, <1>11, <2>1, TakesThrough
  <2>3. Extends(k, k)
    <3>1. k.expected \in Nat
      BY <1>1, SinkFieldTypes
    <3> QED
      BY <3>1 DEF Extends
  <2> QED
    BY <1>1, <1>12, <2>1, <2>2, <2>3, TakesThrough
<1> QED
  BY <1>12, <1>13 DEF rec

\* A duplicate leaves the sink's packets as they are.
LEMMA ProcessDuplicateOK ==
    ASSUME NEW k, SinkOK(k), NEW p \in Psn, NEW ecn \in BOOLEAN,
           NEW t, t = ProcessDuplicate(k, p, ecn)
    PROVE  SinkOK(t) /\ Extends(k, t) /\ Extends(t, k) /\ t.received = k.received
  BY AcknowledgeOK DEF ProcessDuplicate

\* A trimmed packet is acknowledged or asked for again.
LEMMA ProcessTrimmedOK ==
    ASSUME NEW k, SinkOK(k), NEW p \in Psn, NEW t, t = ProcessTrimmed(k, p)
    PROVE  SinkOK(t) /\ Extends(k, t) /\ Extends(t, k) /\ t.received = k.received
<1>1. CASE Has(k, p)
  <2> DEFINE m == Sack(k, SackBitmapBase(k, p))
  <2>1. t = Reply(k, m)
    BY <1>1 DEF ProcessTrimmed
  <2>2. m \in AckMsg /\ Honest(k, m)
    BY SackHonest DEF SinkOK
  <2> HIDE DEF m
  <2> QED
    BY <2>1, <2>2, ReplyOK
<1>2. CASE ~Has(k, p)
  <2> DEFINE m == [type |-> "NACK", psn |-> p]
  <2>1. t = Reply(k, m)
    BY <1>2 DEF ProcessTrimmed
  <2>2. m \in NackMsg /\ Honest(k, m)
    BY DEF NackMsg, Honest
  <2> HIDE DEF m
  <2> QED
    BY <2>1, <2>2, ReplyOK
<1> QED
  BY <1>1, <1>2

\* An RTS is taken like data, but counts no bytes.
LEMMA ProcessRtsOK ==
    ASSUME NEW k, SinkOK(k), NEW p \in Psn, ~Has(k, p), NEW t, t = ProcessRts(k, p)
    PROVE  SinkOK(t) /\ Takes(k, t, p) /\ t.received = k.received
<1> DEFINE k1 == Accept(k, p)
           k2 == IF p = k.expected /\ k1.ooo = 0
                 THEN [k1 EXCEPT !.ackRequest = FALSE] ELSE k1
           m  == Sack(k2, p)
<1>1. t = Reply(k2, m) /\ k1 = Accept(k, p)
      /\ (k2 = [k1 EXCEPT !.ackRequest = FALSE] \/ k2 = k1)
  BY DEF ProcessRts
<1> HIDE DEF k1, k2
<1>2. SinkOK(k1) /\ Takes(k, k1, p) /\ k1.received = k.received
  BY <1>1, AcceptTakes
<1>3. SinkOK(k2) /\ Extends(k1, k2) /\ Extends(k2, k1) /\ k2.received = k.received
  <2>1. CASE k2 = k1
    <3>1. k1.expected \in Nat
      BY <1>2, SinkFieldTypes DEF SinkOK
    <3> QED
      BY <1>2, <2>1, <3>1 DEF Extends
  <2>2. CASE k2 = [k1 EXCEPT !.ackRequest = FALSE]
    <3>1. /\ k2 \in SinkState
          /\ k2.expected = k1.expected /\ k2.rx = k1.rx /\ k2.ooo = k1.ooo
          /\ k2.out = k1.out /\ k2.received = k1.received
      BY <1>2, <2>2 DEF SinkOK, SinkState
    <3> QED
      BY <1>2, <3>1, SameOrder
  <2> QED
    BY <1>1, <2>1, <2>2
<1>4. m \in AckMsg /\ Honest(k2, m)
  BY <1>3, SackHonest DEF SinkOK
<1> HIDE DEF m
<1>5. SinkOK(t) /\ Extends(k2, t) /\ Extends(t, k2) /\ t.received = k2.received
  BY <1>1, <1>3, <1>4, ReplyOK
<1>6. Takes(k, t, p)
  <2>1. k \in SinkState /\ k1 \in SinkState /\ k2 \in SinkState /\ t \in SinkState
    BY <1>2, <1>3, <1>5 DEF SinkOK
  <2>2. Extends(k, k)
    <3>1. k.expected \in Nat
      BY <2>1, SinkFieldTypes
    <3> QED
      BY <3>1 DEF Extends
  <2>3. Takes(k, k2, p)
    BY <1>2, <1>3, <2>1, <2>2, TakesThrough
  <2> QED
    BY <1>5, <2>1, <2>2, <2>3, TakesThrough
<1> QED
  BY <1>3, <1>5, <1>6

\* The end of a handler: its replies leave the record.
LEMMA RespondOK ==
    ASSUME NEW k, SinkOK(k), NEW t, t = [k EXCEPT !.out = {}]
    PROVE  SinkOK(t) /\ Extends(k, t) /\ Extends(t, k) /\ t.out = {}
           /\ t.received = k.received
<1>1. /\ t \in SinkState
      /\ t.expected = k.expected /\ t.rx = k.rx /\ t.ooo = k.ooo
      /\ t.received = k.received /\ t.out = {}
  BY DEF SinkOK, SinkState
<1>2. k.expected \in Nat
  BY SinkFieldTypes DEF SinkOK
<1> QED
  BY <1>1, <1>2 DEF SinkOK, Ordered, Has, Extends

-----------------------------------------------------------------------------
(* The inductive invariant, of a sender s, a receiver k and a network n. *)

Got(k) == {p \in Psn : Has(k, p)}

\* What is on the wire was sent: data by the source, acknowledgements of what
\* the sink has.
Carried(s, k, m) ==
    /\ m \in Msg
    /\ m.type \in {"DATA", "TRIM", "RTS"} => Genuine(s, m)
    /\ Honest(k, m)

Consistent(s, k, n) ==
    /\ IF s.started THEN Sound(s, Got(k)) ELSE s = InitSrc /\ n = {}
    /\ s.out = {}
    /\ SinkOK(k) /\ k.out = {}
    /\ \A p \in Psn : Has(k, p) => p < s.highest
    /\ k.received = Cardinality(Got(k) \ s.rts)
    /\ \A m \in n : Carried(s, k, m)

FlowInv == Consistent(src, snk, net)

-----------------------------------------------------------------------------
(* Steps of the sender *)

\* A packet stays genuine while the sender goes on.
LEMMA GenuineFollows ==
    ASSUME NEW s, NEW t, Follows(s, t), NEW m, m.psn \in Psn, Genuine(s, m)
    PROVE  Genuine(t, m)
  BY DEF Follows, Genuine, Size

\* The packets that carry a psn.
LEMMA PsnOfMsg ==
    ASSUME NEW m \in Msg
    PROVE  /\ m.type \in {"DATA", "TRIM", "RTS", "NACK"} => m.psn \in Psn
           /\ m.type = "DATA" => m \in DataMsg
           /\ m.type = "ACK" => m \in AckMsg
           /\ m.type \in {"DATA", "TRIM", "RTS", "ACK", "NACK"}
           /\ m \in DataMsg \cup RtsMsg => m.type \in {"DATA", "RTS"} /\ m.psn \in Psn
           /\ m \in AckMsg \cup NackMsg => m.type \in {"ACK", "NACK"}
<1>1. CASE m \in DataMsg
  BY <1>1 DEF DataMsg, RtsMsg, AckMsg, NackMsg
<1>2. CASE m \in TrimMsg
  BY <1>2 DEF TrimMsg, DataMsg, RtsMsg, AckMsg, NackMsg
<1>3. CASE m \in RtsMsg
  BY <1>3 DEF RtsMsg, DataMsg, AckMsg, NackMsg
<1>4. CASE m \in AckMsg
  BY <1>4 DEF AckMsg, DataMsg, RtsMsg, NackMsg
<1>5. CASE m \in NackMsg
  BY <1>5 DEF NackMsg, AckMsg, DataMsg, RtsMsg
<1> QED
  BY <1>1, <1>2, <1>3, <1>4, <1>5 DEF Msg

\* The end of a handler of the sender.
LEMMA SrcStep ==
    ASSUME NEW s, NEW k, NEW n, Consistent(s, k, n), NEW t, Sound(t, Got(k)),
           Follows(s, t), NEW consumed,
           NEW s2, s2 = [t EXCEPT !.out = {}],
           NEW n2, n2 = (n \ consumed) \cup t.out
    PROVE  Consistent(s2, k, n2)
<1>1. Sound(s2, Got(k)) /\ Follows(t, s2) /\ s2.out = {}
  BY CompleteSound
<1>2. s2.started
  BY <1>1 DEF Sound
<1>3. /\ SinkOK(k) /\ k.out = {}
      /\ \A p \in Psn : Has(k, p) => p < s.highest
      /\ k.received = Cardinality(Got(k) \ s.rts)
  BY DEF Consistent
<1>4. \A p \in Psn : p < s.highest => p < s2.highest /\ (p \in s2.rts <=> p \in s.rts)
  BY <1>1 DEF Follows
<1>5. Got(k) \ s.rts = Got(k) \ s2.rts
  BY <1>3, <1>4 DEF Got
<1>6. \A m \in n : Carried(s2, k, m)
  <2> TAKE m \in n
  <2>1. m \in Msg /\ Honest(k, m) /\ (m.type \in {"DATA", "TRIM", "RTS"} => Genuine(s, m))
    BY DEF Consistent, Carried
  <2>2. m.type \in {"DATA", "TRIM", "RTS"} => m.psn \in Psn
    BY <2>1, PsnOfMsg
  <2>3. m.type \in {"DATA", "TRIM", "RTS"} => Genuine(s2, m)
    BY <1>1, <2>1, <2>2, GenuineFollows
  <2> QED
    BY <2>1, <2>3 DEF Carried
<1>7. \A m \in t.out : Carried(s2, k, m)
  <2> TAKE m \in t.out
  <2>1. m \in DataMsg \cup RtsMsg /\ Genuine(t, m)
    BY FieldTypes DEF Sound, Shape
  <2>2. m \in Msg /\ m.type \in {"DATA", "RTS"} /\ m.psn \in Psn
    BY <2>1, PsnOfMsg DEF Msg
  <2>3. Genuine(s2, m)
    BY <1>1, <2>1, <2>2, GenuineFollows
  <2> QED
    BY <2>2, <2>3 DEF Carried, Honest
<1> QED
  BY <1>1, <1>2, <1>3, <1>4, <1>5, <1>6, <1>7 DEF Consistent

-----------------------------------------------------------------------------
(* Steps of the receiver *)

\* The end of a handler of the receiver, which may have taken p.
LEMMA SinkStep ==
    ASSUME NEW s, NEW k, NEW n, Consistent(s, k, n), s.started, NEW p \in Psn,
           p < s.highest, NEW t, SinkOK(t), Extends(k, t),
           \A q \in Psn : Has(t, q) => Has(k, q) \/ q = p,
           t.received = Cardinality(Got(t) \ s.rts),
           NEW m, NEW k2, k2 = [t EXCEPT !.out = {}],
           NEW n2, n2 = (n \ {m}) \cup t.out
    PROVE  Consistent(s, k2, n2)
<1>1. SinkOK(k2) /\ Extends(t, k2) /\ Extends(k2, t) /\ k2.out = {}
      /\ k2.received = t.received
  BY RespondOK
<1>2. \A q \in Psn : Has(k2, q) <=> Has(t, q)
  BY <1>1 DEF Extends
<1>3. Got(k2) = Got(t) /\ Got(k) \subseteq Got(k2)
  BY <1>2 DEF Got, Extends
<1>4. Sound(s, Got(k2)) /\ s.out = {}
  BY <1>3, ShapeMono DEF Consistent, Sound
<1>5. \A q \in Psn : Has(k2, q) => q < s.highest
  BY <1>2 DEF Consistent
<1>6. /\ k.expected \in Nat /\ t.expected \in Nat /\ k2.expected \in Nat
      /\ k.expected <= k2.expected /\ t.expected <= k2.expected
  <2>1. k \in SinkState /\ t \in SinkState /\ k2 \in SinkState
    BY <1>1 DEF Consistent, SinkOK
  <2>2. k.expected \in Nat /\ t.expected \in Nat /\ k2.expected \in Nat
    BY <2>1, SinkFieldTypes
  <2> QED
    BY <1>1, <2>2 DEF Extends
<1>7. \A x \in Msg : Honest(k, x) \/ Honest(t, x) => Honest(k2, x)
  <2> TAKE x \in Msg
  <2>1. x.type = "ACK" => x.cum \in Nat /\ x.sacks \in SUBSET Psn
    BY PsnOfMsg DEF AckMsg
  <2> QED
    BY <1>2, <1>6, <2>1 DEF Honest, Extends
<1>8. \A x \in n : Carried(s, k2, x)
  BY <1>7 DEF Consistent, Carried
<1>9. \A x \in t.out : Carried(s, k2, x)
  <2> TAKE x \in t.out
  <2>1. x \in AckMsg \cup NackMsg /\ Honest(t, x)
    BY SinkFieldTypes DEF SinkOK
  <2>2. x \in Msg /\ x.type \in {"ACK", "NACK"}
    BY <2>1, PsnOfMsg DEF Msg
  <2> QED
    BY <1>7, <2>1, <2>2 DEF Carried
<1> QED
  BY <1>1, <1>3, <1>4, <1>5, <1>8, <1>9 DEF Consistent

\* Nothing new: the count stands.
LEMMA CountSame ==
    ASSUME NEW s, NEW k, NEW n, Consistent(s, k, n), NEW t,
           Extends(k, t), Extends(t, k), t.received = k.received
    PROVE  t.received = Cardinality(Got(t) \ s.rts)
<1>1. Got(t) = Got(k)
  BY DEF Got, Extends
<1> QED
  BY <1>1 DEF Consistent

\* One packet more: it counts unless its psn was spent on an RTS.
LEMMA CountOneMore ==
    ASSUME NEW s, NEW k, NEW n, Consistent(s, k, n), NEW p \in Psn, ~Has(k, p),
           NEW t, Takes(k, t, p),
           t.received = IF p \in s.rts THEN k.received ELSE k.received + 1
    PROVE  t.received = Cardinality(Got(t) \ s.rts)
<1>1. Got(t) = Got(k) \cup {p} /\ p \notin Got(k)
  BY DEF Got, Takes
<1>2. k.received = Cardinality(Got(k) \ s.rts)
  BY DEF Consistent
<1>3. CASE p \in s.rts
  <2>1. Got(t) \ s.rts = Got(k) \ s.rts
    BY <1>1, <1>3
  <2> QED
    BY <1>2, <1>3, <2>1
<1>4. CASE p \notin s.rts
  <2> DEFINE U == Got(k) \ s.rts
  <2>1. Got(t) \ s.rts = U \cup {p} /\ p \notin U
    BY <1>1, <1>4
  <2>2. IsFiniteSet(U)
    <3>1. U \in SUBSET Psn
      BY DEF Got
    <3> QED
      BY <3>1, PsnFinite
  <2> HIDE DEF U
  <2>3. Cardinality(U \cup {p}) = Cardinality(U) + 1
    BY <2>1, <2>2, FS_AddElement
  <2>4. t.received = k.received + 1
    BY <1>4
  <2> QED
    BY <1>2, <2>1, <2>3, <2>4 DEF U
<1> QED
  BY <1>3, <1>4

-----------------------------------------------------------------------------
(* Every step keeps the invariant. *)

\* The initial state.
LEMMA InitConsistent == Init => FlowInv
<1> SUFFICES ASSUME Init PROVE FlowInv
  OBVIOUS
<1>1. src = InitSrc /\ snk = InitSink /\ net = {}
  BY DEF Init, NetInit
<1>2. ~src.started /\ src.out = {} /\ src.rts = {}
  BY <1>1 DEF InitSrc
<1>3. /\ snk.expected = 0 /\ snk.rx = {} /\ snk.ooo = 0 /\ snk.out = {}
      /\ snk.received = 0
  BY <1>1 DEF InitSink
<1>4. snk \in SinkState
  BY <1>1, NDataAssumption, MaxRtsAssumption DEF InitSink, SinkState
<1>5. Got(snk) = {}
  BY <1>3 DEF Got, Has, Psn
<1>6. Cardinality({}) = 0
  BY FS_EmptySet
<1>7. SinkOK(snk)
  BY <1>3, <1>4, <1>6 DEF SinkOK, Ordered
<1>8. snk.received = Cardinality(Got(snk) \ src.rts)
  BY <1>2, <1>3, <1>5, <1>6
<1>9. \A p \in Psn : ~Has(snk, p)
  BY <1>5 DEF Got
<1> QED
  BY <1>1, <1>2, <1>3, <1>7, <1>8, <1>9 DEF FlowInv, Consistent

\* A sender's handler that ends soundly.
LEMMA CompleteConsistent ==
    ASSUME FlowInv, UNCHANGED snk, NEW t, Sound(t, Got(snk)), Follows(src, t),
           NEW consumed, Complete(t, consumed)
    PROVE  FlowInv' /\ Follows(src, src')
<1>1. Consistent(src', snk, net')
  BY SrcStep DEF FlowInv, Complete
<1>2. Follows(t, src')
  BY CompleteSound DEF Complete
<1>3. Follows(src, src')
  BY <1>2 DEF Follows
<1> QED
  BY <1>1, <1>3 DEF FlowInv

\* The flow starts.
LEMMA StartFlowConsistent ==
    ASSUME FlowInv, StartFlow, UNCHANGED snk
    PROVE  FlowInv' /\ Follows(src, src')
<1>1. src = InitSrc
  BY DEF FlowInv, Consistent, StartFlow
<1>2. PICK free \in BOOLEAN : Complete(StartFlowOn(src, free), {})
  BY DEF StartFlow
<1> DEFINE t == StartFlowOn(src, free)
<1>3. Sound(t, Got(snk))
  BY <1>1, StartFlowSound
<1>4. Follows(src, t)
  <2> HIDE DEF t
  <2>1. ~src.done /\ src.highest = 0
    BY <1>1 DEF InitSrc
  <2> QED
    BY <2>1 DEF Follows, Psn
<1> HIDE DEF t
<1> QED
  BY <1>2, <1>3, <1>4, CompleteConsistent DEF t

\* The NIC calls back.
LEMMA TimeToSendConsistent ==
    ASSUME FlowInv, TimeToSend, UNCHANGED snk
    PROVE  FlowInv' /\ Follows(src, src')
<1> DEFINE t == TimeToSendOn(src)
<1>1. src.regs > 0 /\ Complete(t, {})
  BY DEF TimeToSend
<1>2. src.started
  <2>1. src = InitSrc => src.regs = 0
    BY DEF InitSrc
  <2> QED
    BY <1>1, <2>1 DEF FlowInv, Consistent
<1>3. Sound(src, Got(snk))
  BY <1>2 DEF FlowInv, Consistent
<1>4. t = TimeToSendOn(src)
  OBVIOUS
<1> HIDE DEF t
<1>5. Sound(t, Got(snk)) /\ Follows(src, t)
  BY <1>1, <1>3, <1>4, TimeToSendSound
<1> QED
  BY <1>1, <1>5, CompleteConsistent

\* A message in the network, and a sender that has started.
LEMMA InNetwork ==
    ASSUME FlowInv, NEW m \in net
    PROVE  /\ src.started /\ Sound(src, Got(snk)) /\ Carried(src, snk, m)
           /\ src \in SrcState /\ src.cwnd \in Nat
<1>1. src.started /\ Sound(src, Got(snk)) /\ Carried(src, snk, m)
  BY DEF FlowInv, Consistent
<1> QED
  BY <1>1, FieldTypes DEF Sound, Shape

\* An ACK arrives.
LEMMA ReceiveAckConsistent ==
    ASSUME FlowInv, ReceiveAck, UNCHANGED snk
    PROVE  FlowInv' /\ Follows(src, src')
<1>1. PICK m \in InFlight("ACK"), w \in CwndChoices \cup {src.cwnd}, free \in BOOLEAN :
        Complete(ProcessAck(src, m, w, free), {m})
  BY DEF ReceiveAck
<1> DEFINE t == ProcessAck(src, m, w, free)
<1>2. /\ m \in net /\ m.type = "ACK"
      /\ Sound(src, Got(snk)) /\ Carried(src, snk, m) /\ src.cwnd \in Nat
      /\ src \in SrcState
  BY InNetwork DEF InFlight
<1>3. w \in Nat
  BY <1>2, CwndAssumption
<1>4. /\ m.cum \in Nat /\ m.recvd \in Nat /\ m.sacks \in SUBSET Psn
      /\ m.cum <= snk.expected /\ \A q \in m.sacks : Has(snk, q)
  BY <1>2, PsnOfMsg DEF Carried, Honest, AckMsg
<1>5. snk.expected \in Nat /\ snk.expected <= NData + MaxRts
  BY SinkFieldTypes DEF FlowInv, Consistent, SinkOK
<1>6. \A p \in Psn : p < m.cum => p \in Got(snk)
  BY <1>4, <1>5 DEF Got, Has, Psn
<1>7. m.cum <= src.highest
  <2>1. src.highest \in Nat
    BY <1>2, FieldTypes
  <2>2. CASE m.cum = 0
    BY <2>1, <2>2
  <2>3. CASE m.cum > 0
    <3>1. m.cum - 1 \in Psn /\ m.cum - 1 < m.cum
      BY <1>4, <1>5, <2>3, NDataAssumption, MaxRtsAssumption DEF Psn
    <3>2. Has(snk, m.cum - 1)
      BY <1>6, <3>1 DEF Got
    <3>3. m.cum - 1 < src.highest
      BY <3>1, <3>2 DEF FlowInv, Consistent
    <3> QED
      BY <1>4, <2>1, <3>3
  <2> QED
    BY <1>4, <2>2, <2>3
<1>8. m.sacks \subseteq Got(snk)
  BY <1>4 DEF Got
<1>9. t = ProcessAck(src, m, w, free) /\ Complete(t, {m})
  BY <1>1
<1> HIDE DEF t
<1>10. Sound(t, Got(snk)) /\ Follows(src, t)
  BY <1>2, <1>3, <1>4, <1>6, <1>7, <1>8, <1>9, ProcessAckSound
<1> QED
  BY <1>9, <1>10, CompleteConsistent

\* A NACK arrives.
LEMMA ReceiveNackConsistent ==
    ASSUME FlowInv, ReceiveNack, UNCHANGED snk
    PROVE  FlowInv' /\ Follows(src, src')
<1>1. PICK m \in InFlight("NACK"), free \in BOOLEAN,
           w \in {c \in CwndChoices : c <= src.cwnd} \cup {src.cwnd} :
        Complete(ProcessNack(src, m.psn, w, free), {m})
  BY DEF ReceiveNack
<1> DEFINE t == ProcessNack(src, m.psn, w, free)
<1>2. /\ m \in net /\ m.type = "NACK" /\ m \in Msg
      /\ Sound(src, Got(snk)) /\ src.cwnd \in Nat
  BY InNetwork DEF InFlight, Carried
<1>3. w \in Nat /\ m.psn \in Psn
  BY <1>2, CwndAssumption, PsnOfMsg
<1>4. t = ProcessNack(src, m.psn, w, free) /\ Complete(t, {m})
  BY <1>1
<1> HIDE DEF t
<1>5. Sound(t, Got(snk)) /\ Follows(src, t)
  BY <1>2, <1>3, <1>4, ProcessNackSound
<1> QED
  BY <1>4, <1>5, CompleteConsistent

\* The retransmission timer runs out.
LEMMA RetransmitTimeoutConsistent ==
    ASSUME FlowInv, RetransmitTimeout, UNCHANGED snk
    PROVE  FlowInv' /\ Follows(src, src')
<1>1. PICK free \in BOOLEAN, rtsDue \in BOOLEAN :
        /\ src.rtoPending
        /\ rtsDue => Cardinality(src.rts) < MaxRts
        /\ Complete(RtxTimerExpired(src, free, rtsDue), {})
  BY DEF RetransmitTimeout
<1> DEFINE t == RtxTimerExpired(src, free, rtsDue)
<1>2. src.started
  <2>1. src = InitSrc => ~src.rtoPending
    BY DEF InitSrc
  <2> QED
    BY <1>1, <2>1 DEF FlowInv, Consistent
<1>3. Sound(src, Got(snk))
  BY <1>2 DEF FlowInv, Consistent
<1>4. t = RtxTimerExpired(src, free, rtsDue) /\ Complete(t, {})
  BY <1>1
<1> HIDE DEF t
<1>5. Sound(t, Got(snk)) /\ Follows(src, t)
  BY <1>1, <1>3, <1>4, RtxTimerExpiredSound
<1> QED
  BY <1>4, <1>5, CompleteConsistent

\* The receiver takes one packet at most.
TakesOne == \E p \in Psn : Received \subseteq Received' /\ Received' \subseteq Received \cup {p}

\* A receiver's handler that ends well.
LEMMA RespondConsistent ==
    ASSUME FlowInv, UNCHANGED src, NEW m \in net, m.psn \in Psn,
           m.psn < src.highest, NEW t, SinkOK(t), Extends(snk, t),
           \A q \in Psn : Has(t, q) => Has(snk, q) \/ q = m.psn,
           t.received = Cardinality(Got(t) \ src.rts), Respond(t, m)
    PROVE  FlowInv' /\ TakesOne
<1>1. src.started
  BY InNetwork
<1>2. Consistent(src, snk', net')
  BY <1>1, SinkStep DEF FlowInv, Respond
<1>3. Consistent(src', snk', net')
  BY <1>2
<1>4. snk' = [t EXCEPT !.out = {}]
  BY DEF Respond
<1>5. \A q \in Psn : Has(snk', q) <=> Has(t, q)
  BY <1>4, RespondOK DEF Extends
<1>6. TakesOne
  BY <1>5 DEF TakesOne, Received, Extends
<1> QED
  BY <1>3, <1>6 DEF FlowInv

\* ... because it takes one packet that was lacking.
LEMMA TakeConsistent ==
    ASSUME FlowInv, UNCHANGED src, NEW m \in net, m.psn \in Psn,
           m.psn < src.highest, ~Has(snk, m.psn), NEW t, SinkOK(t),
           Takes(snk, t, m.psn),
           t.received = IF m.psn \in src.rts THEN snk.received ELSE snk.received + 1,
           Respond(t, m)
    PROVE  FlowInv' /\ TakesOne
<1>1. t.received = Cardinality(Got(t) \ src.rts)
  BY CountOneMore DEF FlowInv
<1>2. Extends(snk, t) /\ \A q \in Psn : Has(t, q) => Has(snk, q) \/ q = m.psn
  BY DEF Takes
<1> QED
  BY <1>1, <1>2, RespondConsistent

\* ... or takes none.
LEMMA TakeNoneConsistent ==
    ASSUME FlowInv, UNCHANGED src, NEW m \in net, m.psn \in Psn,
           m.psn < src.highest, NEW t, SinkOK(t), Extends(snk, t),
           Extends(t, snk), t.received = snk.received, Respond(t, m)
    PROVE  FlowInv' /\ TakesOne
<1>1. t.received = Cardinality(Got(t) \ src.rts)
  BY CountSame DEF FlowInv
<1>2. \A q \in Psn : Has(t, q) => Has(snk, q) \/ q = m.psn
  BY DEF Extends
<1> QED
  BY <1>1, <1>2, RespondConsistent

\* A packet on its way to the receiver.
LEMMA ToSink ==
    ASSUME FlowInv, NEW m \in net, m.type \in {"DATA", "TRIM", "RTS"}
    PROVE  /\ m \in Msg /\ m.psn \in Psn /\ m.psn < src.highest /\ SinkOK(snk)
           /\ m.type = "DATA" => m \in DataMsg /\ m.size = Size(src, m.psn)
           /\ m.type = "RTS" => m.psn \in src.rts
<1>1. Carried(src, snk, m) /\ SinkOK(snk)
  BY DEF FlowInv, Consistent
<1> QED
  BY <1>1, PsnOfMsg DEF Carried, Genuine

\* Data arrives.
LEMMA ReceiveDataConsistent ==
    ASSUME FlowInv, ReceiveData, UNCHANGED src PROVE FlowInv' /\ TakesOne
<1>1. PICK m \in InFlight("DATA"), ecn \in BOOLEAN :
        Respond(ProcessData(snk, m, ecn), m)
  BY DEF ReceiveData
<1>2. m \in net /\ m.type = "DATA"
  BY DEF InFlight
<1>3. /\ m \in DataMsg /\ m.psn \in Psn /\ m.psn < src.highest /\ SinkOK(snk)
      /\ m.size = Size(src, m.psn)
  BY <1>2, ToSink
<1> DEFINE t == ProcessData(snk, m, ecn)
<1>4. Respond(t, m) /\ t = ProcessData(snk, m, ecn)
  BY <1>1
<1> HIDE DEF t
<1>5. CASE Has(snk, m.psn)
  <2>1. t = ProcessDuplicate(snk, m.psn, ecn)
    BY <1>4, <1>5 DEF ProcessData
  <2>2. /\ SinkOK(t) /\ Extends(snk, t) /\ Extends(t, snk)
        /\ t.received = snk.received
    BY <1>3, <2>1, ProcessDuplicateOK
  <2> QED
    BY <1>2, <1>3, <1>4, <2>2, TakeNoneConsistent
<1>6. CASE ~Has(snk, m.psn)
  <2>1. t = ProcessNewData(snk, m, ecn)
    BY <1>4, <1>6 DEF ProcessData
  <2>2. /\ SinkOK(t) /\ Takes(snk, t, m.psn)
        /\ t.received = IF m.size = Mtu THEN snk.received + 1 ELSE snk.received
    BY <1>3, <1>6, <2>1, ProcessNewDataOK
  <2>3. m.size = Mtu <=> m.psn \notin src.rts
    BY <1>3, SizeAssumption DEF Size
  <2>4. t.received = IF m.psn \in src.rts THEN snk.received ELSE snk.received + 1
    BY <2>2, <2>3
  <2> QED
    BY <1>2, <1>3, <1>4, <1>6, <2>2, <2>4, TakeConsistent
<1> QED
  BY <1>5, <1>6

\* A trimmed packet arrives.
LEMMA ReceiveTrimmedConsistent ==
    ASSUME FlowInv, ReceiveTrimmed, UNCHANGED src PROVE FlowInv' /\ TakesOne
<1>1. PICK m \in InFlight("TRIM") : Respond(ProcessTrimmed(snk, m.psn), m)
  BY DEF ReceiveTrimmed
<1>2. m \in net /\ m.type = "TRIM"
  BY DEF InFlight
<1>3. m.psn \in Psn /\ m.psn < src.highest /\ SinkOK(snk)
  BY <1>2, ToSink
<1> DEFINE t == ProcessTrimmed(snk, m.psn)
<1>4. Respond(t, m) /\ t = ProcessTrimmed(snk, m.psn)
  BY <1>1
<1> HIDE DEF t
<1>5. /\ SinkOK(t) /\ Extends(snk, t) /\ Extends(t, snk)
      /\ t.received = snk.received
  BY <1>3, <1>4, ProcessTrimmedOK
<1> QED
  BY <1>2, <1>3, <1>4, <1>5, TakeNoneConsistent

\* An RTS arrives.
LEMMA ReceiveRtsConsistent ==
    ASSUME FlowInv, ReceiveRts, UNCHANGED src PROVE FlowInv' /\ TakesOne
<1>1. PICK m \in InFlight("RTS") : Respond(ProcessRts(snk, m.psn), m)
  BY DEF ReceiveRts
<1>2. m \in net /\ m.type = "RTS"
  BY DEF InFlight
<1>3. /\ m.psn \in Psn /\ m.psn < src.highest /\ SinkOK(snk)
      /\ m.psn \in src.rts
  BY <1>2, ToSink
<1> DEFINE t == ProcessRts(snk, m.psn)
<1>4. Respond(t, m) /\ t = ProcessRts(snk, m.psn)
  BY <1>1
<1> HIDE DEF t
<1>5. CASE Has(snk, m.psn)
  <2>1. t = ProcessDuplicate(snk, m.psn, FALSE)
    BY <1>4, <1>5 DEF ProcessRts
  <2>2. /\ SinkOK(t) /\ Extends(snk, t) /\ Extends(t, snk)
        /\ t.received = snk.received
    BY <1>3, <2>1, ProcessDuplicateOK
  <2> QED
    BY <1>2, <1>3, <1>4, <2>2, TakeNoneConsistent
<1>6. CASE ~Has(snk, m.psn)
  <2>1. SinkOK(t) /\ Takes(snk, t, m.psn) /\ t.received = snk.received
    BY <1>3, <1>4, <1>6, ProcessRtsOK
  <2> QED
    BY <1>2, <1>3, <1>4, <1>6, <2>1, TakeConsistent
<1> QED
  BY <1>5, <1>6

\* The fabric drops a packet.
LEMMA DropConsistent ==
    ASSUME FlowInv, Drop PROVE FlowInv'
<1>1. net' \subseteq net /\ src' = src /\ snk' = snk
  BY DEF Drop, Lose
<1>2. Consistent(src, snk, net')
  BY <1>1 DEF FlowInv, Consistent
<1> QED
  BY <1>1, <1>2 DEF FlowInv

\* The fabric trims one.
LEMMA TrimConsistent ==
    ASSUME FlowInv, TrimPacket PROVE FlowInv'
<1>1. src' = src /\ snk' = snk
  BY DEF TrimPacket
<1>2. PICK m \in net :
        /\ m.type = "DATA"
        /\ net' = (net \ {m})
                  \cup {[type |-> "TRIM", psn |-> m.psn, copy |-> m.copy]}
  BY DEF TrimPacket, Trim, InFlight
<1> DEFINE h == [type |-> "TRIM", psn |-> m.psn, copy |-> m.copy]
<1>3. m \in DataMsg /\ m.psn < src.highest
  BY <1>2, ToSink
<1>4. h \in TrimMsg
  BY <1>3 DEF DataMsg, TrimMsg
<1>5. h.type = "TRIM" /\ h.psn = m.psn
  OBVIOUS
<1>6. Carried(src, snk, h)
  BY <1>3, <1>4, <1>5 DEF Carried, Msg, Genuine, Honest
<1> HIDE DEF h
<1>7. net' = (net \ {m}) \cup {h}
  BY <1>2 DEF h
<1>8. src.started
  BY <1>2, InNetwork
<1>9. Consistent(src, snk, net')
  BY <1>6, <1>7, <1>8 DEF FlowInv, Consistent
<1> QED
  BY <1>1, <1>9 DEF FlowInv

\* A step that leaves the sender alone.
LEMMA FollowsItself == \A s : Follows(s, s)
  BY DEF Follows

\* Every step of the flow keeps the invariant.
LEMMA NextConsistent == FlowInv /\ [Next]_vars => FlowInv' /\ Follows(src, src')
<1> SUFFICES ASSUME FlowInv, [Next]_vars PROVE FlowInv' /\ Follows(src, src')
  OBVIOUS
<1>0. src' = src => Follows(src, src')
  BY FollowsItself
<1>1. CASE SrcNext /\ UNCHANGED snk
  BY <1>1, StartFlowConsistent, TimeToSendConsistent, ReceiveAckConsistent,
     ReceiveNackConsistent, RetransmitTimeoutConsistent DEF SrcNext
<1>2. CASE SinkNext /\ UNCHANGED src
  BY <1>0, <1>2, ReceiveDataConsistent, ReceiveTrimmedConsistent,
     ReceiveRtsConsistent DEF SinkNext
<1>3. CASE Drop
  BY <1>0, <1>3, DropConsistent DEF Drop
<1>4. CASE TrimPacket
  BY <1>0, <1>4, TrimConsistent DEF TrimPacket
<1>5. CASE Idle \/ UNCHANGED vars
  BY <1>0, <1>5 DEF Idle, vars, FlowInv
<1> QED
  BY <1>1, <1>2, <1>3, <1>4, <1>5 DEF Next

\* The inductive invariant holds in every reachable state.
THEOREM FlowInvariant == Spec => []FlowInv
  BY InitConsistent, NextConsistent, PTL DEF Spec

-----------------------------------------------------------------------------
(* The properties of UecFlow *)

\* What the invariant says of the sender, before the flow and during it.
LEMMA SenderFacts ==
    ASSUME FlowInv
    PROVE  \/ src = InitSrc /\ Received = {}
           \/ Sound(src, Received)
<1>1. Received = Got(snk)
  BY DEF Received, Got
<1>2. CASE src.started
  BY <1>1, <1>2 DEF FlowInv, Consistent
<1>3. CASE ~src.started
  <2>1. src = InitSrc /\ \A p \in Psn : ~Has(snk, p)
    <3>1. src = InitSrc /\ \A p \in Psn : Has(snk, p) => p < 0
      BY <1>3 DEF FlowInv, Consistent, InitSrc
    <3> QED
      BY <3>1 DEF Psn
  <2> QED
    BY <2>1 DEF Received
<1> QED
  BY <1>2, <1>3

\* The initial record, field by field.
LEMMA InitSrcFields ==
    /\ InitSrc \in SrcState
    /\ InitSrc.tx = {} /\ InitSrc.rtxQueue = {} /\ InitSrc.rts = {}
    /\ InitSrc.sendTimes = {} /\ ~InitSrc.rtoPending /\ ~InitSrc.blocked
    /\ InitSrc.highest = 0 /\ InitSrc.inFlight = 0 /\ InitSrc.recvd = 0
    /\ InitSrc.done = FALSE /\ InitSrc.out = {}
<1>1. [p \in Psn |-> 0] \in [Psn -> Nat]
  OBVIOUS
<1>2. InitSrc \in SrcState
  BY <1>1, NDataAssumption, MaxRtsAssumption, CwndAssumption DEF InitSrc, SrcState
<1> QED
  BY <1>2 DEF InitSrc

\* Types, for every flow: TypeOK is an invariant.
THEOREM TypeCorrect == Spec => []TypeOK
<1>1. FlowInv => TypeOK
  <2> SUFFICES ASSUME FlowInv PROVE TypeOK
    OBVIOUS
  <2>1. src \in SrcState /\ src.out = {}
    BY SenderFacts, InitSrcFields DEF Sound, Shape, FlowInv, Consistent
  <2>2. src \in [started : BOOLEAN, done : BOOLEAN, highest : 0 .. (NData + MaxRts),
                 backlog : 0 .. NData, tx : SUBSET Psn, sentAt : [Psn -> Nat],
                 sendTimes : SUBSET (Nat \X Psn), rtxQueue : SUBSET Psn,
                 copies : [Psn -> Nat], rts : SUBSET Psn, inFlight : Int,
                 recvd : Nat, cwnd : Nat, rtoPending : BOOLEAN,
                 rtoSendTime : Nat, blocked : BOOLEAN, regs : Nat, clock : Nat,
                 out : {{}}]
    BY <2>1 DEF SrcState
  <2>3. snk \in SinkState /\ snk.out = {}
    BY DEF FlowInv, Consistent, SinkOK
  <2>4. snk \in [expected : 0 .. (NData + MaxRts), rx : SUBSET Psn, ooo : Nat,
                 ackRequest : BOOLEAN, accepted : Nat, received : Nat,
                 recvd : Nat, out : {{}}]
    BY <2>3 DEF SinkState
  <2>5. net \subseteq Msg
    BY DEF FlowInv, Consistent, Carried
  <2> QED
    BY <2>2, <2>4, <2>5 DEF TypeOK
<1> QED
  BY <1>1, FlowInvariant, PTL

\* No psn is in the send records and in the retransmission queue at once.
THEOREM SingleAccount == Spec => []NeverInBoth
<1>1. FlowInv => NeverInBoth
  BY SenderFacts, InitSrcFields DEF Sound, Shape, Records, NeverInBoth
<1> QED
  BY <1>1, FlowInvariant, PTL

\* The in-flight count is exact until the flow completes, whatever is lost,
\* trimmed, reordered, acknowledged late or sent again.
THEOREM LedgerExact == Spec => []InFlightLedger
<1>1. FlowInv => InFlightLedger
  <2> SUFFICES ASSUME FlowInv, ~src.done
               PROVE  src.inFlight = Mtu * (src.highest - Cardinality(src.rts))
                                     - Bytes(src, src.rtxQueue) - src.recvd
    BY DEF InFlightLedger
  <2>1. CASE src = InitSrc
    <3>1. Cardinality({}) = 0
      BY FS_EmptySet
    <3>2. Bytes(src, {}) = Mtu * 0 + Hdr * 0
      <4>1. {} \ src.rts = {} /\ {} \cap src.rts = {}
        OBVIOUS
      <4> QED
        BY <3>1, <4>1, ZenonT(60) DEF Bytes
    <3>3. Mtu * (0 - 0) = 0 /\ Mtu * 0 + Hdr * 0 = 0
      BY SizeAssumption
    <3> QED
      BY <2>1, <3>1, <3>2, <3>3, InitSrcFields
  <2>2. CASE Sound(src, Received)
    <3> DEFINE due == Mtu * (src.highest - Cardinality(src.rts))
                      - Bytes(src, src.rtxQueue) - src.recvd
    <3>1. src \in SrcState /\ src.inFlight - due = 0
      BY <2>2 DEF Sound, Shape, Gap
    <3>2. due \in Int
      <4>1. /\ src.highest \in Nat /\ Cardinality(src.rts) \in Nat
            /\ src.recvd \in Nat /\ Bytes(src, src.rtxQueue) \in Nat
            /\ Mtu \in Nat
        BY <3>1, FieldTypes, PsnFinite, BytesSplit
      <4>2. Mtu * (src.highest - Cardinality(src.rts)) \in Int
        BY <4>1
      <4> QED
        BY <4>1, <4>2
    <3> HIDE DEF due
    <3>3. src.inFlight = due
      BY <3>1, <3>2, FieldTypes
    <3> QED
      BY <3>3 DEF due
  <2> QED
    BY <2>1, <2>2, SenderFacts
<1> QED
  BY <1>1, FlowInvariant, PTL

\* Until completion the sender answers for everything the receiver lacks.
THEOREM NothingIsForgotten == Spec => []NothingForgotten
<1>1. FlowInv => NothingForgotten
  <2> SUFFICES ASSUME FlowInv PROVE NothingForgotten
    OBVIOUS
  <2>1. CASE src = InitSrc
    BY <2>1, InitSrcFields DEF NothingForgotten, Sent, Psn
  <2>2. CASE Sound(src, Received)
    BY <2>2 DEF Sound, Shape, Covered, NothingForgotten, Sent
  <2> QED
    BY <2>1, <2>2, SenderFacts
<1> QED
  BY <1>1, FlowInvariant, PTL

\* The timer is set for the oldest outstanding packet.
THEOREM TimerCoversOldest == Spec => []RtoCoversOldest
<1>1. FlowInv => RtoCoversOldest
  BY SenderFacts, InitSrcFields
     DEF Sound, Shape, Records, Stamped, TimerOK, RtoCoversOldest
<1> QED
  BY <1>1, FlowInvariant, PTL

\* Completion means that the receiver has everything that was sent.
THEOREM CompletionSound == Spec => []CompleteMeansReceived
<1>1. FlowInv => CompleteMeansReceived
  <2> SUFFICES ASSUME FlowInv, src.done
               PROVE  Sent \subseteq Received /\ src.highest = NData + Cardinality(src.rts)
    BY DEF CompleteMeansReceived
  <2>1. Sound(src, Received)
    BY SenderFacts, InitSrcFields
  <2>2. Over(src) /\ Covered(src, Received) /\ Conserved(src) /\ src \in SrcState
    BY <2>1 DEF Sound, Shape
  <2>3. Sent \subseteq Received
    BY <2>2 DEF Over, Covered, Sent
  <2>4. src.highest = NData + Cardinality(src.rts)
    BY <2>2, FieldTypes DEF Over, Conserved
  <2> QED
    BY <2>3, <2>4
<1> QED
  BY <1>1, FlowInvariant, PTL

\* A source that waits for the NIC is in the NIC's list.
THEOREM WaitingIsRegistered == Spec => []BlockedIsRegistered
<1>1. FlowInv => BlockedIsRegistered
  BY SenderFacts, InitSrcFields DEF Sound, Shape, BlockedIsRegistered
<1> QED
  BY <1>1, FlowInvariant, PTL

\* As many psns were sent as the sender has used.
LEMMA SentCount ==
    ASSUME src.highest \in Nat, src.highest <= NData + MaxRts
    PROVE  /\ Cardinality(Sent) = src.highest
           /\ Sent \in SUBSET Psn
<1> DEFINE a == 0  b == src.highest - 1
<1>1. Sent = a .. b
  <2>1. \A p \in Psn : p < src.highest <=> p \in a .. b
    BY DEF Psn
  <2>2. a .. b \subseteq Psn
    BY NDataAssumption, MaxRtsAssumption DEF Psn
  <2> HIDE DEF a, b
  <2> QED
    BY <2>1, <2>2 DEF Sent
<1>2. a \in Int /\ b \in Int
  OBVIOUS
<1>3. (IF a <= b THEN b - a + 1 ELSE 0) = src.highest
  OBVIOUS
<1> HIDE DEF a, b
<1>4. Cardinality(Sent) = src.highest
  BY <1>1, <1>2, <1>3, FS_Interval
<1> QED
  BY <1>4 DEF Sent

\* The reassembly state is consistent, and no packet of data is counted twice.
THEOREM ReassemblySound == Spec => []ReassemblyConsistent
<1>1. FlowInv => ReassemblyConsistent
  <2> SUFFICES ASSUME FlowInv PROVE ReassemblyConsistent
    OBVIOUS
  <2>1. /\ Ordered(snk) /\ snk.received = Cardinality(Received \ src.rts)
        /\ Received \subseteq Sent
    BY DEF FlowInv, Consistent, SinkOK, Got, Received, Sent
  <2>2. snk.received <= NData
    <3>1. CASE src = InitSrc /\ Received = {}
      <4>1. Received \ src.rts = {} /\ Cardinality({}) = 0
        BY <3>1, FS_EmptySet
      <4> QED
        BY <2>1, <4>1, NDataAssumption
    <3>2. CASE Sound(src, Received)
      <4>1. src \in SrcState /\ Conserved(src) /\ src.rts \subseteq Sent
        BY <3>2, FieldTypes DEF Sound, Shape, Records, Sent
      <4>2. Sent \in SUBSET Psn /\ src.highest \in Nat /\ src.highest <= NData + MaxRts
        BY <4>1, FieldTypes DEF Sent
      <4>3. Cardinality(Sent) = src.highest
        BY <4>2, SentCount
      <4>4. IsFiniteSet(Sent) /\ IsFiniteSet(Sent \ src.rts)
        <5>1. Sent \ src.rts \in SUBSET Psn
          BY <4>2
        <5> QED
          BY <4>2, <5>1, PsnFinite
      <4>5. Cardinality(Sent \ src.rts) = src.highest - Cardinality(src.rts)
        <5>1. Sent \cap src.rts = src.rts
          BY <4>1
        <5>2. Cardinality(Sent \ src.rts) = Cardinality(Sent) - Cardinality(Sent \cap src.rts)
          BY <4>4, FS_Difference
        <5> QED
          BY <4>3, <5>1, <5>2
      <4>6. Cardinality(Received \ src.rts) <= Cardinality(Sent \ src.rts)
        <5>1. Received \ src.rts \subseteq Sent \ src.rts
          BY <2>1
        <5> QED
          BY <4>4, <5>1, FS_Subset
      <4>7. Cardinality(src.rts) \in Nat /\ Cardinality(Received \ src.rts) \in Nat
        <5>1. src.rts \in SUBSET Psn /\ Received \ src.rts \in SUBSET Psn
          BY <4>1, FieldTypes DEF Received
        <5> QED
          BY <5>1, PsnFinite
      <4>8. src.highest - Cardinality(src.rts) <= NData
        BY <4>1, <4>7, FieldTypes DEF Conserved
      <4> QED
        BY <2>1, <4>2, <4>5, <4>6, <4>7, <4>8, NDataAssumption
    <3> QED
      BY <3>1, <3>2, SenderFacts
  <2> QED
    BY <2>1, <2>2 DEF Ordered, ReassemblyConsistent
<1> QED
  BY <1>1, FlowInvariant, PTL

\* A completed flow stays completed and silent.
THEOREM CompletionFinal == Spec => QuietAfterCompletion
<1> DEFINE Quiesced == src.done => /\ src'.done
                                   /\ src'.highest = src.highest
                                   /\ src'.copies = src.copies
                                   /\ ~src'.rtoPending
<1>1. FlowInv /\ [Next]_vars => [Quiesced]_vars
  <2> SUFFICES ASSUME FlowInv, [Next]_vars, src.done
               PROVE  /\ src'.done
                      /\ src'.highest = src.highest
                      /\ src'.copies = src.copies
                      /\ ~src'.rtoPending
    OBVIOUS
  <2>1. FlowInv' /\ Follows(src, src')
    BY NextConsistent
  <2>2. src'.done /\ src'.highest = src.highest /\ src'.copies = src.copies
    BY <2>1 DEF Follows
  <2>3. Consistent(src', snk', net')
    BY <2>1 DEF FlowInv
  <2>4. Over(src') /\ TimerOK(src')
    BY <2>2, <2>3, InitSrcFields DEF Consistent, Sound
  <2> QED
    BY <2>2, <2>4 DEF Over, TimerOK
<1> QED
  BY <1>1, FlowInvariant, PTL DEF Spec, QuietAfterCompletion

-----------------------------------------------------------------------------
(* The flow implements the reliable transfer.                              *)

\* A sender's record between two handlers, and after one.
LEMMA Advanced ==
    ASSUME NEW s, Advancing(s), NEW t, NEW c, Complete(t, c),
           Advances(s, t) \/ (Advancing(t) /\ t.highest = s.highest /\ t.done = TRUE)
    PROVE  \/ /\ src'.done = s.done
              /\ src'.highest = s.highest \/ src'.highest = s.highest + 1
           \/ src'.done = TRUE /\ src'.highest = s.highest
<1>1. src'.done = t.done /\ src'.highest = t.highest
  BY DEF Complete, Advances, Advancing
<1> QED
  BY <1>1 DEF Advances

\* A step of the sender takes one psn at most, and none when it completes the
\* flow.
LEMMA SenderAdvances ==
    ASSUME FlowInv, SrcNext
    PROVE  \/ /\ src'.done = src.done
              /\ src'.highest = src.highest \/ src'.highest = src.highest + 1
           \/ src'.done = TRUE /\ src'.highest = src.highest
<1>1. Advancing(src)
  <2>1. src \in SrcState
    BY SenderFacts, InitSrcFields DEF Sound, Shape
  <2> QED
    BY <2>1 DEF SrcState, Advancing
<1>2. CASE StartFlow
  BY <1>1, <1>2, HandlersAdvance, Advanced, ZenonT(60) DEF StartFlow
<1>3. CASE TimeToSend
  BY <1>1, <1>3, HandlersAdvance, Advanced, ZenonT(60) DEF TimeToSend
<1>4. CASE ReceiveAck
  <2>1. PICK m \in InFlight("ACK"), w \in CwndChoices \cup {src.cwnd}, free \in BOOLEAN :
          Complete(ProcessAck(src, m, w, free), {m})
    BY <1>4 DEF ReceiveAck
  <2> QED
    BY <1>1, <2>1, HandlersAdvance, Advanced, ZenonT(60)
<1>5. CASE ReceiveNack
  <2>1. PICK m \in InFlight("NACK"), free \in BOOLEAN,
             w \in {c \in CwndChoices : c <= src.cwnd} \cup {src.cwnd} :
          Complete(ProcessNack(src, m.psn, w, free), {m})
    BY <1>5 DEF ReceiveNack
  <2> QED
    BY <1>1, <2>1, HandlersAdvance, Advanced, ZenonT(60)
<1>6. CASE RetransmitTimeout
  <2>1. PICK free \in BOOLEAN, due \in BOOLEAN : Complete(RtxTimerExpired(src, free, due), {})
    BY <1>6 DEF RetransmitTimeout
  <2> QED
    BY <1>1, <2>1, HandlersAdvance, Advanced, ZenonT(60)
<1> QED
  BY <1>2, <1>3, <1>4, <1>5, <1>6 DEF SrcNext

\* What the abstract transfer sees of a flow.
LEMMA Observed ==
    ASSUME FlowInv
    PROVE  /\ src.done \in BOOLEAN /\ src.highest \in Nat /\ src.highest <= NData + MaxRts
           /\ Received \subseteq Sent
           /\ src.done => /\ Sent \subseteq Received
                          /\ src.highest >= NData
<1>1. src \in SrcState
  BY SenderFacts, InitSrcFields DEF Sound, Shape
<1>2. Received \subseteq Sent
  BY DEF FlowInv, Consistent, Received, Sent
<1>3. ASSUME src.done PROVE Sent \subseteq Received /\ src.highest >= NData
  <2>1. Sound(src, Received)
    BY <1>3, SenderFacts, InitSrcFields
  <2>2. Over(src) /\ Covered(src, Received) /\ Conserved(src)
    BY <1>3, <2>1 DEF Sound, Shape
  <2>3. Cardinality(src.rts) \in Nat
    BY <1>1, FieldTypes, PsnFinite
  <2> QED
    BY <1>1, <2>2, <2>3, FieldTypes DEF Over, Covered, Conserved, Sent
<1> QED
  BY <1>1, <1>2, <1>3, FieldTypes

\* A step of the sender offers a packet, completes the transfer, or is none.
LEMMA SenderTransfers ==
    ASSUME FlowInv, FlowInv', Follows(src, src'), SrcNext, UNCHANGED snk
    PROVE  Transfer!TransferNext \/ UNCHANGED <<Sent, Received, src.done>>
<1>1. Received' = Received
  BY DEF Received
<1>2. /\ src.done \in BOOLEAN /\ src'.done \in BOOLEAN
      /\ src.highest \in Nat /\ src'.highest \in Nat /\ src'.highest <= NData + MaxRts
      /\ src.highest <= NData + MaxRts
      /\ Received \subseteq Sent
      /\ src'.done => Sent' \subseteq Received' /\ src'.highest >= NData
  <2>1. (FlowInv => /\ src.done \in BOOLEAN /\ src.highest \in Nat /\ src.highest <= NData + MaxRts
                    /\ src.done => Sent \subseteq Received /\ src.highest >= NData)'
    BY Observed, PTL
  <2> QED
    BY <2>1, Observed
<1>3. src'.highest = src.highest => Sent' = Sent
  BY DEF Sent
<1>4. CASE src'.done = src.done /\ src'.highest = src.highest
  BY <1>1, <1>3, <1>4
<1>5. CASE src'.done = src.done /\ src'.highest = src.highest + 1
  <2>1. ~src.done
    BY <1>2, <1>5 DEF Follows
  <2> DEFINE p == src.highest
  <2>2. p \in Psn \ Sent /\ Sent' = Sent \cup {p}
    BY <1>2, <1>5, NDataAssumption, MaxRtsAssumption DEF Sent, Psn
  <2> QED
    BY <1>1, <1>5, <2>1, <2>2 DEF Transfer!TransferNext, Transfer!Offer
<1>6. CASE ~src.done /\ src'.done = TRUE /\ src'.highest = src.highest
  <2>1. Received = Sent /\ Sent' = Sent
    BY <1>1, <1>2, <1>3, <1>6
  <2>2. Transfer!Cardinality(Received) >= NData
    <3>1. Cardinality(Received) >= NData
      BY <1>2, <1>6, <2>1, SentCount
    <3>2. Transfer!Cardinality(Received) = Cardinality(Received)
      BY DEF Transfer!Cardinality, Cardinality
    <3> QED
      BY <3>1, <3>2
  <2> QED
    BY <1>1, <1>6, <2>1, <2>2 DEF Transfer!TransferNext, Transfer!Complete
<1> QED
  BY <1>2, <1>4, <1>5, <1>6, SenderAdvances

\* A step of the receiver delivers a packet, or nothing.
LEMMA ReceiverTransfers ==
    ASSUME FlowInv, FlowInv', TakesOne, UNCHANGED src
    PROVE  Transfer!TransferNext \/ UNCHANGED <<Sent, Received, src.done>>
<1>1. Sent' = Sent /\ src'.done = src.done
  BY DEF Sent
<1>2. PICK p \in Psn : Received \subseteq Received' /\ Received' \subseteq Received \cup {p}
  BY DEF TakesOne
<1>3. Received' \subseteq Sent
  <2>1. (FlowInv => Received \subseteq Sent)'
    BY Observed, PTL
  <2> QED
    BY <1>1, <2>1
<1>4. CASE Received' = Received
  BY <1>1, <1>4
<1>5. CASE Received' # Received
  <2>1. p \in Sent \ Received /\ Received' = Received \cup {p}
    BY <1>2, <1>3, <1>5
  <2>2. ~src.done
    BY <2>1, Observed
  <2> QED
    BY <1>1, <2>1, <2>2 DEF Transfer!TransferNext, Transfer!Deliver
<1> QED
  BY <1>4, <1>5

\* A flow implements the reliable transfer, whatever the fabric loses, trims
\* and reorders: each packet is handed over at most once, and only what was
\* sent; the sender reports completion when nothing sent is missing.
THEOREM FlowImplements == Spec => Implements
<1>1. Init => Transfer!TransferInit
  <2> SUFFICES ASSUME Init PROVE Transfer!TransferInit
    OBVIOUS
  <2>1. FlowInv /\ src = InitSrc
    BY InitConsistent DEF Init
  <2>2. Sent = {} /\ src.done = FALSE
    BY <2>1, InitSrcFields DEF Sent, Psn
  <2>3. Received = {}
    BY <2>1, <2>2, Observed
  <2> QED
    BY <2>2, <2>3 DEF Transfer!TransferInit
<1>2. FlowInv /\ FlowInv' /\ [Next]_vars
        => [Transfer!TransferNext]_<<Sent, Received, src.done>>
  <2> SUFFICES ASSUME FlowInv, FlowInv', [Next]_vars
               PROVE  Transfer!TransferNext \/ UNCHANGED <<Sent, Received, src.done>>
    OBVIOUS
  <2>0. UNCHANGED <<src, snk>> => UNCHANGED <<Sent, Received, src.done>>
    BY DEF Sent, Received
  <2>1. CASE SrcNext /\ UNCHANGED snk
    BY <2>1, NextConsistent, SenderTransfers
  <2>2. CASE SinkNext /\ UNCHANGED src
    <3>1. TakesOne
      BY <2>2, ReceiveDataConsistent, ReceiveTrimmedConsistent, ReceiveRtsConsistent DEF SinkNext
    <3> QED
      BY <2>2, <3>1, ReceiverTransfers
  <2>3. CASE Drop \/ TrimPacket \/ Idle \/ UNCHANGED vars
    BY <2>0, <2>3 DEF Drop, TrimPacket, Idle, vars
  <2> QED
    BY <2>1, <2>2, <2>3 DEF Next
<1> QED
  BY <1>1, <1>2, FlowInvariant, PTL DEF Spec, Implements, Transfer!TransferSpec
=============================================================================
