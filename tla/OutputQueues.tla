---------------------------- MODULE OutputQueues ----------------------------
(***************************************************************************)
(* The output queues that are neither composite nor pausable: Queue (fifo),*)
(* RandomQueue, CutPayloadQueue, CtrlPrioQueue, ECNPrioQueue, AeolusQueue  *)
(* and CompositePrioQueue (path).  One queue of one kind receives packets  *)
(* and serves them one at a time: a service begins with the choice of a    *)
(* list and ends, after the drain time of the packet then at its head,     *)
(* with that list's head leaving.  ECN marks are left out; so are the      *)
(* packet types CtrlPrioQueue rejects, which end the program.              *)
(***************************************************************************)
EXTENDS Integers, Sequences, FiniteSets, FiniteSetsExt, SequencesExt

CONSTANTS
  Kinds,        \* the kinds of queue considered
  Sizes,        \* sizes of data packets
  HeaderSize,   \* size of a control packet and of a trimmed one
  Lens,         \* path lengths of packets
  MaxSize,      \* _maxsize
  SpecThresh,   \* _speculative_thresh of AeolusQueue
  DropThresh,   \* _drop_th of RandomQueue
  RatioHigh,    \* _ratio_high; _ratio_low is 1
  MaxPathLen,   \* MAX_PATH_LEN
  MaxQueued,    \* the 8 of check_queued
  SeenAtStart,  \* what the uninitialised _max_path_len_seen may hold
  MaxPackets    \* bound: packets that arrive

\* What this module assumes of its constants.
SizeAssumption == Sizes \subseteq 1 .. MaxSize /\ HeaderSize \in 1 .. MaxSize
ThresholdAssumption == SpecThresh <= MaxSize /\ RatioHigh > 0 /\ Lens \subseteq 1 .. MaxPathLen

VARIABLES
  kind,       \* which class the queue is an instance of
  hi, lo,     \* the two lists, oldest packet first; a single list is lo
  bytesHi, bytesLo,   \* the sizes the code keeps beside them
  serv,       \* _serv: the list whose head is being served, or none
  started,    \* history: the packet whose drain time was scheduled
  crt,        \* _crt
  counts, longest, seen,  \* _enqueued_path_lens, _max_path_len_queued and _seen
  error,      \* the assertion or exception that has been hit
  fate,       \* history: what became of each packet that arrived; refused: a packet of
              \* medium priority dropped by AeolusQueue while the list is below _maxsize
  bypass      \* history: services of hi in a row that lo has waited through

path == <<counts, longest, seen>>
vars == <<kind, hi, lo, bytesHi, bytesLo, serv, started, crt, path, error, fate, bypass>>

Init ==
  /\ kind \in Kinds
  /\ hi = <<>> /\ lo = <<>> /\ bytesHi = 0 /\ bytesLo = 0
  /\ serv = "none" /\ started = 0 /\ crt = 0
  /\ counts = [l \in 0 .. MaxPathLen |-> 0] /\ longest = 0 /\ seen \in SeenAtStart
  /\ error = "none" /\ fate = <<>> /\ bypass = 0

Bytes(s) == FoldSeq(LAMBDA p, n : n + p.size, 0, s)
Weighted == kind \in {"aeolus", "path"}

(***************************************************************************)
(* Service.                                                                *)
(***************************************************************************)
\* The new _crt and the list that is served next, lists being h and l.
Turn(h, l) ==
  LET both == h # <<>> /\ l # <<>>
      c == IF both /\ Weighted THEN (crt + 1) % (RatioHigh + 1) ELSE crt
  IN  <<c, IF h = <<>> \/ (both /\ Weighted /\ c >= RatioHigh) THEN "lo" ELSE "hi">>

BeginService(h, l) ==
  LET t == Turn(h, l)
  IN  /\ crt' = t[1] /\ serv' = t[2]
      /\ started' = Head(IF t[2] = "hi" THEN h ELSE l).id
      /\ bypass' = IF l = <<>> \/ t[2] = "lo" THEN 0 ELSE bypass + 1

Continue(h, l) ==
  IF h \o l # <<>> THEN BeginService(h, l)
  ELSE serv' = "none" /\ UNCHANGED <<started, crt, bypass>>

Taken(s) == 1

(***************************************************************************)
(* CompositePrioQueue counts the path lengths of its data packets.         *)
(***************************************************************************)
\* find_max_path_len_queued for counts n and _max_path_len_seen s, if the last packet of
\* the longest path m has gone.
Longest(n, s, m) == IF n[m] > 0 THEN m ELSE Max({i \in 0 .. Min({s, MaxPathLen}) : n[i] > 0} \cup {0})

\* check_queued, of which the longest possible path escapes.
Checked(n, m) ==
  LET in == {i \in 0 .. MaxPathLen - 1 : n[i] > 0}
  IN  IF Max(in \cup {0}) # m \/ MapThenSumSet(LAMBDA i : n[i], in) > MaxQueued
      THEN "check_queued" ELSE "none"

Uncounted(n, l) == [n EXCEPT ![l] = @ - 1]

CompleteService ==
  /\ error = "none" /\ serv # "none"
  /\ LET s == IF serv = "hi" THEN hi ELSE lo
         p == s[Taken(s)]
         rest == RemoveAt(s, Taken(s))
         h == IF serv = "hi" THEN rest ELSE hi
         l == IF serv = "lo" THEN rest ELSE lo
         n == IF kind = "path" /\ serv = "lo" THEN Uncounted(counts, p.len) ELSE counts
         m == IF kind = "path" /\ serv = "lo" /\ p.len = longest THEN Longest(n, seen, longest) ELSE longest
     IN  /\ hi' = h /\ lo' = l
         /\ bytesHi' = IF serv = "hi" THEN bytesHi - p.size ELSE bytesHi
         /\ bytesLo' = IF serv = "lo" THEN bytesLo - p.size ELSE bytesLo
         /\ counts' = n /\ longest' = m
         /\ error' = IF kind = "path" THEN Checked(n, m) ELSE "none"
         /\ fate' = [fate EXCEPT ![p.id] = "left"]
         /\ Continue(h, l)
  /\ UNCHANGED <<kind, seen>>

(***************************************************************************)
(* Arrival: the packet is dropped, or put in a list, perhaps trimmed or in *)
(* the place of another.                                                   *)
(***************************************************************************)
Begun(h, l) == IF serv = "none" THEN BeginService(h, l) ELSE UNCHANGED <<serv, started, crt, bypass>>

DropAs(p, what) ==
  /\ fate' = Append(fate, what)
  /\ UNCHANGED <<hi, lo, bytesHi, bytesLo, serv, started, crt, path, error, bypass>>
Drop(p) == DropAs(p, "dropped")
PutHigh(p) ==
  /\ hi' = Append(hi, p) /\ bytesHi' = bytesHi + p.size
  /\ fate' = Append(fate, "queued")
  /\ Begun(hi', lo)
  /\ UNCHANGED <<lo, bytesLo, path, error>>
PutLow(p) ==
  /\ lo' = Append(lo, p) /\ bytesLo' = bytesLo + p.size
  /\ fate' = Append(fate, "queued")
  /\ Begun(hi, lo')
  /\ UNCHANGED <<hi, bytesHi, path, error>>
\* Room for the packet in either list.
HighFits(p) == bytesHi + p.size <= MaxSize
LowFits(p) == bytesLo + p.size <= MaxSize

Fifo(p) == IF LowFits(p) THEN PutLow(p) ELSE Drop(p)

Random(p) ==
  \/ bytesLo + p.size > DropThresh /\ Drop(p)
  \/ LowFits(p) /\ PutLow(p)

Cut(p) ==
  LET q == IF bytesLo + p.size > MaxSize \div 2 THEN [p EXCEPT !.size = HeaderSize] ELSE p
  IN  IF LowFits(q) THEN PutLow(q) ELSE Drop(q)

\* An arrival that does not fit is dropped itself, or replaces the newest of its list.
Replaced(s, p) == Append(Front(s), p)
ReplacedBytes(n, s, p) == n - Last(s).size + p.size
Ctrl(p) ==
  \/ p.prio = "hi" /\ HighFits(p) /\ PutHigh(p)
  \/ p.prio = "lo" /\ LowFits(p) /\ PutLow(p)
  \/ ~(IF p.prio = "hi" THEN HighFits(p) ELSE LowFits(p)) /\ Drop(p)
  \/ /\ p.prio = "hi" /\ ~HighFits(p)
     /\ hi' = Replaced(hi, p) /\ bytesHi' = ReplacedBytes(bytesHi, hi, p)
     /\ fate' = Append([fate EXCEPT ![Last(hi).id] = "dropped"], "queued")
     /\ UNCHANGED <<lo, bytesLo, serv, started, crt, path, error, bypass>>
  \/ /\ p.prio = "lo" /\ ~LowFits(p)
     /\ lo' = Replaced(lo, p) /\ bytesLo' = ReplacedBytes(bytesLo, lo, p)
     /\ fate' = Append([fate EXCEPT ![Last(lo).id] = "dropped"], "queued")
     /\ UNCHANGED <<hi, bytesHi, serv, started, crt, path, error, bypass>>

\* Droptail, but at random for the last slot.
EcnPrio(p) ==
  LET n == IF p.prio = "hi" THEN bytesHi ELSE bytesLo
  IN  \/ n + 2 * p.size > MaxSize /\ Drop(p)
      \/ n + p.size <= MaxSize /\ IF p.prio = "hi" THEN PutHigh(p) ELSE PutLow(p)

AeolusLimit(p) == IF p.prio = "lo" THEN SpecThresh ELSE MaxSize
Aeolus(p) ==
  IF p.prio = "hi" THEN IF HighFits(p) THEN PutHigh(p) ELSE Drop(p)
  ELSE IF bytesLo + p.size < AeolusLimit(p) THEN PutLow(p)
  ELSE IF p.prio = "mid" /\ bytesLo < MaxSize THEN DropAs(p, "refused") ELSE Drop(p)

\* trim_low_priority_packet: the newest packet whose path is longer than limit.
Victim(limit) == Max({i \in 1 .. Len(lo) : lo[i].len > limit})

\* A data packet is put in the low list; with limit >= 0 another is first made a header.
PutPath(p, limit) ==
  LET v == Victim(limit)
      q == IF limit < 0 THEN lo ELSE RemoveAt(lo, v)
      room == limit < 0 \/ bytesLo - lo[v].size + p.size <= MaxSize
      header == [lo[v] EXCEPT !.size = HeaderSize]
      kept == limit >= 0 /\ HighFits(header)
      n1 == IF limit < 0 THEN counts ELSE Uncounted(counts, lo[v].len)
      m1 == IF limit >= 0 /\ lo[v].len = longest THEN Longest(n1, seen, longest) ELSE longest
      n2 == [n1 EXCEPT ![p.len] = @ + 1]
  IN  /\ lo' = Append(q, p)
      /\ bytesLo' = bytesLo + p.size - (IF limit < 0 THEN 0 ELSE lo[v].size)
      /\ hi' = IF kept THEN Append(hi, header) ELSE hi
      /\ bytesHi' = IF kept THEN bytesHi + HeaderSize ELSE bytesHi
      /\ fate' = Append(IF limit < 0 \/ kept THEN fate ELSE [fate EXCEPT ![lo[v].id] = "dropped"], "queued")
      /\ counts' = n2 /\ longest' = Max({m1, p.len}) /\ seen' = Max({seen, m1, p.len})
      /\ error' = IF Checked(n1, m1) # "none" THEN Checked(n1, m1)
                  ELSE IF ~room THEN "room" ELSE Checked(n2, longest')
      /\ Begun(hi', lo')

PathHeader(p) == LET q == [p EXCEPT !.size = HeaderSize] IN IF HighFits(q) THEN PutHigh(q) ELSE Drop(q)
Shorter(p) == p.len < longest
Path(p) ==
  \/ p.prio = "hi" /\ PathHeader(p)
  \/ p.prio = "lo" /\ LowFits(p) /\ PutPath(p, -1)
  \/ p.prio = "lo" /\ ~LowFits(p) /\ Shorter(p) /\ PutPath(p, p.len)
  \/ p.prio = "lo" /\ ~LowFits(p) /\ ~Shorter(p) /\ Last(lo).len = p.len /\ PutPath(p, p.len - 1)
  \/ p.prio = "lo" /\ ~LowFits(p) /\ ~Shorter(p) /\ PathHeader(p)

Packet(size, prio, len) ==
  [id |-> Len(fate) + 1, size |-> IF prio = "hi" THEN HeaderSize ELSE size, prio |-> prio, len |-> len]

ReceivePacket(p) ==
  /\ error = "none" /\ Len(fate) < MaxPackets
  /\ \/ kind = "fifo" /\ Fifo(p)
     \/ kind = "random" /\ Random(p)
     \/ kind = "cut" /\ Cut(p)
     \/ kind = "ctrl" /\ p.prio # "mid" /\ Ctrl(p)
     \/ kind = "ecnprio" /\ p.prio # "mid" /\ EcnPrio(p)
     \/ kind = "aeolus" /\ Aeolus(p)
     \/ kind = "path" /\ p.prio # "mid" /\ Path(p)
  /\ UNCHANGED kind

\* Nothing is left to do, or the program has stopped.
Done == (error # "none" \/ (serv = "none" /\ Len(fate) = MaxPackets)) /\ UNCHANGED vars

Next ==
  \/ \E s \in Sizes, c \in {"hi", "mid", "lo"}, l \in Lens : ReceivePacket(Packet(s, c, l))
  \/ CompleteService
  \/ Done

Spec == Init /\ [][Next]_vars

-----------------------------------------------------------------------------
\* CtrlPrioQueue does not ask whether a replacement fits.
Limit == IF kind = "ctrl" THEN MaxSize + Max(Sizes) - Min(Sizes) ELSE MaxSize
\* The type of the state; neither list ever holds more than its limit, which a replacement
\* passes by the difference of two sizes at most.
TypeOK ==
  /\ kind \in {"fifo", "random", "cut", "ctrl", "ecnprio", "aeolus", "path"}
  /\ serv \in {"none", "hi", "lo"} /\ crt \in 0 .. RatioHigh
  /\ error = "none" => bytesHi \in 0 .. Limit /\ bytesLo \in 0 .. Limit
  /\ longest \in 0 .. MaxPathLen
  /\ Range(fate) \subseteq {"queued", "left", "dropped", "refused"}

\* The sizes kept beside the lists are those of the packets in them, whatever was dropped,
\* trimmed or replaced.
BytesAgree == bytesHi = Bytes(hi) /\ bytesLo = Bytes(lo)

\* A service is under way exactly when there is something to serve, so that no packet is
\* left in a queue that has stopped.
NeverIdle ==
  /\ serv = "none" <=> hi \o lo = <<>>
  /\ serv = "hi" => hi # <<>>
  /\ serv = "lo" => lo # <<>>

\* A packet is in one place: in one list once, or sent, or dropped.
Accounted ==
  \A i \in 1 .. Len(fate) :
      LET s == hi \o lo IN Cardinality({j \in 1 .. Len(s) : s[j].id = i}) = (IF fate[i] = "queued" THEN 1 ELSE 0)

\* The packet that leaves at the end of a service is the one whose drain time was waited for
\* ("start serving the item at the head of the queue", "wrap up serving the item at the head").
ServesWhatItStarted ==
  serv # "none" => (IF serv = "hi" THEN hi ELSE lo)[1].id = started

\* With a ratio the low list is passed over RatioHigh times in a row at most.
LowWaitBounded == Weighted => bypass <= RatioHigh

\* In an Aeolus queue a speculative packet never waits behind as much as its threshold, whatever
\* has been queued since.
SpeculativeNearFront ==
  kind = "aeolus" =>
    \A i \in 1 .. Len(lo) : lo[i].prio = "lo" => Bytes(SubSeq(lo, 1, i)) < SpecThresh

\* The counts of path lengths are those of the packets in the low list, and the longest is the
\* longest of them, which is what decides whom an arrival may push out.
PathCountsAgree ==
  kind = "path" =>
    /\ \A l \in 0 .. MaxPathLen : counts[l] = Cardinality({i \in 1 .. Len(lo) : lo[i].len = l})
    /\ longest = Max({lo[i].len : i \in 1 .. Len(lo)} \cup {0})
    /\ error = "none"

\* A packet that is pushed out of the low list has a path at least as long as the one that takes
\* its place, and no packet behind it in the list has a longer one than that.
ShorterPathsWinStep ==
  kind = "path" /\ Len(fate') > Len(fate) /\ lo' # <<>> /\ Last(lo').id = Len(fate') =>
    \A i \in 1 .. Len(lo) :
      lo[i].id \notin {lo'[j].id : j \in 1 .. Len(lo')} =>
        /\ lo[i].len >= Last(lo').len
        /\ \A j \in i + 1 .. Len(lo) : lo[j].len <= Last(lo').len

\* "assert(_queuesize_low + pkt.size() <= _maxsize)": one trimmed packet makes room for the arrival.
\* The code does not keep this: see section 3 of the README.
TrimMakesRoom == error # "room"

\* check_queued never throws for a packet whose path length the counters have a place for.
\* The code does not keep this: see section 3 of the README.
ChecksHold == error # "check_queued"

\* "medium priority packets are admitted as long as _queuesize_low < maxsize".
\* The code does not keep this: see section 3 of the README.
MidAdmitted == "refused" \notin Range(fate)
=============================================================================
