---------------------------- MODULE SharedQueue ----------------------------
(***************************************************************************)
(* The output ports of a switch that share one buffer: SharedQueue admits, *)
(* trims or drops a packet by its class's share of what is left of the     *)
(* SwitchBuffer, and DwrrQosScheduler chooses the class to serve when a    *)
(* service begins; the packet leaves when it ends.  ECN marking, which no  *)
(* property is about, is left out.                                         *)
(***************************************************************************)
EXTENDS Integers, Sequences, FiniteSets, FiniteSetsExt, SequencesExt

CONSTANTS
  Ports,       \* the output ports of the switch
  Sizes,       \* packet sizes
  TrimSize,    \* size of a trimmed packet, 0 when trimming is disabled
  Buffer,      \* _max_buffer_size
  Alpha,       \* _alpha of each class, as a pair <<numerator, denominator>>
  Weight,      \* _weights of each class
  CapFactor,   \* _cap_factor
  Offered,     \* the classes that packets arrive in
  Pairs        \* the pairs of classes whose shares are compared

Classes == 0 .. 2
PrioHigh == 2      \* PRIO_HI, which a trimmed packet takes

\* What this module assumes of its constants.
SizeAssumption ==
  IsFiniteSet(Ports) /\ Sizes \subseteq Nat \ {0} /\ TrimSize \in Nat /\ Buffer \in Nat
\* What this module assumes of its constants.
ShareAssumption == \A c \in Classes : Alpha[c] \in (Nat \ {0}) \X (Nat \ {0})
WeightAssumption == Weight \in [Classes -> Nat] /\ CapFactor \in Nat /\ Offered \subseteq Classes
PairAssumption == Pairs \subseteq {pair \in Classes \X Classes : pair[1] # pair[2]}

VARIABLES
  queue,    \* _buffer_per_qos: sizes of the packets of each class, oldest first
  bytes,    \* _bytes_queued_per_qos
  used,     \* _bytes_in_buffer of the switch
  tokens,   \* _current_tokens
  last,     \* _last_qos_chosen
  chosen,   \* _qos_to_dequeue_next
  error,    \* the exception that has been thrown, if any
  lead      \* history: how far one class is ahead of another, weighted, since
            \* both have had packets

vars == <<queue, bytes, used, tokens, last, chosen, error, lead>>

Init ==
  /\ queue = [p \in Ports |-> [c \in Classes |-> <<>>]]
  /\ bytes = [p \in Ports |-> [c \in Classes |-> 0]]
  /\ used = 0
  /\ tokens = [p \in Ports |-> Weight]
  /\ last = [p \in Ports |-> 2] /\ chosen = [p \in Ports |-> 0]
  /\ error = "none"
  /\ lead = [p \in Ports |-> [pair \in Pairs |-> 0]]

Sum3(f) == f[0] + f[1] + f[2]
Empty(p) == Sum3(bytes[p]) = 0

(***************************************************************************)
(* The scheduler: round robin over the classes that can pay for their      *)
(* first packet; when none can, all tokens are refreshed once.             *)
(***************************************************************************)
Turn(l, i) == (l + i) % 3
Payable(q, t, c) == q[c] # <<>> /\ t[c] >= Head(q[c])
\* The class chosen with tokens t after class l, or -1.
TrySelect(q, t, l) ==
  LET able == {i \in 1 .. 3 : Payable(q, t, Turn(l, i))}
  IN  IF able = {} THEN -1 ELSE Turn(l, Min(able))
Refreshed(t) == [c \in Classes |-> Min({t[c] + Weight[c], Weight[c] * CapFactor})]

\* Mutant: the highest class that has packets, whatever tokens it has.
SelectStrict(q, t, l) ==
  [class |-> Max({c \in Classes : q[c] # <<>>} \cup {0}), tokens |-> t, ok |-> TRUE]
Select(q, t, l) ==
  LET first == TrySelect(q, t, l)
      fresh == Refreshed(t)
      second == TrySelect(q, fresh, l)
      \* three steps of the round bring _last_qos_chosen back to where it was
      paid(u, c) == [u EXCEPT ![c] = @ - Head(q[c])]
  IN  IF first # -1 THEN [class |-> first, tokens |-> paid(t, first), ok |-> TRUE]
      ELSE IF second # -1 THEN [class |-> second, tokens |-> paid(fresh, second), ok |-> TRUE]
      ELSE [class |-> l, tokens |-> fresh, ok |-> FALSE]

\* Weighted bytes by which class a of port p leads class b; it counts while both
\* have packets.
Led(p, q, c, n) ==
  [pair \in Pairs |->
    LET a == pair[1]  b == pair[2]
    IN  IF queue[p][a] = <<>> \/ queue[p][b] = <<>> \/ q[a] = <<>> \/ q[b] = <<>> THEN 0
        ELSE IF c = a THEN lead[p][pair] + n * Weight[b]
        ELSE IF c = b THEN lead[p][pair] - n * Weight[a]
        ELSE lead[p][pair]]

\* beginService of port p with lists q.
BeginService(p, q) ==
  LET s == Select(q, tokens[p], last[p])
  IN  /\ tokens' = [tokens EXCEPT ![p] = s.tokens]
      /\ last' = [last EXCEPT ![p] = s.class]
      /\ chosen' = [chosen EXCEPT ![p] = IF s.ok THEN s.class ELSE @]

(***************************************************************************)
(* A packet arrives.                                                       *)
(***************************************************************************)
CanStore(p, c, n) == Alpha[c][2] * (bytes[p][c] + n) <= Alpha[c][1] * (Buffer - used)

\* The class and size with which the packet is stored, or nothing.
Admitted(p, c, n) ==
  IF CanStore(p, c, n) THEN {<<c, n>>}
  ELSE IF TrimSize > 0 /\ c # PrioHigh /\ CanStore(p, PrioHigh, TrimSize) THEN {<<PrioHigh, TrimSize>>}
  ELSE {}

Enqueue(p, c, n) ==
  LET q == [queue[p] EXCEPT ![c] = Append(@, n)]
      fits == used + n <= Buffer
      served == ~Empty(p) \/ Select(q, tokens[p], last[p]).ok
  IN  /\ queue' = [queue EXCEPT ![p] = q]
      /\ bytes' = [bytes EXCEPT ![p][c] = @ + n]
      /\ used' = IF fits THEN used + n ELSE used
      /\ error' = IF ~fits THEN "overflow" ELSE IF ~served THEN "tokens" ELSE "none"
      /\ IF Empty(p) /\ fits THEN BeginService(p, q) ELSE UNCHANGED <<tokens, last, chosen>>
      /\ UNCHANGED lead

ReceivePacket(p, c, n) ==
  /\ error = "none"
  /\ \E a \in Admitted(p, c, n) : Enqueue(p, a[1], a[2])

(***************************************************************************)
(* The chosen packet leaves.                                               *)
(***************************************************************************)
Freed(n) == used - n

CompleteService(p) ==
  /\ error = "none" /\ ~Empty(p)
  /\ LET c == chosen[p]
         n == Head(queue[p][c])
         q == [queue[p] EXCEPT ![c] = Tail(@)]
         more == Sum3(bytes[p]) > n
     IN  /\ queue' = [queue EXCEPT ![p] = q]
         /\ bytes' = [bytes EXCEPT ![p][c] = @ - n]
         /\ used' = Freed(n)
         /\ error' = IF used < n THEN "underflow"
                     ELSE IF more /\ ~Select(q, tokens[p], last[p]).ok THEN "tokens" ELSE "none"
         /\ IF more THEN BeginService(p, q) ELSE UNCHANGED <<tokens, last, chosen>>
         /\ lead' = [lead EXCEPT ![p] = Led(p, q, c, n)]

Next ==
  \/ \E p \in Ports, c \in Offered, n \in Sizes : ReceivePacket(p, c, n)
  \/ \E p \in Ports : CompleteService(p)

Spec == Init /\ [][Next]_vars

-----------------------------------------------------------------------------
\* The type of the state; no class ever has more tokens than its cap.
TypeOK ==
  /\ \A p \in Ports, c \in Classes : queue[p][c] \in Seq(Sizes \cup {TrimSize})
  /\ \A p \in Ports : last[p] \in Classes /\ chosen[p] \in Classes
  /\ \A p \in Ports, c \in Classes : tokens[p][c] \in 0 .. CapFactor * Weight[c]
  /\ used \in 0 .. Buffer
  /\ error \in {"none", "overflow", "underflow", "tokens"}

\* The switch's count is the bytes of all packets in all its ports, and it never
\* passes the size of the buffer ("ensures that the buffer does not overflow").
BufferAccounted ==
  /\ error \notin {"overflow", "underflow"}
  /\ used = MapThenSumSet(LAMBDA p : Sum3(bytes[p]), Ports)
  /\ \A p \in Ports, c \in Classes : bytes[p][c] = FoldSeq(+, 0, queue[p][c])

\* After a refresh some class can send its first packet ("There has to be at
\* least one packet to dequeue after refreshing tokens").
RefreshSuffices == error # "tokens"

\* While two classes both have packets, neither gets ahead of the other by more
\* than the tokens it can have saved and what a refresh leaves the other with.
WeightedFair ==
  \A p \in Ports : \A pair \in Pairs :
      lead[p][pair] <= (CapFactor + 2) * Weight[pair[1]] * Weight[pair[2]] - Weight[pair[1]]
=============================================================================
