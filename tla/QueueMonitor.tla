---------------------------- MODULE QueueMonitor ----------------------------
(***************************************************************************)
(* How busy a queue has been: BaseQueue keeps the start and end of each    *)
(* transmission that ended within the last _window and their total, which  *)
(* adaptive routing reads in four bands, at most once per _update_period.  *)
(***************************************************************************)
EXTENDS Integers, Sequences, FiniteSetsExt, SequencesExt

CONSTANTS
  Window,      \* _window
  Period,      \* _update_period
  Begin,       \* the time at which the queue is first used
  Durations,   \* drain times
  MaxTime      \* bound: end of the run

\* What this module assumes of its constants.
TimeAssumption == Window \in Nat \ {0} /\ Period \in Nat /\ Begin \in Nat

VARIABLES
  now,
  spans,    \* _busystart and _busyend, oldest first
  busy,     \* _busy
  updated,  \* _last_update_utilization
  band,     \* _last_utilization
  sent,     \* history: all transmissions, in the order they ended
  fresh     \* history: the last read renewed the band

vars == <<now, spans, busy, updated, band, sent, fresh>>

Init ==
  /\ now = Begin
  /\ spans = <<>> /\ busy = 0 /\ updated = 0 /\ band = 0 /\ sent = <<>> /\ fresh = FALSE

Lengths(s) == FoldSeq(LAMBDA x, n : n + x[2] - x[1], 0, s)

\* Times are unsigned: before one window has passed, the subtraction wraps round and
\* everything is older.
Expired(x, t) == t < Window \/ x[2] < t - Window

\* What remains of s at time t, its oldest being taken off until one has not expired.
Pruned(s, t) ==
  LET kept == {i \in 1 .. Len(s) : ~Expired(s[i], t)}
  IN  IF kept = {} THEN <<>> ELSE SubSeq(s, Min(kept), Len(s))

BusyAfter(n, s, kept) == n - (Lengths(s) - Lengths(kept))

Pass == now < MaxTime /\ now' = now + 1 /\ UNCHANGED <<spans, busy, updated, band, sent, fresh>>

\* log_packet_send: a transmission of this duration ends now.
LogPacketSend(d) ==
  LET s == Append(spans, <<now - d, now>>)
      kept == Pruned(s, now)
  IN  /\ d <= now - Begin /\ (sent # <<>> => Last(sent)[2] <= now - d)
      /\ spans' = kept /\ busy' = BusyAfter(busy + d, s, kept)
      /\ sent' = Append(sent, <<now - d, now>>) /\ fresh' = FALSE
      /\ UNCHANGED <<now, updated, band>>

Percent(n) == (n * 100) \div Window
Band(n) == IF n = 0 THEN 0 ELSE IF n < 15 THEN 1 ELSE IF n < 50 THEN 2 ELSE 3

\* quantized_utilization
Read ==
  /\ IF now - updated > Period
     THEN LET kept == Pruned(spans, now)
          IN  /\ spans' = kept /\ busy' = BusyAfter(busy, spans, kept)
              /\ updated' = now /\ band' = Band(Percent(busy')) /\ fresh' = TRUE
     ELSE fresh' = FALSE /\ UNCHANGED <<spans, busy, updated, band>>
  /\ UNCHANGED <<now, sent>>

Next == Pass \/ Read \/ \E d \in Durations : LogPacketSend(d)
Spec == Init /\ [][Next]_vars

-----------------------------------------------------------------------------
\* The total is that of the transmissions that are kept, and never more than a window and the
\* one transmission that may have begun before it.
BusyAgrees ==
  busy = Lengths(spans) /\ busy <= Window + Max(Durations)

Recent == SelectSeq(sent, LAMBDA x : x[2] >= now - Window)
\* A band that has just been renewed is that of the transmissions which ended within the window
\* ("how much time have we spent being busy in the current measurement window?").
BandIsTrue == fresh /\ updated = now => band = Band(Percent(Lengths(Recent)))
=============================================================================
