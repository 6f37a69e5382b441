------------------------------ MODULE Rerouting ------------------------------
(***************************************************************************)
(* The sender's load balancers that keep a path until they find it         *)
(* congested: RSS with subflows, USS, FlowBender and flowlets.             *)
(*                                                                         *)
(* A path is an entropy.  Timers count down or up and stop at their limit. *)
(* The entropies of precise fast loss recovery are in Pflr.                *)
(***************************************************************************)
EXTENDS Integers, FiniteSets, FiniteSetsExt

CONSTANTS
    Algorithm,      \* "RSS", "USS", "FlowBender" or "flowlet"
    Metric,         \* _rss_worse_entropy_metric: "mean", "ecn" or "worse"
    Subflows,       \* how many
    Bits,           \* _rss_number_of_subflow_bits
    Width,          \* bits of an entropy
    Draws,          \* what rand() returns
    BadPaths,       \* the congested entropies
    BadRtt,         \* round trip time of a congested path; 1 of another
    Threshold,      \* in tenths
    SkipRounds,     \* max_number_of_rounds_to_skip
    Interval, Jitter, Cooldown,     \* RSS: of updates, and after a timeout
    BaseRtt, FlowletTimeout, Rto,   \* FlowBender and flowlets
    Rounds,         \* consecutive_rtt_number
    LogFrequency,   \* USS_LOG_FREQUENCY
    Spans,          \* whether an interval spans many round trips of every subflow
    Timeouts,       \* whether packets time out
    MaxPkts         \* bound: feedback counted per subflow and interval

\* What this module assumes of its constants.
ReroutingAssumption ==
    /\ Algorithm \in {"RSS", "USS", "FlowBender", "flowlet"}
    /\ Metric \in {"mean", "ecn", "worse"}
    /\ {Subflows, Bits, Width, Interval, MaxPkts, Rounds, LogFrequency, BadRtt} \subseteq Nat \ {0}
    /\ {Threshold, SkipRounds, Jitter, Cooldown, BaseRtt, FlowletTimeout, Rto} \subseteq Nat
    /\ Draws \subseteq Nat /\ BadPaths \subseteq 0 .. 2^Width - 1
    /\ Jitter < Interval /\ Spans \in BOOLEAN /\ Timeouts \in BOOLEAN

SubflowIds == 0 .. Subflows - 1
NotSet == 1000          \* UINT64_MAX
Longest == Max({Cooldown, BaseRtt, FlowletTimeout, Rto, Interval + Jitter}) + 1

VARIABLES
    entropy,    \* _rss_state_entropies, _flowbender_stats._entropy, flowlet_entropy
    before,     \* history: the entropy before; its packets may still be in flight
    stats,      \* per subflow: packets, ECN marks, sum and maximum of round trip times
    update,     \* time to _rss_next_update_time
    skip,       \* _rss_number_of_rounds_to_skip
    bumped,     \* time since _rss_last_reroute_time
    quiet,      \* time since the last feedback, or the last round of FlowBender
    congested,  \* _current_consecutive_congested_rtt
    streak,     \* history: consecutive congested rounds
    moved,      \* history: time since the entropy changed
    fault       \* history: what went wrong, if anything

vars == <<entropy, before, stats, update, skip, bumped, quiet, congested, streak, moved, fault>>

NoStats == [pkts |-> 0, ecn |-> 0, sum |-> 0, worse |-> NotSet]
Path(r, s) == (r * 2^(Bits % 32) + s) % 2^Width
Rtt(p) == IF p \in BadPaths THEN BadRtt ELSE 1

\* rssSubflowFromEv.
SubflowFromEv(p) == p % 2^(Bits % 32)

\* A new entropy keeps the bits of its subflow; so do FlowBender and flowlets,
\* which have one.
Drawn(s) == {Path(r, s) : r \in Draws}

MinGap == CASE Algorithm = "FlowBender" -> BaseRtt
            [] Algorithm = "flowlet"    -> Rto
            [] OTHER                    -> Cooldown

\* Subflow s is given a new entropy.
Move(s, p) ==
    /\ before' = [before EXCEPT ![s] = entropy[s]]
    /\ entropy' = [entropy EXCEPT ![s] = p]
    /\ moved' = [moved EXCEPT ![s] = 0]

Stay == UNCHANGED <<entropy, before, moved>>
NoFault == fault' = fault
Fault(s) == fault' = IF moved[s] <= MinGap - 1 THEN "too soon" ELSE fault

-----------------------------------------------------------------------------
(* RSS and USS *)

\* The maximum is compared with UINT64_MAX, so it is never set.
Counted(p, ecn) ==
    [stats EXCEPT ![SubflowFromEv(p)] =
        [@ EXCEPT !.pkts = @ + 1, !.ecn = @ + ecn, !.sum = @ + Rtt(p),
                  !.worse = IF Rtt(p) > @ THEN Rtt(p) ELSE @]]

Reset(st) == [s \in SubflowIds |-> NoStats]

Value(st, s) ==
    IF st[s].pkts = 0 THEN IF Metric = "worse" THEN NotSet ELSE 0
    ELSE CASE Metric = "mean" -> st[s].sum \div st[s].pkts
           [] Metric = "ecn"  -> (12 * st[s].ecn) \div st[s].pkts
           [] OTHER           -> st[s].worse

\* For the mean, subflows without feedback do not count.
Best(st) ==
    LET heard == {s \in SubflowIds : Metric = "mean" => Value(st, s) > 0}
        from == IF heard = {} THEN SubflowIds ELSE heard
    IN  Min({s \in from : \A t \in from : Value(st, s) <= Value(st, t)})

Worst(st) == Min({s \in SubflowIds : \A t \in SubflowIds : Value(st, t) <= Value(st, s)})

\* The spread is compared with a share of the best, for ECN of the worst.
Alike(st) ==
    LET w == Value(st, Worst(st))
        b == Value(st, Best(st))
    IN  10 * (w - b) < Threshold * (IF Metric = "ecn" THEN w ELSE b)

Skipped ==
    IF skip > 0 THEN {skip - 1} ELSE IF SkipRounds > 0 THEN 0 .. SkipRounds - 1 ELSE {0}

\* processEv_rss when an interval is over: the worst subflow moves.
Update(st) ==
    /\ update' \in Interval - Jitter .. Interval + Jitter
    /\ IF Alike(st) \/ skip > 0 THEN Stay /\ NoFault
       ELSE \E p \in Drawn(Worst(st)) : Move(Worst(st), p) /\ Fault(Worst(st))
    /\ stats' = Reset(st) /\ skip' \in Skipped

ProcessRSS(p, ecn) ==
    IF update = 0 THEN Update(Counted(p, ecn))
    ELSE stats' = Counted(p, ecn) /\ Stay /\ NoFault /\ UNCHANGED <<update, skip>>

\* processEv_uss only keeps statistics.
ProcessUSS(p, ecn) ==
    LET st == Counted(p, ecn)
    IN  /\ stats' = IF st[SubflowFromEv(p)].pkts >= LogFrequency THEN Reset(st) ELSE st
        /\ Stay /\ NoFault /\ UNCHANGED <<update, skip>>

Cooled(s) == bumped[s] >= Cooldown

\* rssBumpEntropyForSubflow, when a packet of the subflow times out.
Timeout ==
    \E s \in SubflowIds :
        /\ Algorithm = "RSS" /\ Timeouts /\ Cooled(s)
        /\ bumped' = [bumped EXCEPT ![s] = 0]
        /\ \E p \in Drawn(s) : Move(s, p)
        /\ Fault(s)
        /\ UNCHANGED <<stats, update, skip, quiet, congested, streak>>

-----------------------------------------------------------------------------
(* FlowBender: a new entropy after rounds with too many marks *)

RoundOver == quiet > BaseRtt

Persistent == congested + 1 >= Rounds

\* The count of congested rounds is reset with the statistics of each round.
ProcessFlowBender(ecn) ==
    LET st == [stats[0] EXCEPT !.pkts = @ + 1, !.ecn = @ + ecn]
        bad == 10 * st.ecn > Threshold * st.pkts
        run == IF bad THEN streak + 1 ELSE 0
        moves == bad /\ Persistent
    IN  IF ~RoundOver
        THEN /\ stats' = [stats EXCEPT ![0] = st]
             /\ Stay /\ NoFault /\ UNCHANGED <<quiet, congested, streak>>
        ELSE /\ stats' = Reset(stats) /\ quiet' = 0 /\ congested' = 0
             /\ streak' = IF moves THEN 0 ELSE Min({run, Rounds})
             /\ IF moves THEN \E p \in Drawn(0) : Move(0, p) /\ Fault(0)
                ELSE Stay /\ fault' = IF run >= Rounds THEN "not moved" ELSE fault

-----------------------------------------------------------------------------
(* Flowlets: a new entropy after a gap *)

Gap == quiet > FlowletTimeout /\ moved[0] > Rto

SendAfterGap ==
    /\ Algorithm = "flowlet" /\ Gap
    /\ \E p \in Drawn(0) : Move(0, p)
    /\ Fault(0)
    /\ UNCHANGED <<stats, update, skip, bumped, quiet, congested, streak>>

-----------------------------------------------------------------------------

IntervalOver == (Algorithm = "RSS" /\ update = 0) \/ (Algorithm = "FlowBender" /\ RoundOver)

\* Feedback on the old path is negligible in an interval of many round trip times.
Stale(s) == IF Spans THEN {} ELSE {before[s]}

\* Feedback on a packet sent with the entropy of its subflow, or the one before;
\* only congested paths mark.
ProcessEv ==
    \E s \in SubflowIds, ecn \in {0, 1} : \E p \in {entropy[s]} \cup Stale(s) :
        /\ ecn = 1 => p \in BadPaths
        /\ stats[SubflowFromEv(p)].pkts < MaxPkts \/ IntervalOver
        /\ CASE Algorithm = "RSS" -> ProcessRSS(p, ecn) /\ UNCHANGED <<quiet, congested, streak>>
             [] Algorithm = "USS" -> ProcessUSS(p, ecn) /\ UNCHANGED <<quiet, congested, streak>>
             [] Algorithm = "FlowBender" -> ProcessFlowBender(ecn) /\ UNCHANGED <<update, skip>>
             [] OTHER ->
                    quiet' = 0 /\ Stay /\ NoFault /\ UNCHANGED <<stats, update, skip, congested, streak>>
        /\ UNCHANGED bumped

Later(t) == Min({t + 1, Longest})

Tick ==
    /\ Spans /\ update = 1 => \A s \in SubflowIds : stats[s].pkts > 0
    /\ update' = Max({update - 1, 0}) /\ quiet' = Later(quiet)
    /\ bumped' = [s \in SubflowIds |-> Later(bumped[s])]
    /\ moved' = [s \in SubflowIds |-> Later(moved[s])]
    /\ UNCHANGED <<entropy, before, stats, skip, congested, streak, fault>>

\* The first entropies are drawn; nothing has been rerouted.
Init ==
    /\ entropy \in {e \in [SubflowIds -> 0 .. 2^Width - 1] : \A s \in SubflowIds : e[s] \in Drawn(s)}
    /\ before = entropy /\ stats = [s \in SubflowIds |-> NoStats]
    /\ update = Interval /\ skip = 0
    /\ bumped = [s \in SubflowIds |-> 0] /\ moved = [s \in SubflowIds |-> Longest]
    /\ quiet = 0 /\ congested = 0 /\ streak = 0 /\ fault = "none"

Next == ProcessEv \/ Timeout \/ SendAfterGap \/ Tick

Spec == Init /\ [][Next]_vars

-----------------------------------------------------------------------------
(* Properties *)

\* Counters and timers stay within their limits.
TypeOK ==
    /\ entropy \in [SubflowIds -> 0 .. 2^Width - 1]
    /\ skip \in 0 .. Max({SkipRounds - 1, 0}) /\ update \in 0 .. Interval + Jitter
    /\ congested \in 0 .. Rounds

\* "last _rss_number_of_subflow_bits are the subflow id": what is heard of a
\* packet counts for the subflow it was sent on, across any number of moves.
Attributed == \A s \in SubflowIds : SubflowFromEv(entropy[s]) = s /\ SubflowFromEv(before[s]) = s

\* The assertions of processEv_rss and processEv_uss: a subflow without packets
\* in the interval has no marks and no times.
UnheardIsClean == \A s \in SubflowIds : stats[s].pkts = 0 => stats[s] = NoStats

\* The largest round trip time of a subflow that was heard is set.
\* The code does not keep this: see section 3 of the README.
WorseIsSet == \A s \in SubflowIds : stats[s].pkts > 0 => stats[s].worse # NotSet

\* The entropy of a subflow does not change again within its minimum gap, so
\* that feedback on the new path can arrive.
NoThrashing == fault # "too soon"

\* FlowBender moves after so many consecutive congested rounds.
MovesWhenCongested == fault # "not moved"

\* The paths of the subflows are alike.
PathsAlike == (\A s \in SubflowIds : entropy[s] \in BadPaths) \/ (\A s \in SubflowIds : entropy[s] \notin BadPaths)

=============================================================================
