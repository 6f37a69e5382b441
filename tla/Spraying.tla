------------------------------ MODULE Spraying ------------------------------
(***************************************************************************)
(* The path of each packet of a sender that sprays: oblivious, by a bitmap *)
(* of penalties, by recycling the paths of good acknowledgements (REPS),   *)
(* and the mix of the last two.                                            *)
(*                                                                         *)
(* A path is the low bits of an entropy; the upper bits never change.  One *)
(* path may fail: what is on it is lost and nothing is heard of it.        *)
(***************************************************************************)
EXTENDS Integers, Sequences, FiniteSets, Bitwise, SequencesExt

CONSTANTS
    Algorithm,      \* "oblivious", "bitmap", "REPS" or "mixed"
    NoOfPaths,      \* _no_of_paths
    MaxPenalty,     \* _max_penalty
    Cwnd,           \* packets in flight
    Window,         \* the first window of REPS, in packets
    Warm,           \* no path is marked before so many good acknowledgements counted
    SkipCap,        \* bound: _ev_skip_count stays at it
    Marks,          \* bound: ECN marks and NACKs
    MayFail         \* whether a path may fail

\* What this module assumes of its constants.
SprayingAssumption ==
    /\ Algorithm \in {"oblivious", "bitmap", "REPS", "mixed"}
    /\ NoOfPaths \in {2, 4, 8, 16}        \* "must be a power of 2"
    /\ {MaxPenalty, Cwnd, Window, Warm, SkipCap, Marks} \subseteq Nat
    /\ Warm <= SkipCap /\ MayFail \in BOOLEAN

Paths == 0 .. NoOfPaths - 1

VARIABLES
    penalty,    \* _ev_skip_bitmap
    skips,      \* _ev_skip_count
    at,         \* [index |-> _current_ev_index, mix |-> _path_xor]
    crt,        \* _crt_path
    recycled,   \* _next_pathid
    flight,     \* packets in flight on each path
    sent,       \* packets sent, up to the first window
    marks,      \* ECN marks and NACKs so far
    used,       \* history: the paths used since _path_xor was drawn
    aborted,    \* the assertion on _ev_skip_count failed
    failed,     \* the paths that failed
    debt        \* history: packets in flight, recycled or drawn on a failed path

vars == <<penalty, skips, at, crt, recycled, flight, sent, marks, used, aborted, failed, debt>>

-----------------------------------------------------------------------------
(* nextEntropy *)

PathAt(a) == (a.index ^^ a.mix) % NoOfPaths

\* The next index; after the last one the order is drawn again.
Advanced(a) ==
    IF a.index + 1 < NoOfPaths THEN {[a EXCEPT !.index = @ + 1]}
    ELSE {[index |-> 0, mix |-> m] : m \in Paths}

\* Where the search for a path without penalty may end.
RECURSIVE Searched(_, _, _)
Searched(pen, a, counter) ==
    IF pen[PathAt(a)] = 0 \/ counter = NoOfPaths THEN {a}
    ELSE UNION {Searched(pen, b, counter + 1) : b \in Advanced(a)}

\* The first path looked at pays one of its penalty, and only that path.
Paid(first) == [penalty EXCEPT ![first] = IF @ > 0 THEN @ - 1 ELSE 0]

Smaller(a, b) == IF a < b THEN a ELSE b
InFlight == FoldFunction(LAMBDA x, y : x + y, 0, flight)

Take(p) ==
    /\ flight' = [flight EXCEPT ![p] = @ + 1]
    /\ sent' = Smaller(sent + 1, Window)
    /\ UNCHANGED <<marks, failed>>

Recycles(p) == Len(SelectSeq(recycled, LAMBDA q : q = p))

\* A path drawn afresh may be a failed one; a recycled one was counted before.
Explored(p) == debt' = IF p \in failed THEN debt + 1 ELSE debt

NextOblivious ==
    /\ at' \in Advanced(at)
    /\ Take(PathAt(at)) /\ Explored(PathAt(at))
    /\ used' = IF at'.index = 0 THEN {} ELSE used \cup {PathAt(at)}
    /\ UNCHANGED <<penalty, skips, crt, recycled, aborted>>

\* A path without penalty, unless the search comes to its end.
NextBitmap ==
    LET first == PathAt(at)
        cleared == penalty[first] = 1 /\ Paid(first)[first] = 0
        ends == IF penalty[first] = 0 THEN {at}
                ELSE UNION {Searched(Paid(first), b, 1) : b \in Advanced(at)}
    IN  /\ \E a \in ends :
             /\ at' \in Advanced(a)
             /\ Take(PathAt(a)) /\ Explored(PathAt(a))
        /\ penalty' = Paid(first)
        /\ skips' = IF cleared /\ skips > 0 THEN skips - 1 ELSE skips
        /\ aborted' = (cleared /\ skips = 0)
        /\ UNCHANGED <<crt, recycled, used>>

Popped(s) == Tail(s)

NextRecycled ==
    /\ recycled # <<>>
    /\ crt' = Head(recycled) /\ recycled' = Popped(recycled)
    /\ Take(Head(recycled))
    /\ UNCHANGED <<penalty, skips, at, used, aborted, debt>>

NextREPS ==
    IF sent >= Window /\ recycled # <<>> THEN NextRecycled
    ELSE /\ crt' \in IF sent < Window THEN {(crt + 1) % NoOfPaths} ELSE Paths
         /\ Take(crt') /\ Explored(crt')
         /\ UNCHANGED <<penalty, skips, at, recycled, used, aborted>>

NextMixed == IF recycled = <<>> THEN NextBitmap ELSE NextRecycled

Send ==
    /\ ~aborted /\ InFlight < Cwnd
    /\ CASE Algorithm = "oblivious" -> NextOblivious
         [] Algorithm = "bitmap"    -> NextBitmap
         [] Algorithm = "REPS"      -> NextREPS
         [] OTHER                   -> NextMixed

-----------------------------------------------------------------------------
(* processEv *)

Weight(feedback) == CASE feedback = "ECN" -> 1 [] feedback = "NACK" -> 4 [] OTHER -> 0

Penalty(p, feedback) == [penalty EXCEPT ![p] = Smaller(@ + Weight(feedback), MaxPenalty)]

\* What is counted is good feedback on a path without penalty.
ProcessBitmap(p, feedback) ==
    /\ penalty' = Penalty(p, feedback)
    /\ skips' = IF feedback = "GOOD" /\ penalty[p] = 0 THEN Smaller(skips + 1, SkipCap) ELSE skips

ProcessREPS(p, feedback) ==
    recycled' = IF feedback = "GOOD" THEN Append(recycled, p) ELSE recycled

ProcessEv ==
    \E p \in Paths \ failed, feedback \in {"GOOD", "ECN", "NACK"} :
        /\ ~aborted /\ flight[p] > 0
        /\ feedback # "GOOD" => marks < Marks /\ (marks > 0 \/ skips >= Warm)
        /\ marks' = IF feedback = "GOOD" THEN marks ELSE marks + 1
        /\ flight' = [flight EXCEPT ![p] = @ - 1]
        /\ IF Algorithm \in {"bitmap", "mixed"} THEN ProcessBitmap(p, feedback)
           ELSE UNCHANGED <<penalty, skips>>
        /\ IF Algorithm \in {"REPS", "mixed"} THEN ProcessREPS(p, feedback)
           ELSE UNCHANGED recycled
        /\ UNCHANGED <<at, crt, sent, used, aborted, failed, debt>>

\* A path fails: what is in flight on it will not be heard of.
Fail ==
    \E p \in Paths :
        /\ MayFail /\ failed = {} /\ ~aborted
        /\ failed' = {p}
        /\ debt' = flight[p] + Recycles(p)
        /\ UNCHANGED <<penalty, skips, at, crt, recycled, flight, sent, marks, used, aborted>>

\* The sender gives up on a packet of a failed path.
Lost ==
    \E p \in failed :
        /\ ~aborted /\ flight[p] > 0
        /\ flight' = [flight EXCEPT ![p] = @ - 1] /\ debt' = debt - 1
        /\ UNCHANGED <<penalty, skips, at, crt, recycled, sent, marks, used, aborted, failed>>

Init ==
    /\ penalty = [p \in Paths |-> 0] /\ skips = 0
    /\ at \in {[index |-> 0, mix |-> m] : m \in Paths}
    /\ crt = 0 /\ recycled = <<>>
    /\ flight = [p \in Paths |-> 0] /\ sent = 0 /\ marks = 0
    /\ used = {} /\ aborted = FALSE /\ failed = {} /\ debt = 0

Next == Send \/ ProcessEv \/ Fail \/ Lost

Spec == Init /\ [][Next]_vars

-----------------------------------------------------------------------------
(* Properties *)

\* Penalties stay within their maximum and what is recycled is bounded.
TypeOK ==
    /\ \A p \in Paths : penalty[p] \in 0 .. MaxPenalty
    /\ at.index \in Paths /\ at.mix \in Paths
    /\ crt \in Paths /\ Len(recycled) <= Window + Cwnd

\* Oblivious spraying uses every path once before it uses one again.
EveryPathOnce == Algorithm = "oblivious" => Cardinality(used) = at.index

\* After a path fails, no more is sent on it than was in flight or recycled at
\* that moment or is drawn afresh: no acknowledgement is used twice.
StaleUsesBounded == \A p \in failed : flight[p] + Recycles(p) <= debt

\* The assertion of nextEntropy_bitmap, on the count of penalised paths.
\* The code does not keep this: see section 3 of the README.
SkipCountPositive == ~aborted

\* No path is passed over.
NonePenalised == \A p \in Paths : penalty[p] = 0

=============================================================================
