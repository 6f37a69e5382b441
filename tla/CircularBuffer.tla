--------------------------- MODULE CircularBuffer ---------------------------
(***************************************************************************)
(* CircularBuffer, the ring every queue keeps its packets in: an array     *)
(* that doubles when it would fill up, with the part that had wrapped      *)
(* round moved behind the rest.                                            *)
(***************************************************************************)
EXTENDS Integers, Sequences

CONSTANTS
  Value,
  StartSize,   \* _size of a new buffer
  Unset,       \* what a slot that has never been written holds
  MaxSize      \* bound: the array does not grow further than this

\* What this module assumes of its constants.
StartAssumption == StartSize \in Nat /\ StartSize >= 2 /\ Unset \notin Value

VARIABLES slots, nextPush, nextPop, count
vars == <<slots, nextPush, nextPop, count>>

\* Slots are numbered from 0, as in the code.
Size == Len(slots)
Slot(i) == slots[i + 1]

Init ==
  /\ slots = [i \in 1 .. StartSize |-> Unset]
  /\ nextPush = 0 /\ nextPop = 0 /\ count = 0

\* Mutant: what had wrapped round stays where it was.
GrownUnmoved == slots \o [i \in 1 .. Size |-> Unset]
\* The array after it has doubled.
Grown == slots \o [i \in 1 .. Size |-> IF nextPush < nextPop /\ i <= nextPush THEN slots[i] ELSE Unset]

Full == count + 1 = Size

Push(v) ==
  LET a == IF Full THEN Grown ELSE slots
      at == IF Full /\ nextPush < nextPop THEN nextPush + Size ELSE nextPush
  IN  /\ Full => 2 * Size <= MaxSize
      /\ slots' = [a EXCEPT ![at + 1] = v]
      /\ nextPush' = (at + 1) % Len(a)
      /\ count' = count + 1
      /\ UNCHANGED nextPop

Pop ==
  /\ count > 0
  /\ nextPop' = (nextPop + 1) % Size /\ count' = count - 1
  /\ UNCHANGED <<slots, nextPush>>

PopFront ==
  /\ count > 0
  /\ nextPush' = (nextPush + Size - 1) % Size /\ count' = count - 1
  /\ UNCHANGED <<slots, nextPop>>

Next == (\E v \in Value : Push(v)) \/ Pop \/ PopFront
Spec == Init /\ [][Next]_vars

-----------------------------------------------------------------------------
\* Through any growth and wrapping, the buffer is the queue it replaces ("a resizable circular
\* buffer intended to replace a List as a queue").
Contents == [i \in 1 .. count |-> Slot((nextPop + i - 1) % Size)]
D == INSTANCE Deque WITH content <- Contents
IsDeque == D!Spec

\* validate(): the two positions and the count agree, and the array is never quite full.
Valid ==
  /\ count < Size /\ nextPush < Size /\ nextPop < Size
  /\ (nextPush - nextPop + Size) % Size = count
=============================================================================
