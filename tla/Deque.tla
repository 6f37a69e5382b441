------------------------------- MODULE Deque -------------------------------
\* What CircularBuffer promises: a queue whose newest element can also be taken back.
EXTENDS Integers, Sequences

CONSTANT Value
VARIABLE content   \* oldest first

Init == content = <<>>
Push(v) == content' = Append(content, v)
Pop == content # <<>> /\ content' = Tail(content)
PopFront == content # <<>> /\ content' = SubSeq(content, 1, Len(content) - 1)
Next == (\E v \in Value : Push(v)) \/ Pop \/ PopFront
Spec == Init /\ [][Next]_content
=============================================================================
