------------------------------ MODULE EventList ------------------------------
(***************************************************************************)
(* The event list: what is to happen, in the order of time and, at one     *)
(* time, in the order in which it was asked for.  A source that wants to   *)
(* take an event back keeps its handle.  The operators here change a list, *)
(* a record, for the module of a component that runs on it.                *)
(***************************************************************************)
EXTENDS Integers, Sequences, FiniteSets, SequencesExt

NullHandle == 0
\* An empty list; nothing runs at end or later, unless it is 0.
EmptyList(end) == [now |-> 0, end |-> end, pending |-> <<>>, fault |-> "none"]

Handles(el) == {el.pending[i].handle : i \in DOMAIN el.pending}
\* Handles are used again; the number only tells the pending events apart.
NewHandle(el) == CHOOSE h \in 1 .. Len(el.pending) + 1 : h \notin Handles(el) /\ \A g \in 1 .. h - 1 : g \in Handles(el)
TooLate(el, at) == el.end # 0 /\ at >= el.end

Inserted(pending, e) ==
  SelectSeq(pending, LAMBDA f : f.at <= e.at) \o <<e>> \o SelectSeq(pending, LAMBDA f : f.at > e.at)

\* sourceIsPending: an event of source src at a time that has not passed.
SourceIsPending(el, src, at) ==
  IF at < el.now THEN [el EXCEPT !.fault = "in the past"]
  ELSE IF TooLate(el, at) THEN el
  ELSE [el EXCEPT !.pending = Inserted(@, [at |-> at, src |-> src, handle |-> NewHandle(el)])]
\* The handle sourceIsPendingGetHandle returns for that event.
HandleOf(el, at) == IF TooLate(el, at) THEN NullHandle ELSE NewHandle(el)

Pending(el, src, h) == \E i \in DOMAIN el.pending : el.pending[i].handle = h /\ el.pending[i].src = src
\* The assertions ask for a handle that is not null and an event of that source.
CancelPendingSourceByHandle(el, src, h) ==
  IF ~Pending(el, src, h) THEN [el EXCEPT !.fault = "handle"]
  ELSE [el EXCEPT !.pending = SelectSeq(@, LAMBDA f : f.handle # h)]

\* doNextEvent: time goes to the first event, which leaves the list.
NextEvent(el) == Head(el.pending)
Advanced(el) == [el EXCEPT !.now = NextEvent(el).at, !.pending = Tail(@)]
=============================================================================
