-------------------------- MODULE TrafficPatterns --------------------------
(***************************************************************************)
(* The traffic patterns ConnectionMatrix draws at random: permutations,    *)
(* incasts, hotspots and the others, each built host by host.  A draw that *)
(* is repeated until it fits is a choice among those that fit, and a loop  *)
(* no draw can end is a step that is never enabled.                        *)
(***************************************************************************)
EXTENDS Integers, Sequences, FiniteSets, FiniteSetsExt, SequencesExt

CONSTANTS
  N,            \* hosts
  Calls,        \* the calls considered, each a record of kind and arguments
  Neighbours,   \* get_neighbours of the topology
  Crts,         \* flows a host may draw from the VL2 distribution
  PerRack       \* hosts of a rack, K / 2 for the K with N hosts

Hosts == 0 .. N - 1

VARIABLES
  call,         \* the method called
  phase,        \* draw, pick, rest, and done or the error that ended it
  i,            \* the loop counter
  spots,        \* hotspots begun
  left,         \* perm_tmp, the hosts not drawn yet
  srcs, dsts,   \* shuffled hosts, and the destination of each host (to)
  taken,        \* is_dest
  busy,         \* is_done
  connections   \* the destinations of each host

vars == <<call, phase, i, spots, left, srcs, dsts, taken, busy, connections>>

Init ==
  /\ call \in Calls /\ phase = "draw" /\ i = 0 /\ spots = 0
  /\ left = Hosts /\ taken = {} /\ busy = {}
  /\ srcs = [h \in Hosts |-> h] /\ dsts = [h \in Hosts |-> h]
  /\ connections = [h \in Hosts |-> <<>>]

Add(s, d) == connections' = [connections EXCEPT ![s] = Append(@, d)]
\* One round of a loop of n, after which the method is in phase p.
Round(n, p) == IF i + 1 < n THEN i' = i + 1 /\ UNCHANGED phase ELSE i' = 0 /\ phase' = p
\* The first host from d on that is nobody's destination.
NextFree(d) == (d + Min({k \in Hosts : (d + k) % N \notin taken})) % N
At(kind, p) == call.kind = kind /\ phase = p

(***************************************************************************)
(* Permutations                                                            *)
(***************************************************************************)
\* setPermutation(conn, rack_size): a destination for every host, then conn of the hosts.
Permutation ==
  \/ /\ At("permutation", "draw")
     /\ \E d \in left :
          /\ d # i \/ left = {d}
          /\ left' = left \ {d} /\ dsts' = [dsts EXCEPT ![i] = d]
          /\ IF d = i THEN phase' = "assert" /\ UNCHANGED i ELSE Round(N, "pick")
     /\ UNCHANGED connections
  \/ /\ At("permutation", "pick")
     /\ LET hosts == IF left = {} THEN Hosts ELSE left
        IN  \E s \in hosts : left' = hosts \ {s} /\ Add(s, dsts[s])
     /\ Round(call.conns, "done") /\ UNCHANGED dsts
\* Destination r, or the next that is free for a host that would send to itself.
Elsewhere(r) ==
  LET others == {k \in 1 .. N - 1 : (i + k) % N \notin taken}
  IN  IF r # i \/ others = {} THEN r ELSE (i + Min(others)) % N
\* setPermutation(): each host in turn takes one of the destinations that are free.
PermutationInTurn ==
  /\ At("in turn", "draw")
  /\ \E r \in Hosts \ taken :
       LET d == Elsewhere(r)
       IN  IF d = i THEN phase' = "exit" /\ UNCHANGED <<i, taken, connections>>
           ELSE taken' = taken \cup {d} /\ Add(i, d) /\ Round(N, "done")
  /\ UNCHANGED <<left, dsts>>

\* The hosts that place k may be exchanged with.
Targets(k) == k + 1 .. N - 1
Swapped(f, k, t) == [f EXCEPT ![k] = f[t], ![t] = f[k]]
Shuffle ==
  /\ call.kind \in {"shuffle", "shuffle incast"} /\ phase = "draw"
  /\ \E t \in Targets(i), u \in Targets(i) : dsts' = Swapped(dsts, i, t) /\ srcs' = Swapped(srcs, i, u)
  /\ Round(N - 1, "pick") /\ UNCHANGED <<left, taken, connections>>
\* setPermutationShuffle: the first of the shuffled sources send to their destinations.
ShufflePick ==
  /\ call.kind \in {"shuffle", "shuffle incast"} /\ phase = "pick"
  /\ Add(srcs[i], dsts[srcs[i]])
  /\ IF i + 1 < call.conns THEN i' = i + 1 /\ UNCHANGED phase
     ELSE IF call.kind = "shuffle" \/ call.conns = N THEN i' = 0 /\ phase' = "done"
     ELSE i' = call.conns /\ phase' = "rest"
  /\ UNCHANGED <<left, srcs, dsts, taken>>
\* The destination of the first source left over.
Center == dsts[srcs[call.conns]]
ShuffleRest ==
  /\ At("shuffle incast", "rest")
  /\ IF srcs[i] = Center THEN UNCHANGED connections ELSE Add(srcs[i], Center)
  /\ Round(N, "done") /\ UNCHANGED <<left, srcs, dsts, taken>>

\* setStaggeredPermutation: a neighbour that is free, or else any host.
StaggeredPermutation ==
  /\ At("staggered permutation", "draw")
  /\ \E d \in (Neighbours[i] \ taken) \cup {NextFree(h) : h \in Hosts} : taken' = taken \cup {d} /\ Add(i, d)
  /\ Round(N, "done") /\ UNCHANGED <<left, srcs, dsts>>
Stride == At("stride", "draw") /\ Add(i, (i + (N \div 2)) % N) /\ Round(call.conns, "done") /\ UNCHANGED <<left, srcs, dsts, taken>>

PermutationKinds ==
  \/ Permutation /\ UNCHANGED <<srcs, taken>>
  \/ PermutationInTurn /\ UNCHANGED srcs
  \/ Shuffle \/ ShufflePick \/ ShuffleRest \/ StaggeredPermutation \/ Stride

(***************************************************************************)
(* Random traffic: setRandom, setStaggeredRandom, setVL2, setLocalTraffic, *)
(* setManytoMany.                                                          *)
(***************************************************************************)
Random == At("random", "draw") /\ \E s \in Hosts \ {0}, d \in Hosts \ {N - 1} : Add(s, d) /\ Round(call.conns, "done")
StaggeredRandom ==
  At("staggered random", "draw") /\ \E s \in Hosts : \E d \in Neighbours[s] \cup Hosts : Add(s, d) /\ Round(call.conns, "done")
Vl2 ==
  /\ At("vl2", "draw")
  /\ \E n \in Crts : \E ds \in [1 .. n -> Hosts \ {i}] : connections' = [connections EXCEPT ![i] = ds]
  /\ Round(N, "done")
LocalTraffic ==
  At("local", "draw") /\ connections' = [connections EXCEPT ![i] = SetToSeq(Neighbours[i])] /\ Round(N, "done")
ManyToMany ==
  /\ At("many to many", "draw")
  /\ \E hs \in kSubset(call.conns, Hosts) :
       connections' = [h \in Hosts |-> IF h \in hs THEN SetToSeq(hs \ {h}) ELSE <<>>]
  /\ phase' = "done" /\ UNCHANGED i

(***************************************************************************)
(* Hotspots and incasts: spots hosts that call.per others each send to.    *)
(***************************************************************************)
SpotKinds == {"hotspot", "hotspot outcast", "incast local"}
FirstSpot ==
  /\ call.kind \in SpotKinds /\ phase = "draw"
  /\ \E f \in Hosts \ taken : taken' = taken \cup {f} /\ left' = {f}
  /\ spots' = spots + 1 /\ phase' = "pick" /\ UNCHANGED <<i, busy, connections>>
\* The hosts the draw may end with.
Sources == (IF call.per = N THEN {i} ELSE Hosts) \ busy
SpotSource ==
  /\ call.kind \in SpotKinds /\ phase = "pick"
  /\ \E s \in Sources, f \in left : busy' = busy \cup {s} /\ Add(s, f)
  /\ Round(call.per, IF spots < call.count THEN "draw"
                     ELSE IF call.kind = "hotspot" THEN "done" ELSE "rest")
  /\ UNCHANGED <<spots, left, taken>>

\* setIncastLocalPerm: a host sends to each host of the rack but the first.
Rack(f) == {h \in Hosts : h \div PerRack = f \div PerRack}
RestOfRack(f) == Rack(f) \ {f}
RackSource ==
  /\ At("incast local", "rest")
  /\ \E f \in left, s \in Hosts \ busy :
       /\ busy' = busy \cup {s} /\ Add(s, SetToSortSeq(RestOfRack(f), <)[i + 1])
       /\ Round(Cardinality(RestOfRack(f)), "done")
  /\ UNCHANGED <<spots, left, taken>>
\* The hosts that may send to all the hotspots, and the first of them that does.
OutcastSource == Hosts \ busy
Outcast ==
  /\ At("hotspot outcast", "rest")
  /\ IF OutcastSource = {} \/ taken = Hosts THEN phase' = "abort" /\ UNCHANGED connections
     ELSE /\ phase' = "done"
          /\ connections' = [connections EXCEPT ![Min(OutcastSource)] =
                               SetToSortSeq(taken, <) \o <<Min(Hosts \ taken)>>]
  /\ UNCHANGED <<i, spots, left, taken, busy>>
OutcastTo(k) == (call.center + k) % N
\* setIncast and setOutcast.
Fixed ==
  /\ phase = "draw"
  /\ \/ call.kind = "incast" /\ Add(call.center + i, 0)
     \/ call.kind = "outcast" /\ Add(call.src, OutcastTo(i))
  /\ Round(call.per, "done")
  /\ UNCHANGED <<spots, left, taken, busy>>

Next ==
  /\ UNCHANGED call
  /\ \/ PermutationKinds /\ UNCHANGED <<spots, busy>>
     \/ (Random \/ StaggeredRandom \/ Vl2 \/ LocalTraffic \/ ManyToMany) /\ UNCHANGED <<spots, left, srcs, dsts, taken, busy>>
     \/ (FirstSpot \/ SpotSource \/ RackSource \/ Outcast \/ Fixed) /\ UNCHANGED <<srcs, dsts>>
\* The draws are fair: a loop ends if some draw can end it.
Spec == Init /\ [][Next]_vars

\* getAllConnections: the flows by their source.
AllConnections == FlattenSeq([k \in 1 .. N |-> [j \in 1 .. Len(connections[k - 1]) |-> <<k - 1, connections[k - 1][j]>>]])
-----------------------------------------------------------------------------
FlowSet == Range(AllConnections)
SentBy(s) == {f \in FlowSet : f[1] = s}
SentTo(d) == {f \in FlowSet : f[2] = d}

\* Every host a flow names exists, and a call ends as it may end.
TypeOK ==
  /\ FlowSet \subseteq Hosts \X Hosts
  /\ phase \in {"draw", "pick", "rest", "done", "assert", "exit", "abort"}
  /\ call.kind \in {"random", "vl2", "many to many", "incast", "outcast"} => phase \in {"draw", "done"}

\* A permutation gives no host two flows to send or to receive.
OneToOne ==
  phase = "done" /\ call.kind \in {"permutation", "in turn", "shuffle", "staggered permutation", "stride"} =>
    /\ Cardinality(FlowSet) = Len(AllConnections)
    /\ \A h \in Hosts : Cardinality(SentBy(h)) <= 1 /\ Cardinality(SentTo(h)) <= 1

\* "ensure we don't send to ourselves".
NoneToSelf ==
  phase = "done" /\ call.kind \notin {"random", "staggered random", "staggered permutation", "incast local",
                                     "hotspot", "hotspot outcast", "incast", "outcast"} =>
    \A f \in FlowSet : f[1] # f[2]

\* "do an incast from the remainder nodes to one idle destination": no host of the permutation
\* sends to it, and every host of the remainder but itself does.
OneIdleDestination ==
  phase = "done" /\ call.kind = "shuffle incast" /\ call.conns < N =>
    LET incast == {f \in FlowSet : \E k \in call.conns .. N - 1 : f[1] = srcs[k]}
    IN  /\ Cardinality({f[2] : f \in incast}) <= 1
        /\ \A f \in FlowSet \ incast, e \in incast : f[2] # e[2]
        /\ Cardinality(incast) >= N - call.conns - 1

\* Each hotspot receives from as many hosts as was asked for, and no host sends to two.
SpotsShared ==
  phase = "done" /\ call.kind = "hotspot" =>
    /\ \A d \in taken : Cardinality(SentTo(d)) = call.per
    /\ \A s \in Hosts : Len(connections[s]) <= 1

\* "need to add permutation connections in the same rack as the destination": each other host of
\* the rack receives one flow, and no host sends two.
RackServed ==
  phase = "done" /\ call.kind = "incast local" =>
    /\ \A f \in taken : \A d \in Rack(f) \ {f} : Cardinality(SentTo(d)) = 1
    /\ \A s \in Hosts : Len(connections[s]) <= 1

\* "outcast to all destinations + 1", from a host that sends to none of the hotspots otherwise.
OutcastReaches ==
  phase = "done" /\ call.kind = "hotspot outcast" =>
    LET big == {s \in Hosts : Len(connections[s]) > 1}
    IN  /\ Cardinality(big) = 1
        /\ \A s \in big : taken \subseteq Range(connections[s]) /\ Len(connections[s]) = Cardinality(taken) + 1
        /\ Cardinality({s \in Hosts : Len(connections[s]) = 1}) = call.per * call.count

\* assert(src != dest) holds.
\* The code does not keep this: see section 3 of the README.
AssertHolds == phase # "assert"
\* "find first other destination that is different!": there is one.
\* The code does not keep this: see section 3 of the README.
OtherFound == phase # "exit"
=============================================================================
