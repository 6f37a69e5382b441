--------------------------- MODULE FatTreeConfig ---------------------------
(***************************************************************************)
(* Building the planes of the network (main_uec.cpp): each plane is a fat  *)
(* tree read from the same topology file (FatTreeTopology::load), or the   *)
(* default fat tree of a number of hosts.  The tier parameters are static  *)
(* members: what one plane set is still there when the next one is built.  *)
(* A topology that does not fit together ends the program.                 *)
(***************************************************************************)
EXTENDS FatTree

CONSTANTS
  Planes,      \* -planes
  Default,     \* no topology file: hosts, tiers and latencies come from the command line
  TierCounts, NodeCounts, PodSizes, Speeds, DownRadices, UpRadices, Oversubs, Bundles,
  Queues,      \* queue sizes a file may give, 0 for none
  QueueSize,   \* the queue size of the command line
  Links, Switchings,   \* latencies of links and switches, per tier
  Modes        \* asymmetric modes a file may give

\* What this module assumes of its constants.
ConfigAssumption ==
  /\ {Planes, QueueSize} \subseteq Nat /\ Default \in BOOLEAN /\ TierCounts \subseteq {2, 3}
  /\ NodeCounts \cup PodSizes \cup Speeds \cup DownRadices \cup UpRadices \cup Oversubs \cup Bundles
       \subseteq Nat \ {0}
  /\ Queues \cup Links \cup Switchings \subseteq Nat
  /\ Modes \subseteq {"sym", "all", "single"}

VARIABLES
  file,    \* the topology file, or the command line
  conf,    \* the static tier parameters
  stage,   \* "building", "built" or "rejected"
  planes   \* the shapes of the planes built
vars == <<file, conf, stage, planes>>

Tiers3 == 0 .. 2
Unset == [nodes |-> 0, tiers |-> 0, podsize |-> 0,
          speed |-> [t \in Tiers3 |-> 0], down |-> [t \in Tiers3 |-> 0], up |-> [t \in 0 .. 1 |-> 0],
          bundle |-> [t \in Tiers3 |-> 1], oversub |-> [t \in Tiers3 |-> 1],
          queue |-> [t \in Tiers3 |-> 0], link |-> [t \in Tiers3 |-> 0],
          switch |-> [t \in Tiers3 |-> 0], asym |-> [t \in Tiers3 |-> "sym"],
          asymSpeed |-> [t \in Tiers3 |-> 0], asymLink |-> [t \in Tiers3 |-> 0],
          asymSwitches |-> 1, hop |-> 0, switching |-> 0]

\* A tier's parameters: a line for each that differs from the unset value.
PerTier == {"speed", "down", "bundle", "oversub", "queue", "link", "switch", "asym", "asymSpeed"}
Attributes == PerTier \cup {"up"}

\* The files: the top tier has no uplinks, hosts have one link, and every tier of the file
\* gives the mode, the queue and the switch latency alike.
Files ==
  {[Unset EXCEPT !.tiers = n, !.nodes = h, !.podsize = p,
      !.speed = [t \in Tiers3 |-> IF t = 0 THEN s0 ELSE IF t < n THEN s1 ELSE 0],
      !.down  = [t \in Tiers3 |-> IF t = 0 THEN d[1] ELSE IF t < n THEN d[t + 1] ELSE 0],
      !.up    = [t \in 0 .. 1 |-> IF t = 0 THEN u[1] ELSE IF t < n - 1 THEN u[2] ELSE 0],
      !.bundle = [t \in Tiers3 |-> IF t = 1 \/ (t = 2 /\ n = 3) THEN b ELSE 1],
      !.oversub = [t \in Tiers3 |-> IF t < n - 1 THEN o[t + 1] ELSE 1],
      !.queue = [t \in Tiers3 |-> IF t < n THEN q ELSE 0],
      !.link  = [t \in Tiers3 |-> IF t < n THEN l + t ELSE 0],
      !.switch = [t \in Tiers3 |-> IF t < n THEN w ELSE 0],
      !.asym = [t \in Tiers3 |-> IF t = 1 THEN m ELSE "sym"],
      !.asymSpeed = [t \in Tiers3 |-> IF t = 1 /\ m # "sym" THEN 1 ELSE 0]] :
     n \in TierCounts, h \in NodeCounts, p \in PodSizes, s0 \in Speeds, s1 \in Speeds,
     d \in DownRadices \X DownRadices \X DownRadices, u \in UpRadices \X UpRadices,
     b \in Bundles, o \in Oversubs \X Oversubs, q \in Queues, l \in Links, w \in Switchings, m \in Modes}

CommandLines ==
  {[Unset EXCEPT !.tiers = n, !.nodes = h, !.hop = l, !.switching = w,
      !.speed = [t \in Tiers3 |-> s]] :
     n \in TierCounts, h \in NodeCounts, l \in Links, w \in Switchings, s \in Speeds}

Init ==
  /\ file \in IF Default THEN CommandLines ELSE Files
  /\ conf = Unset /\ stage = "building" /\ planes = <<>>

(***************************************************************************)
(* load: the queue sizes are preset from the command line; a line whose    *)
(* parameter already differs from its unset value is a duplicate.          *)
(***************************************************************************)
Preset == [conf EXCEPT !.tiers = file.tiers, !.nodes = file.nodes, !.podsize = file.podsize,
                       !.queue = [t \in Tiers3 |-> QueueSize]]
HasLine(a, t)   == file[a][t] # Unset[a][t]
Duplicate(a, t) == HasLine(a, t) /\ Preset[a][t] # Unset[a][t]
AnyDuplicate    == \E a \in Attributes : \E t \in DOMAIN Unset[a] : Duplicate(a, t)

Loaded == [a \in DOMAIN Preset |->
             IF a \in Attributes
             THEN [t \in DOMAIN Unset[a] |-> IF HasLine(a, t) THEN file[a][t] ELSE Preset[a][t]]
             ELSE Preset[a]]
NothingMissing(c) ==
  \A t \in Upto(c.tiers) : /\ c.speed[t] > 0 /\ c.link[t] > 0 /\ c.down[t] > 0 /\ c.queue[t] > 0
                           /\ t < c.tiers - 1 => c.up[t] > 0

Reject == stage' = "rejected" /\ UNCHANGED <<file, conf, planes>>

\* The single slow link of a tier is drawn when its mode is "single".
LoadPlane ==
  /\ ~Default /\ stage = "building"
  /\ IF AnyDuplicate \/ ~NothingMissing(Loaded) \/ ~CustomAccepted(Loaded) THEN Reject
     ELSE \E x \in Upto(Loaded.down[1]) :
            /\ conf' = [Loaded EXCEPT !.asymLink[1] = IF Loaded.asym[1] = "single" THEN x ELSE @]
            /\ Loaded.asym[1] # "single" => x = 0
            /\ planes' = Append(planes, CustomShape(Loaded))
            /\ stage' = IF Len(planes) + 1 = Planes THEN "built" ELSE "building"
            /\ UNCHANGED file

(***************************************************************************)
(* The constructor without a file: set_params, which takes the parameters  *)
(* for custom ones as soon as an earlier plane has set the pod's size.     *)
(***************************************************************************)
Asked == [conf EXCEPT !.tiers = file.tiers, !.nodes = file.nodes, !.speed = file.speed,
                      !.hop = file.hop, !.switching = file.switching,
                      !.queue = [t \in Tiers3 |-> QueueSize]]

DefaultPlane ==
  /\ Default /\ stage = "building"
  /\ LET custom == conf.podsize > 0
         c      == IF custom THEN Asked ELSE DefaultConfig(Asked, file.nodes)
     IN IF (IF custom THEN ~CustomAccepted(c) ELSE ~DefaultAccepted(c.tiers, c.nodes)) THEN Reject
        ELSE /\ conf' = StoreHop(c)
             /\ planes' = Append(planes, IF custom THEN CustomShape(c) ELSE DefaultShape(c))
             /\ stage' = IF Len(planes) + 1 = Planes THEN "built" ELSE "building"
             /\ UNCHANGED file

Next == LoadPlane \/ DefaultPlane
Spec == Init /\ [][Next]_vars

TypeOK ==
  /\ stage \in {"building", "built", "rejected"} /\ Len(planes) <= Planes
  /\ DOMAIN conf = DOMAIN Unset
  /\ \A i \in DOMAIN planes : \A f \in DOMAIN planes[i] : planes[i][f] \in Nat

Hosts == Upto(conf.nodes)
Shape == planes[Len(planes)]
Wiring == Cables(conf, Shape)

\* Every host has exactly one cable, to the ToR the switches look for it at (HOST_POD_SWITCH).
EveryHostWired ==
  planes # <<>> => {k \in Wiring : k.tier = 0} = {Access(conf, h) : h \in Hosts}

SwitchesFull ==
  LET Below(t, i) == Cardinality({k \in Wiring : k.tier = t /\ k.hi = i})
      Above(t, i) == Cardinality({k \in Wiring : k.tier = t + 1 /\ k.lo = i})
  IN /\ \A i \in Upto(Shape.tor) : Below(0, i) = conf.down[0] /\ Above(0, i) = conf.up[0]
     /\ \A i \in Upto(Shape.agg) : /\ Below(1, i) = conf.down[1]
                                   /\ conf.tiers = 3 => Above(1, i) = conf.up[1]
     /\ \A i \in Upto(Shape.core) : Below(2, i) = conf.down[2]

\* The oversubscription a file gives for a tier is the ratio of its capacities below and above.
OversubExact ==
  \A t \in Upto(conf.tiers - 1) :
    conf.down[t] * conf.speed[t] = conf.oversub[t] * conf.up[t] * conf.speed[t + 1]

\* A switch of an accepted topology has as many cables below it, and above it, as its radices
\* say, when the oversubscription given for each tier is that of its ports.
RadicesHonoured == planes # <<>> /\ OversubExact => SwitchesFull

\* The same of every accepted topology: a tier whose oversubscription contradicts its radices is
\* to be refused.
\* The code does not keep this: see section 3 of the README.
MismatchRefused == planes # <<>> => SwitchesFull

\* Every route get_bidir_paths lists uses only cables that exist, visits no node twice, and the
\* route back is the same cables in the other order.
RoutesExist ==
  planes # <<>> =>
    \A s, d \in Hosts : s # d =>
      /\ get_bidir_paths(conf, Shape, s, d) # {}
      /\ \A r \in get_bidir_paths(conf, Shape, s, d) :
           /\ \A i \in DOMAIN r.out : r.out[i] \in Wiring /\ r.back[i] = r.out[Len(r.out) + 1 - i]
           /\ \A i \in 1 .. Len(r.out) - 1 :
                LET k == r.out[i] l == r.out[i + 1] IN
                \/ k.tier + 1 = l.tier /\ k.hi = l.lo
                \/ k.tier = l.tier /\ k.hi = l.hi
                \/ k.tier = l.tier + 1 /\ k.lo = l.hi

\* The latency of a route: its links and, between two of them, a switch of the lower tier.
RouteLatency(r) ==
  LET Lower(i) == IF r[i].tier <= r[i + 1].tier THEN r[i].tier ELSE r[i + 1].tier
      Sum[i \in 1 .. Len(r)] ==
        LinkLatency(conf, r[i].tier)
        + IF i = 1 THEN 0 ELSE Sum[i - 1] + SwitchLatency(conf, Lower(i - 1))
  IN Sum[Len(r)]

\* The latency the congestion control is told for two hosts is that of every route between them.
LatencyIsExact ==
  planes # <<>> =>
    \A s, d \in Hosts : s # d =>
      \A r \in get_bidir_paths(conf, Shape, s, d) :
        RouteLatency(r.out) = get_two_point_diameter_latency(conf, Shape, s, d)

\* The planes of one network are the same fat tree.
PlanesAlike == \A i \in DOMAIN planes : planes[i].tor = planes[1].tor /\ planes[i].agg = planes[1].agg
                                        /\ planes[i].core = planes[1].core

\* A topology the first plane accepted builds every plane (-planes allows up to eight).
EveryPlaneBuilt == planes # <<>> => stage # "rejected"

\* A file that differs from an accepted one only by a queue size of its own is accepted.
\* The code does not keep this: see section 3 of the README.
QueueLinesAccepted ==
  ~Default /\ planes = <<>> /\ NothingMissing(Loaded) /\ CustomAccepted(Loaded) => stage # "rejected"

\* A leaf-spine has one pod: a ToR's aggregation switches are all there are.
\* The code does not keep this: see section 3 of the README.
LeafSpineIsOnePod == planes # <<>> /\ conf.tiers = 2 => Shape.aggsPerPod = Shape.agg

\* "linkspeeds are symmetric": the two directions of a cable run at the same speed.
\* The code does not keep this: see section 3 of the README.
SpeedsSymmetric == planes # <<>> =>
  \A k \in Wiring : UpSpeed(conf, Shape, k) = DownSpeed(conf, Shape, k)

\* The cable add_failed_link disconnects is there.
\* The code does not keep this: see section 3 of the README.
FailedLinkExists ==
  planes # <<>> /\ conf.tiers = 3 =>
    \A a \in Upto(Shape.agg), l \in Upto(conf.up[1]) :
      Cable(2, a, FailedCore(Shape, a, l), 0) \in Wiring
=============================================================================
