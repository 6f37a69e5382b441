----------------------------- MODULE UecNetwork -----------------------------
(***************************************************************************)
(* The fabric between one UecSrc and one UecSink: the packets in flight,   *)
(* as a set.  Packets are sprayed over many paths, so any of them may      *)
(* arrive next; a queue may drop a packet or trim a data packet to its     *)
(* header.  The number of drops and of trims is bounded for model checking.*)
(***************************************************************************)
EXTENDS Integers, FiniteSets

CONSTANTS
    NData,      \* data packets of the flow (flow size / mss)
    MaxRts,     \* bound: RTS packets the sender may emit
    Mtu,        \* size of a data packet, in units of Hdr or finer
    Hdr,        \* size of a header-only packet (RTS)
    MaxLoss,    \* bound: packets the fabric drops
    MaxTrim     \* bound: data packets the fabric trims

ASSUME NDataAssumption  == NData \in Nat \ {0}
ASSUME MaxRtsAssumption == MaxRts \in Nat
ASSUME SizeAssumption   == Hdr \in Nat \ {0} /\ Mtu \in Nat /\ Hdr < Mtu
ASSUME FaultAssumption  == MaxLoss \in Nat /\ MaxTrim \in Nat

VARIABLES net, faults

\* Packet sequence numbers: data packets and RTS packets share one space.
Psn == 0 .. (NData + MaxRts - 1)

\* `copy` numbers the transmissions of one psn, so that two copies of it in
\* flight are two elements of the set.
DataMsg == [type : {"DATA"}, psn : Psn, copy : Nat, size : {Hdr, Mtu},
            ar : BOOLEAN]
TrimMsg == [type : {"TRIM"}, psn : Psn, copy : Nat]
RtsMsg  == [type : {"RTS"},  psn : Psn]
AckMsg  == [type : {"ACK"},  cum : Nat, sacks : SUBSET Psn, recvd : Nat]
NackMsg == [type : {"NACK"}, psn : Psn]
Msg     == DataMsg \cup TrimMsg \cup RtsMsg \cup AckMsg \cup NackMsg

InFlight(t) == {m \in net : m.type = t}

NetInit == net = {} /\ faults = [lost |-> 0, trimmed |-> 0, early |-> 0]

\* A queue drops a packet: random drop, or its queue is full.
Lose(m) ==
    /\ faults.lost < MaxLoss
    /\ net' = net \ {m}
    /\ faults' = [faults EXCEPT !.lost = @ + 1]

\* A full composite queue strips a data packet of its payload and forwards
\* the header.
Trim(m) ==
    /\ m.type = "DATA"
    /\ faults.trimmed < MaxTrim
    /\ net' = (net \ {m})
              \cup {[type |-> "TRIM", psn |-> m.psn, copy |-> m.copy]}
    /\ faults' = [faults EXCEPT !.trimmed = @ + 1]
=============================================================================
