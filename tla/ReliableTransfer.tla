-------------------------- MODULE ReliableTransfer --------------------------
(***************************************************************************)
(* What a flow promises: packets are handed to the receiver one by one, in *)
(* any order, each at most once, and the sender reports completion only    *)
(* when every data packet has been handed over.  The packets are psns; the *)
(* transport may spend psns of its own on control packets.                 *)
(***************************************************************************)
EXTENDS Integers, FiniteSets

CONSTANTS Packets, NeededPackets

VARIABLES offered, delivered, complete

TransferInit == offered = {} /\ delivered = {} /\ complete = FALSE

\* The sender offers one more packet.
Offer ==
    /\ ~complete
    /\ \E p \in Packets \ offered : offered' = offered \cup {p}
    /\ UNCHANGED <<delivered, complete>>

Deliver ==
    /\ ~complete
    /\ \E p \in offered \ delivered : delivered' = delivered \cup {p}
    /\ UNCHANGED <<offered, complete>>

\* Completion: nothing offered is outstanding and the flow's share was sent.
Complete ==
    /\ ~complete
    /\ delivered = offered
    /\ Cardinality(delivered) >= NeededPackets
    /\ complete' = TRUE
    /\ UNCHANGED <<offered, delivered>>

TransferNext == Offer \/ Deliver \/ Complete

TransferSpec ==
    TransferInit /\ [][TransferNext]_<<offered, delivered, complete>>
=============================================================================
