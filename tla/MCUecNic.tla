------------------------------ MODULE MCUecNic ------------------------------
(* Instances of UecNic for TLC: senders are interchangeable. *)
EXTENDS UecNic, TLC

SrcSymmetry == Permutations(Srcs)
=============================================================================
