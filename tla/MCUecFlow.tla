----------------------------- MODULE MCUecFlow -----------------------------
(* Instances of UecFlow for TLC. *)
EXTENDS UecFlow

MCCwndChoices == {Mtu, 2 * Mtu}
=============================================================================
