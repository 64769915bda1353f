---------------------------- MODULE MCRunStream ----------------------------
(* Instances of RunStream for TLC: the values are in the configurations. *)
EXTENDS RunStream
=============================================================================
