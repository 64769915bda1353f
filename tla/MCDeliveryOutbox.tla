-------------------------- MODULE MCDeliveryOutbox --------------------------
(* Instances of DeliveryOutbox for TLC: the values are in the configurations. *)
EXTENDS DeliveryOutbox
=============================================================================
