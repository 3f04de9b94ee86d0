-------------------------- MODULE MCCapabilityCache --------------------------
(* Instances of CapabilityCache for TLC. *)
EXTENDS CapabilityCache
=============================================================================
