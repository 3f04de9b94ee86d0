-------------------------- MODULE MCRegistryStore --------------------------
(* Instances of RegistryStore for TLC: the members of Manifests are         *)
(* canonical, u1 is m1 with MIME types Validate still has to normalise, and *)
(* every other raw manifest does not validate.                              *)
EXTENDS RegistryStore

CONSTANTS m1, u1

MCCanon == [m \in Raw |-> CASE m \in Manifests -> m
                            [] m = u1 -> m1
                            [] OTHER -> Invalid]
=============================================================================
