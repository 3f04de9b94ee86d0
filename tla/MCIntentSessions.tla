-------------------------- MODULE MCIntentSessions --------------------------
(* Instances of IntentSessions for TLC. *)
EXTENDS IntentSessions
=============================================================================
