-------------------------- MODULE MCSessionRecovery --------------------------
(* Instances of SessionRecovery; the configurations give the constants.      *)
EXTENDS SessionRecovery

=============================================================================
