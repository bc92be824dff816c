---------------------------- MODULE MCHealthDaemon ----------------------------
(* HealthDaemon on two instances and two operator restarts. *)
EXTENDS HealthDaemon

CONSTANTS h1, h2

MCInsts == {h1, h2}
=============================================================================
