---------------------------- MODULE MCHealthMonitor ----------------------------
(* Instances of HealthMonitor for TLC. *)
EXTENDS HealthMonitor

=============================================================================
