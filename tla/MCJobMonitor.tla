---------------------------- MODULE MCJobMonitor ----------------------------
(* Model checking of JobMonitor on a small instance. *)
EXTENDS JobMonitor
=============================================================================
