---------------------------- MODULE MCEqSchedule ----------------------------
(* EqSchedule on small instances: threads, transfers and the free mutex    *)
(* are model values.  The assumptions on the constants are evaluated here. *)
EXTENDS EqSchedule, TLC

\* The instances have at least two threads besides the dispatcher, so that
\* one can call while another is inside a call.
ASSUME ContentionAssumption == Cardinality(Threads) >= 2
=============================================================================
