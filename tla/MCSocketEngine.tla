--------------------------- MODULE MCSocketEngine ---------------------------
(* SocketEngine on small instances: one or two sockets, a modem buffer of  *)
(* two bytes, a time-out of one or two events and a slow mark of two or    *)
(* three time-outs, so that a few events reach every boundary.             *)
EXTENDS SocketEngine

\* A modem that can always succeed: faults are bounded, not forced.
ASSUME ModemAssumption == "sent" \in SendOutcomes
=============================================================================
