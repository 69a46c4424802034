----------------------------- MODULE MCNetAttach -----------------------------
(* NetAttach with loops of several rounds.                                  *)
EXTENDS NetAttach

ASSUME LoopAssumption == STARTS > 1 /\ TRIES > 1
=============================================================================
