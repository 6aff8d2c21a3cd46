----------------------------- MODULE MCRecovery -----------------------------
(* Instances of Recovery for TLC: two workers are enough for a stale worker  *)
(* beside a current one.                                                     *)
EXTENDS Recovery

CONSTANTS w1, w2, none

MCWorkers == {w1, w2}
LatePoison == {2}
NoPoison == {}
=============================================================================
