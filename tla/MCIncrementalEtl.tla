-------------------------- MODULE MCIncrementalEtl --------------------------
(* Instances of IncrementalEtl for TLC.  Two lines: two events, with ids of   *)
(* one type or of two, one event whose line comes twice, fit or unfit, in     *)
(* either order, or an odd line.                                             *)
EXTENDS IncrementalEtl

CONSTANTS run1, run2, id1, id2, number

MCRuns == {run1, run2}
MCIds == {id1, id2, number}
MCNumbers == {number}
MCLines ==
  {[id |-> id, fit |-> TRUE] : id \in MCIds} \cup {[id |-> id1, fit |-> FALSE], Odd}
OneRun == {run1}
=============================================================================
