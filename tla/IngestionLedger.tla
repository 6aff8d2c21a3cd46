--------------------------- MODULE IngestionLedger ---------------------------
(***************************************************************************)
(* What the recovery pipeline promises of one partition, without workers,  *)
(* claims or failures (docs/platform-recovery.md, "Commit order" and       *)
(* "Post-Iceberg crash window"): every position lands in the table at most *)
(* once and in log order, a malformed one never does, and the group's      *)
(* position only ever stands where everything before it has landed.        *)
(***************************************************************************)
EXTENDS Naturals

CONSTANTS Length, Malformed

VARIABLES
  copies,    \* rows of each position in the analytical table
  position   \* the group's committed position

Positions == 0 .. Length - 1

LandedBefore(n) == \A o \in Positions : o < n => copies[o] = 1

Init == copies = [o \in Positions |-> 0] /\ position = 0

\* The next position of the log lands.
Land(o) ==
  /\ o \notin Malformed
  /\ copies[o] = 0
  /\ LandedBefore(o)
  /\ copies' = [copies EXCEPT ![o] = 1]
  /\ UNCHANGED position

\* The position is committed; a late commit may move it back.
Settle(n) ==
  /\ LandedBefore(n)
  /\ position' = n
  /\ UNCHANGED copies

Next == (\E o \in Positions : Land(o)) \/ (\E n \in 0 .. Length : Settle(n))

Spec == Init /\ [][Next]_<<copies, position>>
=============================================================================
