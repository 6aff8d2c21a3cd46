--------------------------- MODULE MCReleaseHealth ---------------------------
(* Instances of ReleaseHealth for TLC.  v2 has more rows without pay than v1, *)
(* so v2 alone breaches the limit; a second policy of the observer judges the *)
(* newest sample only, and a third is stricter than its base.                *)
EXTENDS ReleaseHealth, TLC

CONSTANTS a1, a2, v1, v2

MCAssessors == {a1, a2}
MCVintages == {v1, v2}
MCPasses == {<<v1, v2>>}
MCMissingPay == [v \in MCVintages |-> IF v = v1 THEN 2 ELSE 6]
MCPayLimits == {4}

MCBasePolicy ==
  [last |-> 2, age |-> 1, streak |-> 2, share |-> None, step |-> None, drift |-> None]
Keep == [f \in DOMAIN MCBasePolicy |-> None]
MCOverrides ==
  {Keep, [Keep EXCEPT !.last = 1, !.age = 0, !.streak = 1, !.share = 0],
   [Keep EXCEPT !.streak = 1, !.step = 3, !.drift = 3]}

MCOutcomes == {[success |-> FALSE, completed |-> {v1}]}

MCSymmetry == Permutations(MCAssessors)
=============================================================================
