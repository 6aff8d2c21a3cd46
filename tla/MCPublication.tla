--------------------------- MODULE MCPublication ---------------------------
(* Instances of Publication for TLC.  Two processes race, with the same      *)
(* attempt id or without evidence; the plan has two records, so that a       *)
(* MongoDB batch can stop half way.                                          *)
EXTENDS Publication

CONSTANTS p1, p2, a1, i1, i2, x

MCPublishers == {p1, p2}
MCAttempts == {a1}
MCIds == {i1, i2}
MCForeign == {x}
=============================================================================
