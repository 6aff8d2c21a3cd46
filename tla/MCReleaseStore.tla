--------------------------- MODULE MCReleaseStore ---------------------------
(* Instances of ReleaseStore for TLC.  Two operators race; the comparison    *)
(* passes from v1 to v2 and not back, so a return to v1 is always a rollback.*)
EXTENDS ReleaseStore

CONSTANTS o1, o2, v1, v2

MCOperators == {o1, o2}
MCVintages == {v1, v2}
MCPasses == {<<v1, v2>>}
=============================================================================
