----------------------------- MODULE MCRefresh -----------------------------
(* Instances of Refresh for TLC.  Two vintages share one source, so that all *)
(* runs put the same object.                                                 *)
EXTENDS Refresh, TLC

CONSTANTS run1, run2, run3, pin1, pin2, source1, text1, text2, file1, file2, out1, out2

MCRuns == {run1, run2, run3}
MCPins == {pin1, pin2}
MCSourceOf == [x \in MCPins |-> source1]
MCTexts == {text1, text2}
MCFiles == {file1, file2}
MCBatches == {<<file1, file2>>}
MCOutputs == {out1, out2}
MCSymmetry == Permutations(MCRuns) \cup Permutations(MCTexts)
=============================================================================
