---------------------------- MODULE ReleaseLedger ----------------------------
(***************************************************************************)
(* What the release store promises its readers, without operators, locks   *)
(* or files (docs/ons-pay-release-lifecycle.md): one history of decisions  *)
(* that only grows by one valid decision at a time.  A decision is settled *)
(* when it can no longer be lost; a power failure may take back decisions  *)
(* that are not settled, newest first, and never a settled one.            *)
(***************************************************************************)
EXTENDS Naturals, Sequences

CONSTANTS
  Vintages,     \* curated vintages that may be released
  NoVintage,    \* "no active release"
  Passes,       \* pairs <<baseline, candidate>> that pass the six policies
  Times         \* creation times of decisions

VARIABLES
  history,      \* the decisions, oldest first; the last one is active
  settled       \* how many of them survive a power failure

ActiveAfter(h) == IF h = <<>> THEN NoVintage ELSE h[Len(h)].vintage

Decision == [action : {"bootstrap", "promote", "rollback"},
             from : Vintages \cup {NoVintage}, vintage : Vintages, time : Times]

\* The decision may follow the history h.
Follows(d, h) ==
  /\ d.from = ActiveAfter(h)
  /\ d.vintage # d.from
  /\ d.action = "bootstrap" <=> h = <<>>
  /\ d.action = "promote" => <<d.from, d.vintage>> \in Passes
  /\ d.action = "rollback" => \E n \in 1 .. Len(h) : h[n].vintage = d.vintage

Init == history = <<>> /\ settled = 0

Decide(d) ==
  /\ Follows(d, history)
  /\ history' = Append(history, d)
  /\ UNCHANGED settled

Settle ==
  /\ settled' = Len(history)
  /\ UNCHANGED history

PowerLoss(n) ==
  /\ history' = SubSeq(history, 1, n)
  /\ settled' = n

Next ==
  \/ \E d \in Decision : Decide(d)
  \/ Settle
  \/ \E n \in settled .. Len(history) : PowerLoss(n)

Spec == Init /\ [][Next]_<<history, settled>>
=============================================================================
