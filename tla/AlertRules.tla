----------------------------- MODULE AlertRules -----------------------------
(***************************************************************************)
(* observability/ons_pay_history_alerts.py, ons_pay_history_replay.py,     *)
(* ons_pay_alert_comparison.py and ons_pay_alert_comparison_gate.py: the   *)
(* pure part of history alerting.  A sample is one archived assessment; a  *)
(* window is a set of samples, ordered by their assessment times.          *)
(*                                                                         *)
(* A release event is identified with the chain of decisions it ends, so   *)
(* the length of the chain is its generation.  Times are ticks and missing *)
(* pay is a whole percentage; a threshold that is not set, and a value     *)
(* that was not measured, is None.                                         *)
(***************************************************************************)
EXTENDS Integers, Sequences, FiniteSets, FiniteSetsExt

CONSTANT None

ASSUME NoneAssumption == None \notin Nat

CheckNames == {"active_assessment", "assessment_age_hours",
               "consecutive_unhealthy", "unhealthy_share_percent",
               "missing_pay_increase_pp", "cumulative_missing_pay_drift_pp"}

Limit == Nat \cup {None}

\* AlertPolicy and what its __post_init__ accepts.
Policy == [last : 1 .. 1000, age : Limit, streak : (Nat \ {0}) \cup {None},
           share : (0 .. 100) \cup {None}, step : (0 .. 100) \cup {None},
           drift : Limit]

\* with_overrides: an explicit option replaces a value, None keeps it.
WithOverrides(policy, given) ==
  [f \in DOMAIN policy |-> IF given[f] = None THEN policy[f] ELSE given[f]]

Unhealthy(s) == s.failed # {}

Newest(S) == CHOOSE s \in S : \A x \in S : x.time <= s.time

Generations(window) == {Len(s.chain) : s \in window}

\* by_generation: the newest sample of a generation.
Of(window, g) == Newest({s \in window : Len(s.chain) = g})

\* _upper_check.
UpperCheck(measured, exceeds, maximum) ==
  IF maximum = None THEN "skipped"
  ELSE IF ~measured THEN "unavailable"
  ELSE IF exceeds THEN "alert" ELSE "pass"

\* _missing_drift: the step from the previous generation can be measured.
StepMeasured(window, g) ==
  \A n \in {g - 1, g} : n \in Generations(window) /\ Of(window, n).missing # None

Increase(window, g) == Of(window, g).missing - Of(window, g - 1).missing

\* _missing_drift: so can the whole way to the newest generation: no
\* generation in between lacks a measured sample.
DriftMeasured(window, g) ==
  LET gs == Generations(window)
  IN /\ StepMeasured(window, g)
     /\ g = Max(gs)
     /\ gs = Min(gs) .. g
     /\ \A n \in gs : Of(window, n).missing # None

PositiveDrift(window) ==
  MapThenSumSet(LAMBDA g : Max({0, Increase(window, g)}),
                Generations(window) \ {Min(Generations(window))})

\* The trailing unhealthy samples.
Streak(points) ==
  Cardinality({s \in points : \A x \in points : x.time >= s.time => Unhealthy(x)})

\* Mutant: the streak alerts below its minimum.
StreakInverted(points, minimum) ==
  IF minimum = None THEN "skipped"
  ELSE IF points = {} THEN "unavailable"
  ELSE IF Streak(points) <= minimum THEN "alert" ELSE "pass"

\* consecutive_unhealthy alerts at its minimum, the maxima only above theirs.
StreakCheck(points, minimum) ==
  IF minimum = None THEN "skipped"
  ELSE IF points = {} THEN "unavailable"
  ELSE IF Streak(points) >= minimum THEN "alert" ELSE "pass"

\* Mutant: samples of any generation count for the active one.
ActivePointsOfAll(window, chain) == IF chain = <<>> THEN {} ELSE window

ActivePoints(window, chain) ==
  {s \in window : chain # <<>> /\ s.chain = chain}

\* _evaluate_window: a window seen at time t while chain is active.  A newest
\* sample from the future is none.
Evaluate(policy, window, t, chain) ==
  LET points == ActivePoints(window, chain)
      assessed == points # {} /\ Newest(points).time <= t
      usable == IF assessed THEN points ELSE {}
      bad == {s \in usable : Unhealthy(s)}
      g == Len(chain)
  IN [active_assessment |-> IF assessed THEN "pass" ELSE "alert",
      assessment_age_hours |->
        UpperCheck(assessed, t - Newest(points).time > policy.age, policy.age),
      consecutive_unhealthy |-> StreakCheck(usable, policy.streak),
      unhealthy_share_percent |->
        UpperCheck(assessed,
                   100 * Cardinality(bad) > policy.share * Cardinality(usable),
                   policy.share),
      missing_pay_increase_pp |->
        UpperCheck(assessed /\ StepMeasured(window, g),
                   Increase(window, g) > policy.step, policy.step),
      cumulative_missing_pay_drift_pp |->
        UpperCheck(assessed /\ DriftMeasured(window, g),
                   PositiveDrift(window) > policy.drift, policy.drift)]

\* One alert is an alert; without any, what cannot be measured is no "ok".
StatusOf(checks) ==
  IF \E n \in DOMAIN checks : checks[n] = "alert" THEN "alert"
  ELSE IF \E n \in DOMAIN checks : checks[n] = "unavailable" THEN "unavailable"
  ELSE "ok"

\* The last n samples.
LastOf(samples, n) ==
  {s \in samples : Cardinality({x \in samples : x.time > s.time}) < n}

-----------------------------------------------------------------------------
\* Mutant: the window of a checkpoint ends with the archive.
WindowAtEnd(policy, samples, s) == LastOf(samples, policy.last)

\* replay: a checkpoint sees the samples up to its own, bounded by the window
\* of the policy and not by the number of checkpoints asked for ...
WindowAt(policy, samples, s) ==
  LastOf({x \in samples : x.time <= s.time}, policy.last)

\* ... and is judged at its own time, for its own generation.
Replay(policy, samples, last) ==
  [s \in LastOf(samples, last) |->
     Evaluate(policy, WindowAt(policy, samples, s), s.time, s.chain)]

\* compare: the summary of two replays of one archive, checkpoint by checkpoint.
Compare(baseline, candidate, samples, last) ==
  LET before == Replay(baseline, samples, last)
      after == Replay(candidate, samples, last)
      Count(Cell(_, _)) ==
        Cardinality({s \in DOMAIN before :
                       Cell(StatusOf(before[s]), StatusOf(after[s]))})
  IN [evaluated |-> Cardinality(DOMAIN before),
      alert_added |-> Count(LAMBDA b, c : b # "alert" /\ c = "alert"),
      became_unavailable |->
        Count(LAMBDA b, c : b # "unavailable" /\ c = "unavailable"),
      alert_to_unavailable |->
        Count(LAMBDA b, c : b = "alert" /\ c = "unavailable"),
      status_changed |-> Count(LAMBDA b, c : b # c)]

Budgets == {"alert_added", "became_unavailable", "alert_to_unavailable",
            "status_changed"}

\* AlertComparisonGate: at least min_evaluated checkpoints and at most the
\* budgets that are set; a gate that asks for nothing is refused.
Gate ==
  {g \in [min_evaluated : 1 .. 1000, max : [Budgets -> (0 .. 1000) \cup {None}]] :
     g.min_evaluated > 1 \/ \E b \in Budgets : g.max[b] # None}

\* AlertComparisonGate.evaluate.
GatePasses(summary, gate) ==
  /\ summary.evaluated >= gate.min_evaluated
  /\ \A b \in Budgets : gate.max[b] # None => summary[b] <= gate.max[b]
=============================================================================
