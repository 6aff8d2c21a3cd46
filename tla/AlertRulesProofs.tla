-------------------------- MODULE AlertRulesProofs --------------------------
(***************************************************************************)
(* Lemmas about the evaluator of AlertRules, for any policies and samples: *)
(* what the newest sample and the last n samples are, what an "ok" rests   *)
(* on, and that a looser policy alerts no more often.                      *)
(***************************************************************************)
EXTENDS AlertRules, FiniteSetTheorems, WellFoundedInduction, TLAPS

\* What the archive holds as far as the evaluator looks: samples taken at times
\* of their own up to n.
Dated(S, n) ==
  /\ \A s \in S : s.time \in 1 .. n
  /\ \A r, s \in S : r.time = s.time => r = s

\* A set of numbers that is not empty has a least one, and a bounded one has a
\* largest one.
LEMMA LeastOf ==
  ASSUME NEW S \in SUBSET Nat, S # {}
  PROVE  /\ Min(S) \in S /\ \A x \in S : Min(S) <= x
         /\ \E m \in S : \A x \in S : m <= x
<1> DEFINE R == {ss \in Nat \X Nat : ss[1] < ss[2]}
<1>1. IsWellFoundedOn(R, Nat)
  BY NatLessThanWellFounded DEF OpToRel
<1>2. \A t, u \in S : <<u, t>> \in R <=> u < t
  OBVIOUS
<1> HIDE DEF R
<1>3. PICK t \in S : \A u \in S : ~(<<u, t>> \in R)
  BY <1>1, WFMin
<1>4. \A u \in S : ~(u < t)
  BY <1>2, <1>3, Zenon
<1>5. \A u \in S : t <= u
  BY <1>4
<1>. QED
  BY <1>5 DEF Min

LEMMA LargestBelow ==
  ASSUME NEW S \in SUBSET Nat, S # {}, NEW n \in Nat, \A x \in S : x <= n
  PROVE  /\ \E m \in S : \A x \in S : m >= x
         /\ Max(S) \in S /\ \A x \in S : Max(S) >= x
<1> DEFINE T == {n - x : x \in S}
<1>1. T \in SUBSET Nat /\ T # {}
  <2>1. \A x \in S : n - x \in Nat
    OBVIOUS
  <2>. QED
    BY <2>1
<1>2. PICK t \in T : \A u \in T : t <= u
  <2> HIDE DEF T
  <2>. QED
    BY <1>1, LeastOf
<1>3. PICK m \in S : t = n - m
  BY <1>2
<1>4. \A x \in S : m >= x
  <2>1. ASSUME NEW x \in S PROVE m >= x
    <3>1. n - x \in T /\ m \in Nat /\ x \in Nat
      OBVIOUS
    <3>2. n - m <= n - x
      BY <1>2, <1>3, <3>1
    <3>. QED
      BY <3>1, <3>2
  <2>. QED
    BY <2>1
<1>. QED
  BY <1>4 DEF Max

\* Samples at times of their own are no more than there are times.
LEMMA DatedFinite ==
  ASSUME NEW n \in Nat, NEW S, Dated(S, n)
  PROVE  IsFiniteSet(S) /\ Cardinality(S) \in Nat /\ Cardinality(S) <= n
<1> DEFINE f == [s \in S |-> s.time]
<1>1. f \in Injection(S, 1 .. n)
  BY DEF Dated, Injection, IsInjective
<1>2. IsFiniteSet(1 .. n) /\ Cardinality(1 .. n) = n
  BY FS_Interval
<1>3. IsFiniteSet(S) /\ Cardinality(S) <= Cardinality(1 .. n)
  BY <1>1, <1>2, FS_Injection
<1>. QED
  BY <1>2, <1>3, FS_CardinalityType

LEMMA DatedSubset ==
  ASSUME NEW n, NEW S, Dated(S, n), NEW T \in SUBSET S
  PROVE  Dated(T, n)
BY DEF Dated

\* The newest of some samples is one of them, and as new as any.
LEMMA NewestOf ==
  ASSUME NEW n \in Nat, NEW S, Dated(S, n), S # {}
  PROVE  Newest(S) \in S /\ \A x \in S : x.time <= Newest(S).time
<1> DEFINE T == {s.time : s \in S}
<1>1. T \in SUBSET Nat /\ T # {} /\ \A t \in T : t <= n
  BY DEF Dated
<1>2. PICK t \in T : \A u \in T : t >= u
  <2> HIDE DEF T
  <2>. QED
    BY <1>1, LargestBelow
<1>3. PICK s \in S : t = s.time
  OBVIOUS
<1>4. \A x \in S : x.time <= s.time
  <2>1. \A x \in S : x.time \in T
    OBVIOUS
  <2>2. \A x \in S : t >= x.time
    BY <1>2, <2>1
  <2>3. t \in Nat /\ \A x \in S : x.time \in Nat
    BY <1>1, <2>1
  <2>. QED
    BY <1>3, <2>2, <2>3
<1>. QED
  BY <1>4 DEF Newest

\* The last k samples: some of them, with every newer one, so the newest too.
LEMMA LastOfProperties ==
  ASSUME NEW n \in Nat, NEW S, Dated(S, n), NEW k \in Nat, k >= 1
  PROVE  /\ LastOf(S, k) \subseteq S
         /\ \A s \in S, r \in LastOf(S, k) : r.time <= s.time => s \in LastOf(S, k)
         /\ S # {} => Newest(S) \in LastOf(S, k)
         /\ n <= k => LastOf(S, k) = S
<1> DEFINE After(s) == {x \in S : x.time > s.time}
<1>1. \A s \in S : s.time \in 1 .. n /\ s.time \in Nat
  BY DEF Dated
<1>2. ASSUME NEW s PROVE /\ Dated(After(s), n) /\ IsFiniteSet(After(s))
                         /\ Cardinality(After(s)) \in Nat
  BY DatedSubset, DatedFinite
<1>3. LastOf(S, k) = {s \in S : Cardinality(After(s)) < k}
  BY DEF LastOf
<1>4. ASSUME NEW s \in S, NEW r \in LastOf(S, k), r.time <= s.time
      PROVE  s \in LastOf(S, k)
  <2>1. r \in S /\ Cardinality(After(r)) < k
    BY <1>3
  <2>2. After(s) \subseteq After(r)
    <3>1. r.time \in Nat /\ s.time \in Nat
      BY <1>1, <2>1
    <3>. QED
      BY <1>1, <1>4, <3>1
  <2>3. Cardinality(After(s)) <= Cardinality(After(r))
    BY <1>2, <2>2, FS_Subset
  <2> HIDE DEF After
  <2>4. Cardinality(After(s)) < k
    BY <1>2, <2>1, <2>3
  <2>. QED
    BY <1>3, <2>4
<1>5. ASSUME S # {} PROVE Newest(S) \in LastOf(S, k)
  <2>1. Newest(S) \in S /\ \A x \in S : x.time <= Newest(S).time
    BY <1>5, NewestOf
  <2>2. \A x \in S : ~(x.time > Newest(S).time)
    BY <1>1, <2>1
  <2>3. After(Newest(S)) = {}
    BY <2>2
  <2>. QED
    BY <1>3, <2>1, <2>3, FS_EmptySet
<1>6. ASSUME n <= k, NEW s \in S PROVE s \in LastOf(S, k)
  <2>1. After(s) \subseteq S \ {s}
    BY <1>1
  <2>2. IsFiniteSet(S) /\ Cardinality(S) \in Nat /\ Cardinality(S) <= n
    BY DatedFinite
  <2>3. /\ IsFiniteSet(S \ {s}) /\ Cardinality(S \ {s}) = Cardinality(S) - 1
    BY <2>2, FS_RemoveElement
  <2>4. Cardinality(After(s)) <= Cardinality(S) - 1
    BY <2>1, <2>3, FS_Subset
  <2> HIDE DEF After
  <2>5. Cardinality(After(s)) < k
    BY <1>2, <1>6, <2>2, <2>4
  <2>. QED
    BY <1>3, <2>5
<1>. QED
  BY <1>3, <1>4, <1>5, <1>6

-----------------------------------------------------------------------------
\* An "ok" rests on an assessment of the active release that is not from the
\* future; and where one unhealthy assessment is to alert, the newest one that
\* was to be seen is healthy.
LEMMA OkRestsOnAssessment ==
  ASSUME NEW n \in Nat, NEW samples, Dated(samples, n),
         NEW policy \in Policy, NEW t \in Nat, NEW chain,
         StatusOf(Evaluate(policy, LastOf(samples, policy.last), t, chain)) = "ok"
  PROVE  LET mine == {s \in samples : s.chain = chain /\ s.time <= t}
         IN  mine # {} /\ (policy.streak = 1 => ~Unhealthy(Newest(mine)))
<1> DEFINE window == LastOf(samples, policy.last)
           points == ActivePoints(window, chain)
           mine == {s \in samples : s.chain = chain /\ s.time <= t}
           assessed == points # {} /\ Newest(points).time <= t
           usable == IF assessed THEN points ELSE {}
           checks == Evaluate(policy, window, t, chain)
<1>1. policy.last \in Nat /\ policy.last >= 1
  BY DEF Policy
<1>2. /\ window \subseteq samples
      /\ \A s \in samples, r \in window : r.time <= s.time => s \in window
  BY <1>1, LastOfProperties
<1>3. \A c \in DOMAIN checks : checks[c] # "alert"
  BY DEF StatusOf
<1>4. assessed
  <2>1. "active_assessment" \in DOMAIN checks
        /\ checks["active_assessment"] = IF assessed THEN "pass" ELSE "alert"
    BY DEF Evaluate
  <2> HIDE DEF checks, assessed
  <2>. QED
    BY <1>3, <2>1
<1>5. StreakCheck(points, policy.streak) # "alert"
  <2>1. "consecutive_unhealthy" \in DOMAIN checks
        /\ checks["consecutive_unhealthy"] = StreakCheck(usable, policy.streak)
    BY DEF Evaluate
  <2>2. usable = points
    BY <1>4
  <2> HIDE DEF checks, assessed, usable, points
  <2>. QED
    BY <1>3, <2>1, <2>2
<1> HIDE DEF window
<1>6. /\ points \subseteq samples /\ Dated(points, n) /\ IsFiniteSet(points)
      /\ \A s \in points : s \in window /\ s.chain = chain /\ s.time \in Nat
  BY <1>2, DatedSubset, DatedFinite DEF ActivePoints, Dated
<1>7. chain # <<>>
  BY <1>4 DEF ActivePoints
<1>8. Newest(points) \in mine
  BY <1>4, <1>6, NewestOf
<1>9. /\ Newest(mine) \in mine /\ \A x \in mine : x.time <= Newest(mine).time
  <2>1. Dated(mine, n) /\ mine # {}
    BY <1>8, DatedSubset
  <2>. QED
    BY <2>1, NewestOf
<1>10. Newest(mine) \in points /\ \A x \in points : x.time <= Newest(mine).time
  <2>1. Newest(mine) \in samples /\ Newest(mine).chain = chain
    BY <1>9
  <2>2. Newest(points).time <= Newest(mine).time /\ Newest(points) \in window
    BY <1>4, <1>6, <1>8, <1>9, NewestOf
  <2>3. Newest(mine) \in window
    BY <1>2, <2>1, <2>2
  <2>4. \A x \in points : x \in mine
    <3>1. \A x \in points : x.time <= Newest(points).time
      BY <1>4, <1>6, NewestOf
    <3>2. Newest(points).time <= t /\ Newest(points).time \in Nat
      BY <1>4, <1>6, NewestOf
    <3>3. \A x \in points : x.time <= t
      BY <1>6, <3>1, <3>2
    <3>. QED
      BY <1>6, <3>3
  <2>. QED
    BY <1>7, <1>9, <2>1, <2>3, <2>4 DEF ActivePoints
<1>11. ASSUME policy.streak = 1, Unhealthy(Newest(mine)) PROVE FALSE
  <2> DEFINE trailing == {s \in points : \A x \in points : x.time >= s.time => Unhealthy(x)}
             m == Newest(mine)
  <2>1. m \in trailing
    <3>1. ASSUME NEW x \in points, x.time >= m.time PROVE x = m
      <4>1. x.time <= m.time /\ x.time \in Nat /\ m.time \in Nat
        BY <1>6, <1>10
      <4>2. x.time = m.time
        BY <3>1, <4>1
      <4>. QED
        BY <1>6, <1>10, <4>2 DEF Dated
    <3>. QED
      BY <1>10, <1>11, <3>1
  <2>2. IsFiniteSet(trailing) /\ Cardinality(trailing) \in Nat
    BY <1>6, FS_Subset, FS_CardinalityType
  <2>3. Cardinality(trailing) # 0
    BY <2>1, <2>2, FS_EmptySet
  <2>4. Streak(points) >= 1
    <3>1. Streak(points) = Cardinality(trailing)
      BY DEF Streak
    <3> HIDE DEF trailing
    <3>. QED
      BY <2>2, <2>3, <3>1
  <2>5. points # {} /\ policy.streak # None
    BY <1>10, <1>11, NoneAssumption
  <2>. QED
    BY <1>5, <1>11, <2>4, <2>5 DEF StreakCheck
<1>. QED
  BY <1>8, <1>11

\* The same window seen later, for the same release: as long as no sample is
\* from the future either time, only the age of the newest one may differ.
LEMMA SameWindowLater ==
  ASSUME NEW n \in Nat, NEW window, Dated(window, n), NEW policy,
         NEW t \in Nat, NEW u \in Nat, NEW chain, t <= u,
         \A s \in window : s.time <= t
  PROVE  \A c \in CheckNames \ {"assessment_age_hours"} :
           Evaluate(policy, window, u, chain)[c] = Evaluate(policy, window, t, chain)[c]
<1> DEFINE points == ActivePoints(window, chain)
<1>1. points # {} => Newest(points).time <= t /\ Newest(points).time <= u
  <2>1. points \subseteq window /\ Dated(points, n)
    BY DatedSubset DEF ActivePoints
  <2>2. points # {} => Newest(points) \in window /\ Newest(points).time \in Nat
    BY <2>1, NewestOf DEF Dated
  <2>. QED
    BY <2>2
<1> DEFINE seen(v) == points # {} /\ Newest(points).time <= v
           g == Len(chain)
           usable(v) == IF seen(v) THEN points ELSE {}
           bad(v) == {s \in usable(v) : Unhealthy(s)}
           E(v) == Evaluate(policy, window, v, chain)
<1>2. ASSUME NEW v \in {t, u}
      PROVE  /\ E(v).active_assessment = IF seen(v) THEN "pass" ELSE "alert"
             /\ E(v).consecutive_unhealthy = StreakCheck(usable(v), policy.streak)
             /\ E(v).unhealthy_share_percent =
                  UpperCheck(seen(v),
                             100 * Cardinality(bad(v)) > policy.share * Cardinality(usable(v)),
                             policy.share)
             /\ E(v).missing_pay_increase_pp =
                  UpperCheck(seen(v) /\ StepMeasured(window, g),
                             Increase(window, g) > policy.step, policy.step)
             /\ E(v).cumulative_missing_pay_drift_pp =
                  UpperCheck(seen(v) /\ DriftMeasured(window, g),
                             PositiveDrift(window) > policy.drift, policy.drift)
  BY DEF Evaluate
<1>3. seen(t) = seen(u)
  BY <1>1
<1>4. usable(t) = usable(u) /\ bad(t) = bad(u)
  BY <1>3
<1> HIDE DEF seen, usable, bad, E, points, g
<1>. QED
  BY <1>2, <1>3, <1>4 DEF CheckNames, E

-----------------------------------------------------------------------------
Any(s) == CHOOSE x \in s : TRUE

LEMMA AnyOf == \A s : s # {} => Any(s) \in s
BY DEF Any

\* iter adds up f over every subset of D.
SumsUp(iter, D, f) ==
  /\ iter \in [SUBSET D -> Int]
  /\ \A s \in SUBSET D :
       iter[s] = IF s = {} THEN 0 ELSE f[Any(s)] + iter[s \ {Any(s)}]

\* Finite sums of integers are integers: the recursion over the subsets of a
\* finite set has a solution, and every solution is of integers.
LEMMA SumExists ==
  ASSUME NEW D, IsFiniteSet(D), NEW f \in [D -> Int]
  PROVE  \E iter : SumsUp(iter, D, f)
<1> DEFINE Small(k) == {s \in SUBSET D : Cardinality(s) <= k}
           Sums(iter, s) ==
             iter[s] = IF s = {} THEN 0 ELSE f[Any(s)] + iter[s \ {Any(s)}]
           Good == {k \in Nat : \E iter \in [Small(k) -> Int] :
                                  \A s \in Small(k) : Sums(iter, s)}
<1>1. \A s \in SUBSET D : /\ IsFiniteSet(s) /\ Cardinality(s) \in Nat
                          /\ Cardinality(s) <= Cardinality(D)
                          /\ Cardinality(s) = 0 <=> s = {}
  BY FS_Subset, FS_CardinalityType, FS_EmptySet
<1>2. ASSUME NEW s \in SUBSET D, s # {}
      PROVE  /\ s \ {Any(s)} \in SUBSET D /\ Any(s) \in D
             /\ Cardinality(s \ {Any(s)}) = Cardinality(s) - 1
  BY <1>1, <1>2, AnyOf, FS_RemoveElement
<1>3. 0 \in Good
  <2>1. Small(0) = {{}}
    BY <1>1, FS_EmptySet
  <2> DEFINE iter == [s \in Small(0) |-> 0]
  <2>2. iter \in [Small(0) -> Int] /\ \A s \in Small(0) : Sums(iter, s)
    BY <2>1
  <2>. QED
    BY <2>2
<1>4. ASSUME NEW k \in Nat, k \in Good PROVE k + 1 \in Good
  <2>1. PICK old \in [Small(k) -> Int] : \A s \in Small(k) : Sums(old, s)
    BY <1>4
  <2>2. Small(k) \subseteq Small(k + 1)
    BY <1>1
  <2>3. ASSUME NEW s \in Small(k + 1), s \notin Small(k)
        PROVE  s # {} /\ s \ {Any(s)} \in Small(k)
    <3>1. s \in SUBSET D /\ Cardinality(s) <= k + 1 /\ ~(Cardinality(s) <= k)
      BY <2>3
    <3>2. s # {}
      BY <1>1, <3>1
    <3>3. Cardinality(s \ {Any(s)}) <= k
      BY <1>1, <1>2, <3>1, <3>2
    <3>. QED
      BY <1>2, <3>1, <3>2, <3>3
  <2>4. ASSUME NEW s \in Small(k), s # {} PROVE s \ {Any(s)} \in Small(k)
    <3>1. s \in SUBSET D /\ Cardinality(s) <= k
      OBVIOUS
    <3>2. Cardinality(s \ {Any(s)}) <= k
      BY <1>1, <1>2, <2>4, <3>1
    <3>. QED
      BY <1>2, <2>4, <3>1, <3>2
  <2>5. \A s \in Small(k + 1) : s # {} => Any(s) \in D
    BY <1>2
  <2> DEFINE iter == [s \in Small(k + 1) |->
                        IF s \in Small(k) THEN old[s]
                        ELSE f[Any(s)] + old[s \ {Any(s)}]]
  <2> HIDE DEF Small
  <2>6. iter \in [Small(k + 1) -> Int]
    BY <2>1, <2>3, <2>5
  <2>7. ASSUME NEW s \in Small(k + 1) PROVE Sums(iter, s)
    <3>1. CASE s \in Small(k)
      BY <2>1, <2>2, <2>4, <3>1
    <3>2. CASE s \notin Small(k)
      BY <2>2, <2>3, <3>2
    <3>. QED
      BY <3>1, <3>2
  <2> HIDE DEF iter, Sums
  <2>. QED
    BY <2>6, <2>7
<1>5. Cardinality(D) \in Good
  <2> DEFINE Bad == Nat \ Good
             R == {ss \in Nat \X Nat : ss[1] < ss[2]}
  <2> SUFFICES Bad = {}
    BY <1>1
  <2> SUFFICES ASSUME Bad # {} PROVE FALSE
    OBVIOUS
  <2>1. IsWellFoundedOn(R, Nat)
    BY NatLessThanWellFounded DEF OpToRel
  <2> HIDE DEF Good
  <2>2. PICK b \in Bad : \A c \in Bad : ~(<<c, b>> \in R)
    <3> HIDE DEF R
    <3>. QED
      BY <2>1, WFMin
  <2>3. b # 0 /\ b \in Nat /\ b - 1 \in Nat
    BY <1>3, <2>2
  <2>4. b - 1 \in Good
    <3>1. b - 1 < b
      BY <2>3
    <3>2. <<b - 1, b>> \in R
      BY <2>3, <3>1
    <3> HIDE DEF R
    <3>. QED
      BY <2>2, <2>3, <3>2
  <2>5. (b - 1) + 1 \in Good
    BY <1>4, <2>3, <2>4
  <2>. QED
    BY <2>2, <2>3, <2>5
<1>6. Small(Cardinality(D)) = SUBSET D
  BY <1>1
<1>7. PICK iter \in [SUBSET D -> Int] : \A s \in SUBSET D : Sums(iter, s)
  BY <1>5, <1>6
<1>. QED
  BY <1>7 DEF SumsUp

LEMMA SumInteger ==
  ASSUME NEW D, IsFiniteSet(D), NEW f \in [D -> Int],
         NEW iter,
         \A s \in SUBSET D :
           iter[s] = IF s = {} THEN 0 ELSE f[Any(s)] + iter[s \ {Any(s)}]
  PROVE  iter[D] \in Int
<1> DEFINE Bad == {k \in Nat : \E s \in SUBSET D : Cardinality(s) = k /\ iter[s] \notin Int}
           R == {ss \in Nat \X Nat : ss[1] < ss[2]}
<1>1. \A s \in SUBSET D : Cardinality(s) \in Nat /\ IsFiniteSet(s)
  BY FS_Subset, FS_CardinalityType
<1>2. SUFFICES ASSUME Bad # {} PROVE FALSE
  BY <1>1
<1>3. PICK b \in Bad : \A c \in Bad : ~(<<c, b>> \in R)
  <2>1. IsWellFoundedOn(R, Nat)
    BY NatLessThanWellFounded DEF OpToRel
  <2> HIDE DEF R
  <2>. QED
    BY <1>2, <2>1, WFMin
<1>4. PICK s \in SUBSET D : Cardinality(s) = b /\ iter[s] \notin Int
  BY <1>3
<1>5. iter[s] = IF s = {} THEN 0 ELSE f[Any(s)] + iter[s \ {Any(s)}]
  BY <1>4
<1>6. s # {}
  BY <1>4, <1>5
<1> DEFINE r == s \ {Any(s)}
<1>7. r \in SUBSET D /\ Cardinality(r) = b - 1 /\ b \in Nat /\ b - 1 \in Nat
  <2>1. Cardinality(r) = Cardinality(s) - 1
    BY <1>1, <1>6, AnyOf, FS_RemoveElement
  <2>. QED
    BY <1>1, <1>4, <2>1
<1>8. iter[r] \notin Int
  BY <1>4, <1>5, <1>6, AnyOf
<1>9. b - 1 \in Bad
  BY <1>7, <1>8
<1>10. <<b - 1, b>> \in R
  <2>1. b - 1 < b
    BY <1>7
  <2>. QED
    BY <1>7, <2>1
<1>. QED
  BY <1>3, <1>9, <1>10

\* What the evaluator measures with, it can measure: every sample names a
\* release, and its missing pay is a number or was not measured.
Measurable(window) ==
  \A s \in window : Len(s.chain) \in Nat /\ s.missing \in Limit

LEMMA OfGeneration ==
  ASSUME NEW n \in Nat, NEW window, Dated(window, n), NEW g \in Generations(window)
  PROVE  Of(window, g) \in window /\ Len(Of(window, g).chain) = g
<1> DEFINE S == {s \in window : Len(s.chain) = g}
<1>1. Dated(S, n) /\ S # {}
  BY DatedSubset DEF Generations
<1>2. Newest(S) \in S
  BY <1>1, NewestOf
<1>. QED
  BY <1>2 DEF Of

LEMMA IncreaseInteger ==
  ASSUME NEW n \in Nat, NEW window, Dated(window, n), Measurable(window),
         NEW g, StepMeasured(window, g)
  PROVE  Increase(window, g) \in Int
<1>1. \A k \in {g - 1, g} : k \in Generations(window) /\ Of(window, k).missing # None
  BY DEF StepMeasured
<1>2. \A k \in {g - 1, g} : Of(window, k).missing \in Nat
  BY <1>1, OfGeneration DEF Measurable, Limit
<1>. QED
  BY <1>2 DEF Increase

LEMMA DriftInteger ==
  ASSUME NEW n \in Nat, NEW window, Dated(window, n), Measurable(window),
         NEW g, DriftMeasured(window, g)
  PROVE  PositiveDrift(window) \in Int
<1> DEFINE gs == Generations(window)
           D == gs \ {Min(gs)}
           f == [x \in D |-> Max({0, Increase(window, x)})]
<1>1. gs = Min(gs) .. g /\ \A k \in gs : Of(window, k).missing # None
  BY DEF DriftMeasured
<1>2. gs \subseteq Nat
  BY DEF Generations, Measurable
<1>3. IsFiniteSet(D)
  <2>1. IsFiniteSet(window)
    BY DatedFinite
  <2> DEFINE h == [s \in window |-> Len(s.chain)]
  <2>2. h \in Surjection(window, gs)
    BY DEF Surjection, Generations
  <2>3. IsFiniteSet(gs)
    BY <2>1, <2>2, FS_Surjection
  <2>. QED
    BY <2>3, FS_RemoveElement
<1>4. g \in gs /\ Min(gs) \in gs
  <2>1. g \in gs
    BY DEF DriftMeasured, StepMeasured
  <2>. QED
    BY <1>2, <2>1, LeastOf
<1>5. ASSUME NEW x \in D PROVE f[x] \in Int
  <2>1. x \in gs /\ x # Min(gs) /\ x \in Nat /\ Min(gs) \in Nat /\ Min(gs) <= x
    BY <1>2, <1>4, LeastOf
  <2>2. x - 1 \in Min(gs) .. g /\ x - 1 \in Nat
    <3> HIDE DEF gs
    <3>. QED
      BY <1>1, <1>2, <1>4, <2>1
  <2>3. StepMeasured(window, x)
    BY <1>1, <2>1, <2>2 DEF StepMeasured
  <2>4. Increase(window, x) \in Int
    BY <2>3, IncreaseInteger
  <2>5. Max({0, Increase(window, x)}) \in {0, Increase(window, x)}
    <3> DEFINE i == Increase(window, x)
               m == IF i >= 0 THEN i ELSE 0
    <3>1. m \in {0, i} /\ \A y \in {0, i} : m >= y
      BY <2>4
    <3>. QED
      BY <3>1 DEF Max
  <2>. QED
    BY <2>4, <2>5
<1>6. f \in [D -> Int]
  BY <1>5
<1> DEFINE Equation(iter) ==
             iter = [s \in SUBSET D |->
                       IF s = {} THEN 0 ELSE f[Any(s)] + iter[s \ {Any(s)}]]
           Given(iter) ==
             iter = [s \in SUBSET D |->
                       IF s = {} THEN 0
                       ELSE Max({0, Increase(window, Any(s))}) + iter[s \ {Any(s)}]]
<1>7. \E iter : Equation(iter)
  <2> HIDE DEF D, f
  <2>1. PICK iter : SumsUp(iter, D, f)
    BY <1>3, <1>6, SumExists
  <2>2. Equation(iter)
    BY <2>1 DEF SumsUp
  <2>. QED
    BY <2>2
<1>8. ASSUME NEW iter PROVE Equation(iter) <=> Given(iter)
  <2> DEFINE l == [s \in SUBSET D |->
                     IF s = {} THEN 0 ELSE f[Any(s)] + iter[s \ {Any(s)}]]
             r == [s \in SUBSET D |->
                     IF s = {} THEN 0
                     ELSE Max({0, Increase(window, Any(s))}) + iter[s \ {Any(s)}]]
  <2>1. ASSUME NEW s \in SUBSET D, s # {}
        PROVE  f[Any(s)] = Max({0, Increase(window, Any(s))})
    BY <2>1, AnyOf
  <2>2. \A s \in SUBSET D : l[s] = r[s]
    <3> HIDE DEF D, f
    <3>. QED
      BY <2>1
  <2>3. l = r
    BY <2>2
  <2>. QED
    BY <2>3
<1>9. PositiveDrift(window) = (CHOOSE iter : Given(iter))[D]
  BY DEF PositiveDrift, MapThenSumSet, MapThenFoldSet, Any
<1> DEFINE sum == CHOOSE iter : Given(iter)
<1>10. Equation(sum)
  <2> HIDE DEF Equation, Given
  <2>1. PICK iter : Given(iter)
    BY <1>7, <1>8
  <2>2. Given(sum)
    BY <2>1
  <2>. QED
    BY <1>8, <2>2
<1> HIDE DEF sum, D, f
<1>11. sum[D] \in Int
  <2>1. \A s \in SUBSET D :
          sum[s] = IF s = {} THEN 0 ELSE f[Any(s)] + sum[s \ {Any(s)}]
    BY <1>10
  <2> HIDE DEF Equation
  <2>. QED
    BY <1>3, <1>6, <2>1, SumInteger
<1>. QED
  BY <1>9, <1>11 DEF sum

-----------------------------------------------------------------------------
\* q raises or drops thresholds of p and keeps its window.
Raised(p, q) ==
  /\ p.last = q.last
  /\ \A f \in {"age", "streak", "share", "step", "drift"} :
       q[f] = None \/ (p[f] # None /\ p[f] <= q[f])

\* A maximum that alerts, alerts when it is lower.
LEMMA LowerMaximumAlerts ==
  ASSUME NEW measured, NEW low, NEW high, NEW exceedsLow, NEW exceedsHigh,
         high = None \/ low # None,
         high # None /\ measured /\ exceedsHigh => exceedsLow,
         UpperCheck(measured, exceedsHigh, high) = "alert"
  PROVE  UpperCheck(measured, exceedsLow, low) = "alert"
BY DEF UpperCheck

\* Shares of a whole keep their order.
LEMMA SharesOrdered ==
  ASSUME NEW a \in Nat, NEW b \in Nat, NEW n \in Nat, a <= b
  PROVE  a * n <= b * n
<1>1. PICK d \in Nat : b = a + d
  <2>1. b - a \in Nat /\ b = a + (b - a)
    OBVIOUS
  <2>. QED
    BY <2>1
<1>2. b * n = a * n + d * n /\ d * n \in Nat /\ a * n \in Nat
  BY <1>1
<1>. QED
  BY <1>2

\* A looser policy alerts no more often: no threshold of the evaluator works
\* against another.
LEMMA LooserAlertsNoMore ==
  ASSUME NEW n \in Nat, NEW window, Dated(window, n), Measurable(window),
         NEW p \in Policy, NEW q \in Policy, Raised(p, q), NEW t \in Nat, NEW chain,
         StatusOf(Evaluate(q, window, t, chain)) = "alert"
  PROVE  StatusOf(Evaluate(p, window, t, chain)) = "alert"
<1> DEFINE points == ActivePoints(window, chain)
           seen == points # {} /\ Newest(points).time <= t
           usable == IF seen THEN points ELSE {}
           bad == {s \in usable : Unhealthy(s)}
           g == Len(chain)
           E(policy) == Evaluate(policy, window, t, chain)
<1>1. ASSUME NEW policy \in Policy
      PROVE  /\ DOMAIN E(policy) = CheckNames
             /\ E(policy)["active_assessment"] = IF seen THEN "pass" ELSE "alert"
             /\ E(policy)["assessment_age_hours"] =
                  UpperCheck(seen, t - Newest(points).time > policy.age, policy.age)
             /\ E(policy)["consecutive_unhealthy"] = StreakCheck(usable, policy.streak)
             /\ E(policy)["unhealthy_share_percent"] =
                  UpperCheck(seen, 100 * Cardinality(bad) > policy.share * Cardinality(usable),
                             policy.share)
             /\ E(policy)["missing_pay_increase_pp"] =
                  UpperCheck(seen /\ StepMeasured(window, g),
                             Increase(window, g) > policy.step, policy.step)
             /\ E(policy)["cumulative_missing_pay_drift_pp"] =
                  UpperCheck(seen /\ DriftMeasured(window, g),
                             PositiveDrift(window) > policy.drift, policy.drift)
  BY DEF Evaluate, CheckNames
<1>2. /\ usable \subseteq window /\ bad \subseteq usable
      /\ Cardinality(usable) \in Nat /\ Cardinality(bad) \in Nat
      /\ IsFiniteSet(usable) /\ Dated(points, n)
  <2>1. usable \subseteq window /\ points \subseteq window /\ bad \subseteq usable
    BY DEF ActivePoints
  <2>. QED
    BY <2>1, DatedSubset, DatedFinite, FS_Subset, FS_CardinalityType
<1>3. seen => Newest(points).time \in Nat
  BY <1>2, NewestOf DEF Dated
<1>4. ASSUME NEW f \in {"age", "share", "step", "drift", "streak"}
      PROVE  /\ q[f] = None \/ p[f] # None
             /\ q[f] # None => p[f] \in Nat /\ q[f] \in Nat /\ p[f] <= q[f]
  BY DEF Raised, Policy, Limit
<1>5. StepMeasured(window, g) => Increase(window, g) \in Int
  BY IncreaseInteger
<1>6. DriftMeasured(window, g) => PositiveDrift(window) \in Int
  BY DriftInteger
<1>7. PICK c \in CheckNames : E(q)[c] = "alert"
  BY <1>1 DEF StatusOf
<1> HIDE DEF points, seen, usable, bad, E, g
<1>8. E(p)[c] = "alert"
  <2>1. CASE c = "active_assessment"
    BY <1>1, <1>7, <2>1
  <2>2. CASE c = "assessment_age_hours"
    <3>1. /\ q.age = None \/ p.age # None
          /\ q.age # None => p.age \in Nat /\ q.age \in Nat /\ p.age <= q.age
      BY <1>4
    <3>2. q.age # None /\ seen /\ t - Newest(points).time > q.age
            => t - Newest(points).time > p.age
      BY <1>3, <3>1
    <3>3. UpperCheck(seen, t - Newest(points).time > q.age, q.age) = "alert"
      BY <1>1, <1>7, <2>2
    <3>4. UpperCheck(seen, t - Newest(points).time > p.age, p.age) = "alert"
      BY <3>1, <3>2, <3>3, LowerMaximumAlerts
    <3>. QED
      BY <1>1, <2>2, <3>4
  <2>3. CASE c = "consecutive_unhealthy"
    <3>1. /\ q.streak = None \/ p.streak # None
          /\ q.streak # None => p.streak \in Nat /\ q.streak \in Nat /\ p.streak <= q.streak
      BY <1>4
    <3>2. StreakCheck(usable, q.streak) = "alert"
      BY <1>1, <1>7, <2>3
    <3>3. Streak(usable) \in Nat
      BY <1>2, FS_Subset, FS_CardinalityType DEF Streak
    <3>4. StreakCheck(usable, p.streak) = "alert"
      BY <3>1, <3>2, <3>3 DEF StreakCheck
    <3>. QED
      BY <1>1, <2>3, <3>4
  <2>4. CASE c = "unhealthy_share_percent"
    <3>1. /\ q.share = None \/ p.share # None
          /\ q.share # None => p.share \in Nat /\ q.share \in Nat /\ p.share <= q.share
      BY <1>4
    <3>2. q.share # None =>
            /\ p.share * Cardinality(usable) <= q.share * Cardinality(usable)
            /\ p.share * Cardinality(usable) \in Nat
            /\ q.share * Cardinality(usable) \in Nat
            /\ 100 * Cardinality(bad) \in Nat
      BY <1>2, <3>1, SharesOrdered
    <3>3. q.share # None /\ seen
            /\ 100 * Cardinality(bad) > q.share * Cardinality(usable)
            => 100 * Cardinality(bad) > p.share * Cardinality(usable)
      <4> DEFINE x == 100 * Cardinality(bad)
                 y == q.share * Cardinality(usable)
                 z == p.share * Cardinality(usable)
      <4>1. q.share # None => z <= y /\ x \in Nat /\ y \in Nat /\ z \in Nat
        BY <3>2
      <4> HIDE DEF x, y, z
      <4>2. q.share # None /\ seen /\ x > y => x > z
        BY <4>1
      <4>. QED
        BY <4>2 DEF x, y, z
    <3>4. UpperCheck(seen, 100 * Cardinality(bad) > q.share * Cardinality(usable),
                     q.share) = "alert"
      BY <1>1, <1>7, <2>4
    <3>5. UpperCheck(seen, 100 * Cardinality(bad) > p.share * Cardinality(usable),
                     p.share) = "alert"
      BY <3>1, <3>3, <3>4, LowerMaximumAlerts
    <3>. QED
      BY <1>1, <2>4, <3>5
  <2>5. CASE c = "missing_pay_increase_pp"
    <3>1. /\ q.step = None \/ p.step # None
          /\ q.step # None => p.step \in Nat /\ q.step \in Nat /\ p.step <= q.step
      BY <1>4
    <3> DEFINE measured == seen /\ StepMeasured(window, g)
    <3>2. q.step # None /\ measured /\ Increase(window, g) > q.step => Increase(window, g) > p.step
      BY <1>5, <3>1
    <3>3. UpperCheck(measured, Increase(window, g) > q.step, q.step) = "alert"
      BY <1>1, <1>7, <2>5
    <3>4. UpperCheck(measured, Increase(window, g) > p.step, p.step) = "alert"
      <4> HIDE DEF measured
      <4>. QED
        BY <3>1, <3>2, <3>3, LowerMaximumAlerts
    <3>. QED
      BY <1>1, <2>5, <3>4
  <2>6. CASE c = "cumulative_missing_pay_drift_pp"
    <3>1. /\ q.drift = None \/ p.drift # None
          /\ q.drift # None => p.drift \in Nat /\ q.drift \in Nat /\ p.drift <= q.drift
      BY <1>4
    <3> DEFINE measured == seen /\ DriftMeasured(window, g)
    <3>2. q.drift # None /\ measured /\ PositiveDrift(window) > q.drift => PositiveDrift(window) > p.drift
      BY <1>6, <3>1
    <3>3. UpperCheck(measured, PositiveDrift(window) > q.drift, q.drift) = "alert"
      BY <1>1, <1>7, <2>6
    <3>4. UpperCheck(measured, PositiveDrift(window) > p.drift, p.drift) = "alert"
      <4> HIDE DEF measured
      <4>. QED
        BY <3>1, <3>2, <3>3, LowerMaximumAlerts
    <3>. QED
      BY <1>1, <2>6, <3>4
  <2>. QED
    BY <2>1, <2>2, <2>3, <2>4, <2>5, <2>6 DEF CheckNames
<1>9. DOMAIN E(p) = CheckNames
  BY <1>1
<1>. QED
  BY <1>8, <1>9 DEF StatusOf, E
\* The gate judges every checkpoint of the replay, and counts an added alert
\* where the candidate alerts and the baseline does not.
LEMMA ComparedOver ==
  ASSUME NEW p, NEW q, NEW samples, NEW last
  PROVE  LET seen == LastOf(samples, last)
             status(policy, s) ==
               StatusOf(Evaluate(policy, WindowAt(policy, samples, s), s.time, s.chain))
         IN  /\ Compare(p, q, samples, last).evaluated = Cardinality(seen)
             /\ Compare(p, q, samples, last).alert_added =
                  Cardinality({s \in seen : status(p, s) # "alert" /\ status(q, s) = "alert"})
<1> DEFINE seen == LastOf(samples, last)
           status(policy, s) ==
             StatusOf(Evaluate(policy, WindowAt(policy, samples, s), s.time, s.chain))
           before == Replay(p, samples, last)
           after == Replay(q, samples, last)
<1>1. /\ DOMAIN before = seen /\ DOMAIN after = seen
      /\ \A s \in seen : StatusOf(before[s]) = status(p, s) /\ StatusOf(after[s]) = status(q, s)
  BY DEF Replay
<1>2. /\ Compare(p, q, samples, last).evaluated = Cardinality(DOMAIN before)
      /\ Compare(p, q, samples, last).alert_added =
           Cardinality({s \in DOMAIN before : StatusOf(before[s]) # "alert"
                                              /\ StatusOf(after[s]) = "alert"})
  BY DEF Compare
<1> HIDE DEF before, after, seen, status
<1>3. {s \in DOMAIN before : StatusOf(before[s]) # "alert" /\ StatusOf(after[s]) = "alert"}
        = {s \in seen : status(p, s) # "alert" /\ status(q, s) = "alert"}
  BY <1>1
<1>4. Compare(p, q, samples, last).alert_added =
        Cardinality({s \in seen : status(p, s) # "alert" /\ status(q, s) = "alert"})
  BY <1>2, <1>3
<1>. QED
  BY <1>1, <1>2, <1>4 DEF seen, status

\* Over an archive that is not empty, a looser policy adds no alert.
LEMMA LooserAddsNoAlert ==
  ASSUME NEW n \in Nat, NEW samples, Dated(samples, n), Measurable(samples),
         NEW p \in Policy, NEW q \in Policy, Raised(p, q)
  PROVE  /\ Compare(p, q, samples, n).alert_added = 0
         /\ Compare(p, q, samples, n).evaluated \in Nat
         /\ Compare(p, q, samples, n).evaluated >= 1 <=> samples # {}
<1> DEFINE seen == LastOf(samples, n)
           status(policy, s) ==
             StatusOf(Evaluate(policy, WindowAt(policy, samples, s), s.time, s.chain))
           added == {s \in seen : status(p, s) # "alert" /\ status(q, s) = "alert"}
<1>1. seen = samples
  <2>1. CASE n >= 1
    BY <2>1, LastOfProperties
  <2>2. CASE n = 0
    <3>1. samples = {}
      BY <2>2 DEF Dated
    <3>. QED
      BY <3>1 DEF LastOf
  <2>. QED
    BY <2>1, <2>2
<1>2. \A s \in samples : status(q, s) = "alert" => status(p, s) = "alert"
  <2> SUFFICES ASSUME NEW s \in samples, status(q, s) = "alert" PROVE status(p, s) = "alert"
    OBVIOUS
  <2> DEFINE upto == {x \in samples : x.time <= s.time}
             window == LastOf(upto, p.last)
  <2>1. Dated(upto, n) /\ p.last \in Nat /\ p.last >= 1
    BY DatedSubset DEF Policy
  <2>2. window \subseteq samples
    BY <2>1, LastOfProperties
  <2>3. Dated(window, n) /\ Measurable(window)
    BY <2>2, DatedSubset DEF Measurable
  <2>4. WindowAt(p, samples, s) = window /\ WindowAt(q, samples, s) = window
    BY DEF WindowAt, Raised
  <2>5. s.time \in Nat
    BY DEF Dated
  <2>. QED
    BY <2>3, <2>4, <2>5, LooserAlertsNoMore
<1>3. added = {}
  BY <1>1, <1>2
<1>4. /\ Compare(p, q, samples, n).evaluated = Cardinality(samples)
      /\ Compare(p, q, samples, n).alert_added = Cardinality(added)
  BY <1>1, ComparedOver
<1>5. Cardinality(samples) \in Nat /\ (Cardinality(samples) = 0 <=> samples = {})
  BY DatedFinite, FS_EmptySet
<1>. QED
  BY <1>3, <1>4, <1>5, FS_EmptySet
=============================================================================
