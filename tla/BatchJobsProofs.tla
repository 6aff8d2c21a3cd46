-------------------------- MODULE BatchJobsProofs --------------------------
(***************************************************************************)
(* Proofs about BatchJobs, for any inputs, thresholds, directories, posts, *)
(* data sets and bounds: what the loops of the programs compute, what a    *)
(* successful run leaves behind, and what the warehouse counts.            *)
(***************************************************************************)
EXTENDS BatchJobs, FiniteSetTheorems, SequenceTheorems, WellFoundedInduction, TLAPS

\* What holds at 0 and stays, holds up to n.
LEMMA Upward ==
  ASSUME NEW n \in Nat, NEW Good, 0 \in Good,
         \A k \in 0 .. n : k < n /\ k \in Good => k + 1 \in Good
  PROVE  0 .. n \subseteq Good
<1> DEFINE Bad == {k \in Nat : k \in 0 .. n /\ k \notin Good}
           R == {ss \in Nat \X Nat : ss[1] < ss[2]}
<1> SUFFICES ASSUME Bad # {} PROVE FALSE
  OBVIOUS
<1>1. PICK b \in Bad : \A c \in Bad : ~(<<c, b>> \in R)
  <2>1. IsWellFoundedOn(R, Nat)
    BY NatLessThanWellFounded DEF OpToRel
  <2> HIDE DEF R
  <2>. QED
    BY <2>1, WFMin
<1>2. b # 0 /\ b - 1 \in 0 .. n /\ b - 1 \in Nat /\ b - 1 < n /\ b \notin Good /\ b \in Nat
  BY <1>1
<1>3. b - 1 \notin Good
  BY <1>2
<1>4. b - 1 \in Bad /\ <<b - 1, b>> \in R
  BY <1>2, <1>3
<1>. QED
  BY <1>1, <1>4

\* A loop over 1 .. n that keeps its state in S runs.
Runs(h, n, start, step) ==
  /\ h = [k \in 0 .. n |-> h[k]]
  /\ h[0] = start
  /\ \A k \in 1 .. n : h[k] = step[<<h[k - 1], k>>]

LEMMA LoopRuns ==
  ASSUME NEW n \in Nat, NEW start, NEW step
  PROVE  \E h : Runs(h, n, start, step)
<1> DEFINE Good == {k \in Nat : \E h : Runs(h, k, start, step)}
<1>1. 0 \in Good
  <2> DEFINE h == [k \in 0 .. 0 |-> start]
  <2>1. Runs(h, 0, start, step)
    BY DEF Runs
  <2>. QED
    BY <2>1
<1>2. ASSUME NEW k \in 0 .. n, k < n, k \in Good PROVE k + 1 \in Good
  <2>1. PICK h : Runs(h, k, start, step)
    BY <1>2
  <2>0. h[0] = start /\ \A i \in 1 .. k : h[i] = step[<<h[i - 1], i>>]
    BY <2>1 DEF Runs
  <2> DEFINE g == [i \in 0 .. k + 1 |-> IF i = k + 1 THEN step[<<h[k], k + 1>>] ELSE h[i]]
  <2>2. g = [i \in 0 .. k + 1 |-> g[i]] /\ g[0] = start
    BY <2>0
  <2>3. ASSUME NEW i \in 1 .. k + 1 PROVE g[i] = step[<<g[i - 1], i>>]
    <3>1. i - 1 \in 0 .. k + 1 /\ i - 1 # k + 1
      OBVIOUS
    <3>2. CASE i = k + 1
      BY <3>1, <3>2
    <3>3. CASE i # k + 1
      BY <2>0, <3>1, <3>3
    <3>. QED
      BY <3>2, <3>3
  <2>4. Runs(g, k + 1, start, step)
    <3> HIDE DEF g
    <3>. QED
      BY <2>2, <2>3 DEF Runs
  <2>. QED
    BY <2>4
<1>3. n \in Good
  <2> HIDE DEF Good
  <2>1. 0 .. n \subseteq Good
    BY <1>1, <1>2, Upward
  <2>. QED
    BY <2>1
<1>. QED
  BY <1>3

\* A loop whose steps stay in T runs and stays in it.
LEMMA LoopStays ==
  ASSUME NEW n \in Nat, NEW T, NEW start \in T, NEW step,
         \A x \in T : \A k \in 1 .. n : step[<<x, k>>] \in T
  PROVE  \E h : Runs(h, n, start, step) /\ \A k \in 0 .. n : h[k] \in T
<1>1. PICK h : Runs(h, n, start, step)
  BY LoopRuns
<1>2. h[0] = start /\ \A k \in 1 .. n : h[k] = step[<<h[k - 1], k>>]
  BY <1>1 DEF Runs
<1> DEFINE Good == {k \in 0 .. n : h[k] \in T}
<1>3. 0 \in Good
  BY <1>2
<1>4. ASSUME NEW k \in 0 .. n, k < n, k \in Good PROVE k + 1 \in Good
  <2>1. k + 1 \in 1 .. n /\ (k + 1) - 1 = k /\ h[k] \in T
    BY <1>4
  <2>2. h[k + 1] = step[<<h[k], k + 1>>]
    BY <1>2, <2>1
  <2>. QED
    BY <2>1, <2>2
<1>5. 0 .. n \subseteq Good
  <2> HIDE DEF Good
  <2>. QED
    BY <1>3, <1>4, Upward
<1>. QED
  BY <1>1, <1>5
-----------------------------------------------------------------------------
\* What the loop of process_stream can have noted.
Stamp(l) == [at |-> l.at, naive |-> l.kind = "naive"]

Notes(ls) ==
  [accepted : SUBSET (1 .. Len(ls)), dead : SUBSET (1 .. Len(ls)),
   late : SUBSET (1 .. Len(ls)), seen : SUBSET {Key(ls[i]) : i \in 1 .. Len(ls)},
   mark : {NoMark} \cup {Stamp(ls[i]) : i \in 1 .. Len(ls)}, raised : BOOLEAN]

LEMMA JudgedNotes ==
  ASSUME NEW ls, NEW lg, NEW lim, NEW acc \in Notes(ls), NEW i \in 1 .. Len(ls)
  PROVE  Judged(lg, lim, ls, acc, i) \in Notes(ls)
<1>1. DeadLetter(acc, i) \in Notes(ls)
  BY DEF DeadLetter, Notes
<1>2. Accept(lg, lim, acc, i, ls[i]) \in Notes(ls)
  BY DEF Accept, Notes, Stamp, Incomparable
<1>. QED
  BY <1>1, <1>2 DEF Judged

\* The loop runs through, and what process_stream goes on with is its end.
Loop(h, lg, lim, ls) ==
  /\ h \in [0 .. Len(ls) -> Notes(ls)]
  /\ h[0] = Nothing
  /\ \A k \in 1 .. Len(ls) : h[k] = Judged(lg, lim, ls, h[k - 1], k)

LEMMA ProcessedRuns ==
  ASSUME NEW ls, Len(ls) \in Nat, NEW lg, NEW lim
  PROVE  \E h : Loop(h, lg, lim, ls) /\ Processed(lg, lim, ls) = h[Len(ls)]
<1> DEFINE n == Len(ls)
           step == [x \in Notes(ls) \X (1 .. n) |-> Judged(lg, lim, ls, x[1], x[2])]
           Is(f) == f = [k \in 0 .. n |->
                           IF k = 0 THEN Nothing ELSE Judged(lg, lim, ls, f[k - 1], k)]
<1>1. Nothing \in Notes(ls)
  BY DEF Nothing, Notes
<1>2. ASSUME NEW h, h = [k \in 0 .. n |-> h[k]], h[0] = Nothing,
             \A k \in 1 .. n :
               h[k - 1] \in Notes(ls) => h[k] = Judged(lg, lim, ls, h[k - 1], k)
      PROVE  Loop(h, lg, lim, ls)
  <2> DEFINE Good == {k \in 0 .. n : h[k] \in Notes(ls)}
  <2>1. 0 \in Good
    BY <1>1, <1>2
  <2>2. ASSUME NEW k \in 0 .. n, k < n, k \in Good
        PROVE  k + 1 \in Good
    <3>1. k + 1 \in 1 .. n /\ (k + 1) - 1 = k
      BY <2>2
    <3>2. h[k + 1] = Judged(lg, lim, ls, h[k], k + 1)
      BY <1>2, <2>2, <3>1
    <3>. QED
      BY <2>2, <3>1, <3>2, JudgedNotes
  <2>3. \A k \in 0 .. n : h[k] \in Notes(ls)
    <3> HIDE DEF Good
    <3>1. 0 .. n \subseteq Good
      BY <2>1, <2>2, Upward
    <3>. QED
      BY <3>1 DEF Good
  <2>4. h \in [0 .. n -> Notes(ls)]
    BY <1>2, <2>3
  <2>5. \A k \in 1 .. n : k - 1 \in 0 .. n
    OBVIOUS
  <2>6. \A k \in 1 .. n : h[k] = Judged(lg, lim, ls, h[k - 1], k)
    BY <1>2, <2>3, <2>5
  <2>. QED
    BY <1>2, <2>4, <2>6 DEF Loop
<1>3. PICK h : Loop(h, lg, lim, ls)
  <2>1. PICK h : Runs(h, n, Nothing, step)
    <3> HIDE DEF step
    <3>. QED
      BY LoopRuns
  <2>2. \A k \in 1 .. n :
          h[k - 1] \in Notes(ls) => h[k] = Judged(lg, lim, ls, h[k - 1], k)
    <3> SUFFICES ASSUME NEW k \in 1 .. n, h[k - 1] \in Notes(ls)
                 PROVE  h[k] = Judged(lg, lim, ls, h[k - 1], k)
      OBVIOUS
    <3>1. h[k] = step[<<h[k - 1], k>>]
      BY <2>1 DEF Runs
    <3>2. <<h[k - 1], k>> \in Notes(ls) \X (1 .. n)
      OBVIOUS
    <3>. QED
      BY <3>1, <3>2
  <2>. QED
    BY <1>2, <2>1, <2>2 DEF Runs
<1>4. Is(h)
  <2> DEFINE f == [k \in 0 .. n |->
                     IF k = 0 THEN Nothing ELSE Judged(lg, lim, ls, h[k - 1], k)]
  <2>1. \A k \in 0 .. n : h[k] = f[k]
    BY <1>3 DEF Loop
  <2>2. h = f
    BY <1>3, <2>1 DEF Loop
  <2>. QED
    BY <2>2
<1> DEFINE after == CHOOSE f : Is(f)
<1>5. Is(after)
  <2> HIDE DEF Is
  <2>. QED
    BY <1>4
<1>6. Loop(after, lg, lim, ls)
  <2> HIDE DEF after
  <2> DEFINE f == [k \in 0 .. n |->
                     IF k = 0 THEN Nothing ELSE Judged(lg, lim, ls, after[k - 1], k)]
  <2>1. after = f
    BY <1>5
  <2>2. \A k \in 0 .. n : f[k] = IF k = 0 THEN Nothing ELSE Judged(lg, lim, ls, after[k - 1], k)
    OBVIOUS
  <2>3. DOMAIN f = 0 .. n /\ f = [k \in 0 .. n |-> f[k]]
    OBVIOUS
  <2> HIDE DEF f
  <2>4. after = [k \in 0 .. n |-> after[k]] /\ after[0] = Nothing
    BY <2>1, <2>2, <2>3
  <2>5. \A k \in 1 .. n : after[k] = Judged(lg, lim, ls, after[k - 1], k)
    BY <2>1, <2>2
  <2>. QED
    BY <1>2, <2>4, <2>5
<1>7. Processed(lg, lim, ls) = after[n]
  BY DEF Processed
<1> HIDE DEF after
<1>. QED
  BY <1>6, <1>7
\* What the loop has found out about the first n lines: the valid ones, the
\* first of every key among them, and those that one before them makes late.
Valids(ls, n) == {i \in 1 .. n : Valid(ls[i])}

Firsts(ls, n) ==
  {i \in Valids(ls, n) : \A k \in Valids(ls, n) : k < i => Key(ls[k]) # Key(ls[i])}

Behind(lg, lim, ls, k, i) ==
  ls[k].at - ls[i].at > lim \/ (lg = "js" /\ lim < 0)

Mixed(lg, ls, n) ==
  lg = "py" /\ \E i, k \in Valids(ls, n) : ls[i].kind = "naive" /\ ls[k].kind # "naive"

\* The watermark is the stamp of the latest of the lines in is.
Watermark(mark, ls, is) ==
  \/ is = {} /\ mark = NoMark
  \/ \E m \in is : mark = Stamp(ls[m]) /\ \A k \in is : ls[k].at <= ls[m].at

Judgement(lg, lim, ls, n, acc) ==
  IF acc.raised THEN Mixed(lg, ls, n)
  ELSE /\ acc.accepted = Firsts(ls, n)
       /\ acc.dead = (1 .. n) \ Firsts(ls, n)
       /\ acc.seen = {Key(ls[i]) : i \in Valids(ls, n)}
       /\ acc.late = {i \in Firsts(ls, n) :
                        \E k \in Firsts(ls, n) : k < i /\ Behind(lg, lim, ls, k, i)}
       /\ Watermark(acc.mark, ls, Firsts(ls, n))

LEMMA LateAgainstLatest ==
  ASSUME NEW lg, NEW lim \in Int, NEW a \in Int, NEW b \in Int
  PROVE  IsLate(lg, a, b, lim) <=> a - b > lim \/ (lg = "js" /\ lim < 0)
<1> DEFINE x == a - b
           m == IF x >= 0 THEN x ELSE 0
<1>1. m \in {x, 0} /\ \A y \in {x, 0} : m >= y
  OBVIOUS
<1>2. Max({x, 0}) \in {x, 0} /\ \A y \in {x, 0} : Max({x, 0}) >= y
  BY <1>1 DEF Max
<1>3. Max({x, 0}) > lim <=> x > lim \/ lim < 0
  BY <1>2
<1>. QED
  BY <1>3 DEF IsLate

LEMMA JudgementStep ==
  ASSUME NEW ls, \A i \in 1 .. Len(ls) : ls[i].at \in Nat, Len(ls) \in Nat,
         NEW lg, NEW lim \in Int, NEW n \in 0 .. Len(ls), n < Len(ls),
         NEW acc \in Notes(ls), Judgement(lg, lim, ls, n, acc)
  PROVE  Judgement(lg, lim, ls, n + 1, Judged(lg, lim, ls, acc, n + 1))
<1> DEFINE i == n + 1
           new == Judged(lg, lim, ls, acc, i)
           F == Firsts(ls, n)
           V == Valids(ls, n)
<1>0. n \in Nat /\ i \in 1 .. Len(ls) /\ i \in Nat /\ 1 .. i = (1 .. n) \cup {i} /\ i \notin 1 .. n
      /\ \A k \in 1 .. n : k < i /\ ~(i < k) /\ k \in 1 .. Len(ls)
  OBVIOUS
<1>1. F \subseteq V /\ V \subseteq 1 .. n
  BY DEF Firsts, Valids
<1>2. Valids(ls, i) = IF Valid(ls[i]) THEN V \cup {i} ELSE V
  BY <1>0 DEF Valids
<1> SUFFICES Judgement(lg, lim, ls, i, new)
  OBVIOUS
<1> HIDE DEF i, V, F
<1>3. CASE acc.raised
  <2>1. new = acc
    BY <1>3 DEF Judged
  <2>2. Mixed(lg, ls, n)
    BY <1>3 DEF Judgement
  <2>3. Mixed(lg, ls, i)
    BY <1>2, <2>2 DEF Mixed, V
  <2>. QED
    BY <1>3, <2>1, <2>3 DEF Judgement
<1>4. CASE ~acc.raised /\ (~Valid(ls[i]) \/ Key(ls[i]) \in acc.seen)
  <2>0. /\ acc.accepted = F /\ acc.dead = (1 .. n) \ F
        /\ acc.seen = {Key(ls[k]) : k \in V}
        /\ acc.late = {k \in F : \E j \in F : j < k /\ Behind(lg, lim, ls, j, k)}
        /\ Watermark(acc.mark, ls, F)
    BY <1>4 DEF Judgement, F, V
  <2>1. new = [acc EXCEPT !.dead = @ \cup {i}]
    BY <1>4 DEF Judged, DeadLetter
  <2>2. /\ new.accepted = acc.accepted /\ new.late = acc.late /\ new.seen = acc.seen
        /\ new.mark = acc.mark /\ ~new.raised /\ new.dead = acc.dead \cup {i}
    BY <1>4, <2>1 DEF Notes
  <2>3. Firsts(ls, i) = F
    <3>1. Valid(ls[i]) => \E k \in V : Key(ls[k]) = Key(ls[i])
      BY <1>4, <2>0
    <3>. QED
      BY <1>0, <1>1, <1>2, <3>1 DEF Firsts, V, F
  <2>4. {Key(ls[k]) : k \in Valids(ls, i)} = {Key(ls[k]) : k \in V}
    BY <1>2, <1>4, <2>0
  <2>5. (1 .. i) \ F = ((1 .. n) \ F) \cup {i}
    BY <1>0, <1>1
  <2> HIDE DEF new
  <2>. QED
    BY <2>0, <2>2, <2>3, <2>4, <2>5 DEF Judgement
<1>5. CASE ~acc.raised /\ Valid(ls[i]) /\ Key(ls[i]) \notin acc.seen
  <2> DEFINE first == acc.mark = NoMark
  <2>0. /\ acc.accepted = F /\ acc.dead = (1 .. n) \ F
        /\ acc.seen = {Key(ls[k]) : k \in V}
        /\ acc.late = {k \in F : \E j \in F : j < k /\ Behind(lg, lim, ls, j, k)}
        /\ Watermark(acc.mark, ls, F)
    BY <1>5 DEF Judgement, F, V
  <2>1. /\ new.accepted = F \cup {i} /\ new.dead = acc.dead
        /\ new.seen = acc.seen \cup {Key(ls[i])}
        /\ new.raised = (~first /\ Incomparable(lg, acc.mark, ls[i]))
        /\ new.late = IF ~first /\ IsLate(lg, acc.mark.at, ls[i].at, lim)
                      THEN acc.late \cup {i} ELSE acc.late
        /\ new.mark = IF first \/ ls[i].at > acc.mark.at THEN Stamp(ls[i]) ELSE acc.mark
    BY <1>5, <2>0 DEF Judged, Accept, Notes, Stamp
  <2> HIDE DEF new
  <2>2. Valids(ls, i) = V \cup {i}
    BY <1>2, <1>5
  <2>3. Firsts(ls, i) = F \cup {i}
    <3>1. \A k \in V : Key(ls[k]) # Key(ls[i])
      BY <1>5, <2>0
    <3>. QED
      BY <1>0, <1>1, <2>2, <3>1 DEF Firsts, V, F
  <2>4. first <=> F = {}
    <3>1. \A m \in F : Stamp(ls[m]) # NoMark
      BY <1>0, <1>1 DEF Stamp, NoMark
    <3>. QED
      BY <2>0, <3>1 DEF Watermark
  <2>5. ASSUME ~first
        PROVE  \E m \in F : /\ acc.mark.at = ls[m].at /\ acc.mark = Stamp(ls[m])
                            /\ acc.mark.naive = (ls[m].kind = "naive")
                            /\ \A k \in F : ls[k].at <= ls[m].at
    BY <2>0, <2>4, <2>5 DEF Watermark, Stamp
  <2>6. \A k \in F \cup {i} : ls[k].at \in Nat
    BY <1>0, <1>1
  <2>7. CASE new.raised
    <3>1. PICK m \in F : acc.mark.naive = (ls[m].kind = "naive")
      BY <2>1, <2>5, <2>7
    <3>2. lg = "py" /\ (ls[m].kind = "naive") # (ls[i].kind = "naive")
      BY <2>1, <2>7, <3>1 DEF Incomparable
    <3>3. m \in Valids(ls, i) /\ i \in Valids(ls, i)
      BY <1>1, <2>2
    <3>4. Mixed(lg, ls, i)
      BY <3>2, <3>3 DEF Mixed
    <3>. QED
      BY <2>7, <3>4 DEF Judgement
  <2>8. CASE ~new.raised
    <3>1. new.dead = (1 .. i) \ Firsts(ls, i)
      BY <1>0, <1>1, <2>0, <2>1, <2>3
    <3>2. new.seen = {Key(ls[k]) : k \in Valids(ls, i)}
      BY <2>0, <2>1, <2>2
    <3>3. (~first /\ IsLate(lg, acc.mark.at, ls[i].at, lim))
            <=> \E j \in F : Behind(lg, lim, ls, j, i)
      <4>1. CASE first
        BY <2>4, <4>1
      <4>2. CASE ~first
        <5>1. PICK m \in F : acc.mark.at = ls[m].at /\ \A k \in F : ls[k].at <= ls[m].at
          BY <2>5, <4>2
        <5>2. IsLate(lg, acc.mark.at, ls[i].at, lim) <=> Behind(lg, lim, ls, m, i)
          BY <2>6, <5>1, LateAgainstLatest DEF Behind
        <5>3. \A j \in F : Behind(lg, lim, ls, j, i) => Behind(lg, lim, ls, m, i)
          BY <2>6, <5>1 DEF Behind
        <5>. QED
          BY <4>2, <5>1, <5>2, <5>3
      <4>. QED
        BY <4>1, <4>2
    <3>4. new.late = {k \in F \cup {i} :
                        \E j \in F \cup {i} : j < k /\ Behind(lg, lim, ls, j, k)}
      <4>1. \A k \in F : k < i /\ ~(i < k)
        BY <1>0, <1>1
      <4>2. ~(i < i) /\ i \notin F
        BY <1>0, <1>1
      <4>3. new.late = IF \E j \in F : Behind(lg, lim, ls, j, i)
                       THEN acc.late \cup {i} ELSE acc.late
        BY <2>1, <3>3
      <4>4. \A k \in F \cup {i} :
              k \in new.late <=> \E j \in F \cup {i} : j < k /\ Behind(lg, lim, ls, j, k)
        BY <2>0, <4>1, <4>2, <4>3
      <4>5. new.late \subseteq F \cup {i}
        BY <2>0, <4>3
      <4>. QED
        BY <4>4, <4>5
    <3>5. Watermark(new.mark, ls, F \cup {i})
      <4>1. CASE first
        BY <2>1, <2>4, <2>6, <4>1 DEF Watermark
      <4>2. CASE ~first
        BY <2>1, <2>5, <2>6, <4>2 DEF Watermark
      <4>. QED
        BY <4>1, <4>2
    <3>. QED
      BY <2>1, <2>3, <2>8, <3>1, <3>2, <3>4, <3>5 DEF Judgement
  <2>. QED
    BY <2>7, <2>8
<1>. QED
  BY <1>3, <1>4, <1>5 DEF Notes
\* Processed is what its closed form says.
LEMMA ProcessedJudgement ==
  ASSUME NEW ls, IsSequence(ls), \A i \in DOMAIN ls : ls[i].at \in Nat,
         NEW lg, NEW lim \in Int
  PROVE  /\ Processed(lg, lim, ls) \in Notes(ls)
         /\ Judgement(lg, lim, ls, Len(ls), Processed(lg, lim, ls))
<1> DEFINE n == Len(ls)
<1>1. n \in Nat /\ DOMAIN ls = 1 .. n
  BY DEF IsSequence
<1>2. PICK h : Loop(h, lg, lim, ls) /\ Processed(lg, lim, ls) = h[n]
  BY <1>1, ProcessedRuns
<1>3. /\ \A k \in 0 .. n : h[k] \in Notes(ls)
      /\ h[0] = Nothing
      /\ \A k \in 1 .. n : h[k] = Judged(lg, lim, ls, h[k - 1], k)
  BY <1>2 DEF Loop
<1> DEFINE Good == {k \in 0 .. n : Judgement(lg, lim, ls, k, h[k])}
<1>4. 0 \in Good
  <2>1. Valids(ls, 0) = {} /\ Firsts(ls, 0) = {}
    BY DEF Valids, Firsts
  <2>2. Judgement(lg, lim, ls, 0, Nothing)
    BY <2>1 DEF Judgement, Watermark, Nothing
  <2>. QED
    BY <1>1, <1>3, <2>2
<1>5. ASSUME NEW k \in 0 .. n, k < n, k \in Good PROVE k + 1 \in Good
  <2>1. k + 1 \in 1 .. n /\ (k + 1) - 1 = k /\ k + 1 \in 0 .. n
    BY <1>1, <1>5
  <2>2. h[k + 1] = Judged(lg, lim, ls, h[k], k + 1)
    BY <1>3, <2>1
  <2>3. Judgement(lg, lim, ls, k + 1, Judged(lg, lim, ls, h[k], k + 1))
    BY <1>1, <1>3, <1>5, JudgementStep
  <2>. QED
    BY <2>1, <2>2, <2>3
<1>6. n \in Good
  <2> HIDE DEF Good
  <2>1. 0 .. n \subseteq Good
    BY <1>1, <1>4, <1>5, Upward
  <2>. QED
    BY <1>1, <2>1
<1>. QED
  BY <1>1, <1>2, <1>3, <1>6

-----------------------------------------------------------------------------
\* A stream program reads one of its inputs, under one of its thresholds.
Reading ==
  /\ job \in Programs /\ lang \in {"py", "js"} /\ run \in Nat
  /\ run > 0 /\ job = "stream" => lines \in Inputs \cup {Absent} /\ limit \in Limits

LEMMA AlwaysReading == Spec => []Reading
<1>1. Init => Reading
  BY DEF Init, JobsInit, Reading
<1>2. Reading /\ [Next]_vars => Reading'
  <2> SUFFICES ASSUME Reading, [Next]_vars PROVE Reading'
    OBVIOUS
  <2>1. job' = job /\ lang' = lang /\ run' \in {run, run + 1}
    BY DEF Next, vars, jobVars, JobsNext, WriteFile, WriteFails, WriteManifest,
           ManifestFails, Die, StreamNext, StreamRaises, StreamFails, StreamReads,
           RunnerNext, Run, StepWrites, StepSucceeds, StepRaises, Conclude, Start,
           ApiNext, RunApi, FetchPage, TransformRaises, FetchAgain, FetchFails, ApiChanges,
           CsvNext, RunCsvEmpty, RunCsvUnread, RunCsv,
           WarehouseNext, RunWarehouse, StageDone, StageFails, Query, QueryFails
  <2>2. CASE StreamNext
    BY <2>1, <2>2 DEF Reading, StreamNext, StreamRaises, StreamFails, StreamReads
  <2>3. CASE ~StreamNext /\ job = "stream"
    <3>1. lines' = lines /\ limit' = limit /\ run' = run
      BY <2>3 DEF Next, vars, jobVars, streamVars, JobsNext, WriteFile, WriteFails, WriteManifest,
             ManifestFails, Die, 
             RunnerNext, Run, StepWrites, StepSucceeds, StepRaises, Conclude, Start, Pipelines,
             ApiNext, RunApi, FetchPage, TransformRaises, FetchAgain, FetchFails, ApiChanges,
             CsvNext, RunCsvEmpty, RunCsvUnread, RunCsv,
             WarehouseNext, RunWarehouse, StageDone, StageFails, Query, QueryFails
    <3>. QED
      BY <2>1, <2>3, <3>1 DEF Reading
  <2>4. CASE job # "stream"
    BY <2>1, <2>4 DEF Reading
  <2>. QED
    BY <2>2, <2>3, <2>4
<1>. QED
  BY <1>1, <1>2, PTL DEF Spec

\* process_stream judges a line against what came before it and nothing else:
\* accepted is the first valid event of each key, late what an accepted event
\* before it is too far ahead of, for any file and threshold, and Python raises
\* only over aware and naive times in one file.
THEOREM StreamJudgesAgainstPast == Spec => []JudgedAgainstPast
<1>1. Reading => JudgedAgainstPast
  <2> SUFFICES ASSUME Reading, job = "stream", run > 0, lines # Absent
               PROVE  LET r == Processed(lang, limit, lines)
                      IN  IF r.raised
                          THEN lang = "py" /\ \E i, k \in ValidLines :
                                                lines[i].kind = "naive" /\ lines[k].kind # "naive"
                          ELSE /\ r.accepted = FirstOf(ValidLines)
                               /\ r.late = Late(r.accepted)
                               /\ (\A i \in DOMAIN lines : lines[i].kind # "blank") =>
                                    r.accepted = FirstOf(DemoAccepted)
    BY DEF JudgedAgainstPast
  <2> DEFINE r == Processed(lang, limit, lines)
             n == Len(lines)
  <2>1. /\ IsSequence(lines) /\ \A i \in DOMAIN lines : lines[i].at \in Nat
        /\ limit \in Int
    BY StreamAssumption DEF Reading
  <2>2. DOMAIN lines = 1 .. n
    BY <2>1 DEF IsSequence
  <2>3. Judgement(lang, limit, lines, n, r)
    BY <2>1, ProcessedJudgement
  <2>4. Valids(lines, n) = ValidLines /\ Firsts(lines, n) = FirstOf(ValidLines)
    BY <2>2 DEF Valids, ValidLines, Firsts, FirstOf
  <2>5. (\A i \in DOMAIN lines : lines[i].kind # "blank") => DemoAccepted = ValidLines
    BY DEF DemoAccepted, ValidLines, Valid
  <2> DEFINE Says ==
        IF r.raised
        THEN lang = "py" /\ \E i, k \in ValidLines :
                              lines[i].kind = "naive" /\ lines[k].kind # "naive"
        ELSE /\ r.accepted = FirstOf(ValidLines)
             /\ r.late = Late(r.accepted)
             /\ (\A i \in DOMAIN lines : lines[i].kind # "blank") =>
                  r.accepted = FirstOf(DemoAccepted)
  <2>6. Says
    <3> HIDE DEF r, n
    <3>. QED
      BY <2>3, <2>4, <2>5 DEF Judgement, Mixed, Late, Behind
  <2>. QED
    BY <2>6
<1>. QED
  BY <1>1, AlwaysReading, PTL
-----------------------------------------------------------------------------
\* Every program keeps to its own places.
Places(j) ==
  IF j \in {"stream", "csv"} THEN {"idle", "write"}
  ELSE IF j = "api" THEN {"idle", "fetch", "write"}
  ELSE IF j = "warehouse" THEN {"idle", "load", "write"}
  ELSE IF j = "demo" THEN {"idle", "step", "write", "caught", "manifest"}
  ELSE {"idle", "step", "write", "caught"}

InPlace ==
  /\ Reading
  /\ pc \in Places(job)
  /\ verdict = Verdict(verdict.status, verdict.rows)

\* A step is one of the running program or one that all of them share.
Shared == JobsNext /\ UNCHANGED <<streamVars, runnerVars, apiVars, csvVars, warehouseVars>>

OwnStep ==
  \/ job = "stream" /\ StreamNext
  \/ job \in Pipelines /\ RunnerNext
  \/ job = "api" /\ ApiNext
  \/ job = "csv" /\ CsvNext
  \/ job = "warehouse" /\ WarehouseNext

LEMMA StepsAreOwn ==
  ASSUME InPlace, Next
  PROVE  Shared \/ OwnStep
<1>0. job \in Programs /\ pc \in Places(job)
  BY DEF InPlace, Reading
<1>1. StreamNext => job = "stream"
  BY DEF StreamNext, StreamRaises, StreamFails, StreamReads, Start
<1>2. RunnerNext => job \in Pipelines
  <2>1. RunnerNext => job \in Pipelines \/ pc \in {"step", "caught"}
    BY DEF RunnerNext, Run, Start, StepWrites, StepSucceeds, StepRaises, Raises,
           Running, Conclude
  <2>. QED
    BY <1>0, <2>1 DEF Places, Programs, Pipelines
<1>3. ApiNext => job = "api"
  <2>1. ApiNext => job = "api" \/ pc = "fetch"
    BY DEF ApiNext, RunApi, Start, FetchPage, TransformRaises, FetchAgain, FetchFails, ApiChanges
  <2>. QED
    BY <1>0, <2>1 DEF Places
<1>4. CsvNext => job = "csv"
  BY DEF CsvNext, RunCsvEmpty, RunCsvUnread, RunCsv, Start
<1>5. WarehouseNext => job = "warehouse"
  <2>1. WarehouseNext => job = "warehouse" \/ pc = "load"
    BY DEF WarehouseNext, RunWarehouse, Start, StageDone, StageFails, Loading, Query,
           QueryFails
  <2>. QED
    BY <1>0, <2>1 DEF Places
<1>. QED
  BY <1>1, <1>2, <1>3, <1>4, <1>5 DEF Next, Shared, OwnStep

\* No program becomes another one.
LEMMA JobStays ==
  ASSUME [Next]_vars
  PROVE  job' = job
BY DEF Next, vars, jobVars, JobsNext, WriteFile, WriteFails, WriteManifest,
       ManifestFails, Die, StreamNext, StreamRaises, StreamFails, StreamReads,
       RunnerNext, Run, StepWrites, StepSucceeds, StepRaises, Conclude,
       ApiNext, RunApi, FetchPage, TransformRaises, FetchAgain, FetchFails, ApiChanges,
       CsvNext, RunCsvEmpty, RunCsvUnread, RunCsv,
       WarehouseNext, RunWarehouse, StageDone, StageFails, Query, QueryFails

LEMMA InPlaceStep == InPlace /\ Reading' /\ [Next]_vars => InPlace'
<1> SUFFICES ASSUME InPlace, Reading', [Next]_vars
             PROVE  pc' \in Places(job') /\ verdict' = Verdict(verdict'.status, verdict'.rows)
  BY DEF InPlace
<1>0. /\ pc \in Places(job) /\ job \in Programs
      /\ verdict = Verdict(verdict.status, verdict.rows)
  BY DEF InPlace, Reading
<1>1. \A s, n : Verdict(s, n) = Verdict(Verdict(s, n).status, Verdict(s, n).rows)
  BY DEF Verdict
<1>2. [verdict EXCEPT !.status = "failed"] = Verdict("failed", verdict.rows)
  BY <1>0 DEF Verdict
<1>3. CASE Shared
  <2>1. job' = job
    BY <1>3 DEF Shared, JobsNext, WriteFile, WriteFails, WriteManifest, ManifestFails, Die
  <2>2. \/ pc' \in {pc, "idle"}
        \/ pc' = "caught" /\ job \in Pipelines
    BY <1>3 DEF Shared, JobsNext, WriteFile, WriteFails, WriteManifest, ManifestFails, Die,
           RaisesIntoRunner, NotesError, GoesToManifest, RaisesToCaller, EndWith
  <2>3. verdict' \in {verdict, Unknown, Verdict("failed", verdict.rows)}
    BY <1>2, <1>3 DEF Shared, JobsNext, WriteFile, WriteFails, WriteManifest, ManifestFails,
           Die, RaisesIntoRunner, NotesError, GoesToManifest, RaisesToCaller, EndWith
  <2>4. verdict' = Verdict(verdict'.status, verdict'.rows)
    BY <1>0, <1>1, <2>3 DEF Unknown
  <2>. QED
    BY <1>0, <2>1, <2>2, <2>4 DEF Places, Programs, Pipelines
<1>4. CASE job = "stream" /\ StreamNext
  BY <1>1, <1>4 DEF StreamNext, StreamRaises, StreamFails, StreamReads, EndWith, Unknown,
         Places
<1>5. CASE job \in Pipelines /\ RunnerNext
  <2>1. job' = job
    BY <1>5 DEF RunnerNext, Run, StepWrites, StepSucceeds, StepRaises, Conclude
  <2>2. pc' \in {"step", "write", "idle"} \/ (pc' = "manifest" /\ job = "demo")
    BY <1>5 DEF RunnerNext, Run, StepWrites, StepSucceeds, StepRaises, Conclude, Record,
           TryAgain, SkipOrFail
  <2>3. verdict' = verdict \/ \E s, n : verdict' = Verdict(s, n)
    BY <1>5 DEF RunnerNext, Run, StepWrites, StepSucceeds, StepRaises, Conclude, Unknown
  <2>. QED
    BY <1>0, <1>1, <1>5, <2>1, <2>2, <2>3 DEF Places, Pipelines
<1>6. CASE job = "api" /\ ApiNext
  <2>1. job' = job /\ pc' \in {pc, "fetch", "write", "idle"}
    BY <1>6 DEF ApiNext, RunApi, FetchPage, TransformRaises, FetchAgain, FetchFails, ApiChanges, EndWith,
           jobVars
  <2>2. verdict' = verdict \/ \E s, n : verdict' = Verdict(s, n)
    BY <1>6 DEF ApiNext, RunApi, FetchPage, TransformRaises, FetchAgain, FetchFails, ApiChanges, EndWith,
           jobVars, Unknown
  <2>. QED
    BY <1>0, <1>1, <1>6, <2>1, <2>2 DEF Places
<1>7. CASE job = "csv" /\ CsvNext
  BY <1>1, <1>7 DEF CsvNext, RunCsvEmpty, RunCsvUnread, RunCsv, EndWith, Unknown, Places
<1>8. CASE job = "warehouse" /\ WarehouseNext
  <2>1. job' = job /\ pc' \in {pc, "load", "write", "idle"}
    BY <1>8 DEF WarehouseNext, RunWarehouse, StageDone, StageFails, Query, QueryFails,
           EndWith, jobVars
  <2>2. verdict' = verdict \/ \E s, n : verdict' = Verdict(s, n)
    BY <1>8 DEF WarehouseNext, RunWarehouse, StageDone, StageFails, Query, QueryFails,
           EndWith, jobVars, Unknown
  <2>. QED
    BY <1>0, <1>1, <1>8, <2>1, <2>2 DEF Places
<1>9. CASE UNCHANGED vars
  BY <1>0, <1>9 DEF vars, jobVars
<1>. QED
  BY <1>3, <1>4, <1>5, <1>6, <1>7, <1>8, <1>9, StepsAreOwn DEF OwnStep

LEMMA AlwaysInPlace == Spec => []InPlace
<1>1. Init /\ Reading => InPlace
  BY DEF Init, JobsInit, InPlace, Reading, Places, Unknown, Verdict
<1>. QED
  BY <1>1, InPlaceStep, AlwaysReading, PTL DEF Spec
-----------------------------------------------------------------------------
Prices == {"none", "negative", "positive"}

Database ==
  [customers : SUBSET Customers, prices : [Products -> Prices],
   orders : [Orders -> Customers \cup {NoOne}], known : SUBSET Orders,
   items : SUBSET (Orders \X Products), events : SUBSET Events,
   dim_customer : [Customers -> Nat], dim_product : [Products -> Nat],
   fact_order : SUBSET [order : Orders, key : Customers \X Nat, run : Nat],
   fact_order_item : SUBSET [item : Orders \X Products, key : Products \X Nat, run : Nat],
   fact_event : SUBSET [event : Events, run : Nat]]

\* Facts refer to keys that their dimension gives or gave.
Referred(d) ==
  /\ \A c \in Customers : d.dim_customer[c] > 0 => c \in d.customers
  /\ \A r \in d.fact_order : r.key[2] <= d.dim_customer[r.key[1]]
  /\ \A r \in d.fact_order_item :
       r.key[1] = r.item[2] /\ r.key[2] <= d.dim_product[r.key[1]]

\* The dimension was renewed and nothing refers to it yet.
FreshCustomers(d) ==
  \A c \in d.customers :
    d.dim_customer[c] > 0 /\ \A r \in d.fact_order : r.key # CustomerKey(d, c)

FreshProducts(d) ==
  \A p \in Priced(d) :
    d.dim_product[p] > 0 /\ \A r \in d.fact_order_item : r.key # ProductKey(d, p)

OrdersOnce(d) ==
  \A o \in d.known : d.orders[o] \in d.customers =>
    \E r \in JoinedOrders(d) : {x \in JoinedOrders(d) : x.order = o} = {r}

ItemsOnce(d) ==
  \A i \in d.items : i[2] \in Priced(d) =>
    \E r \in JoinedItems(d) : {x \in JoinedItems(d) : x.item = i} = {r}

\* What the first n stages of a run have brought about.
Staged(n, d) ==
  /\ n \in 6 .. 7 => FreshCustomers(d)
  /\ n \in 8 .. 10 => OrdersOnce(d)
  /\ n \in 7 .. 8 => FreshProducts(d)
  /\ n \in 9 .. 10 => ItemsOnce(d)

Housed ==
  job = "warehouse" =>
    /\ db \in Database /\ Referred(db) /\ stage \in 0 .. 10
    /\ pc = "load" => /\ data \in Datasets /\ missing \in Absences
                      /\ verdict.status = "raised" /\ Staged(stage, db)
    /\ verdict.status = "success" => OrdersOnce(db) /\ ItemsOnce(db)

LEMMA ScriptIs ==
  /\ Len(Script) = 10
  /\ Script[1] = "customers" /\ Script[2] = "products" /\ Script[3] = "orders"
  /\ Script[4] = "order_items" /\ Script[5] = "events"
  /\ Script[6] = "dim_customer" /\ Script[7] = "dim_product"
  /\ Script[8] = "fact_order" /\ Script[9] = "fact_order_item"
  /\ Script[10] = "fact_event"
BY DEF Script, Staging, Transforms

LEMMA RenewedDim ==
  ASSUME NEW S, NEW dim \in [S -> Nat], NEW ids
  PROVE  /\ Renewed(dim, ids) \in [S -> Nat]
         /\ \A x \in S : Renewed(dim, ids)[x] = IF x \in ids THEN dim[x] + 1 ELSE dim[x]
BY DEF Renewed

\* The first five stages fill the staging tables, whose customers only grow.
LEMMA StagingStage ==
  ASSUME NEW d \in Database, Referred(d), NEW f \in Dataset,
         NEW s \in {"customers", "products", "orders", "order_items", "events"}
  PROVE  Effect(s, d, f) \in Database /\ Referred(Effect(s, d, f))
<1>0. /\ f.customers \subseteq Customers /\ f.prices \in [Products -> Prices]
      /\ DOMAIN f.orders \subseteq Orders
      /\ \A o \in DOMAIN f.orders : f.orders[o] \in Customers \cup {NoOne}
      /\ f.items \subseteq Orders \X Products /\ f.events \subseteq Events
  <2>1. PICK os \in SUBSET Orders : f.orders \in [os -> Customers \cup {NoOne}]
    BY DEF Dataset
  <2>. QED
    BY <2>1 DEF Dataset, Prices
<1> DEFINE new == Effect(s, d, f)
<1>1. /\ new \in Database
      /\ new.dim_customer = d.dim_customer /\ new.dim_product = d.dim_product
      /\ new.fact_order = d.fact_order /\ new.fact_order_item = d.fact_order_item
      /\ d.customers \subseteq new.customers
  <2>1. CASE s = "customers"
    BY <1>0, <2>1 DEF Effect, Database
  <2>2. CASE s = "products"
    <3> DEFINE prices == [p \in Products |->
                            IF f.prices[p] = "none" THEN d.prices[p] ELSE f.prices[p]]
    <3>1. prices \in [Products -> Prices]
      BY <1>0 DEF Database
    <3>2. new = [d EXCEPT !.prices = prices]
      BY <2>2 DEF Effect
    <3> HIDE DEF prices
    <3>. QED
      BY <3>1, <3>2 DEF Database
  <2>3. CASE s = "orders"
    <3> DEFINE orders == [o \in Orders |->
                            IF o \in DOMAIN f.orders THEN f.orders[o] ELSE d.orders[o]]
    <3>1. orders \in [Orders -> Customers \cup {NoOne}]
      BY <1>0 DEF Database
    <3> DEFINE known == d.known \cup DOMAIN f.orders
    <3>2. known \in SUBSET Orders
      BY <1>0 DEF Database
    <3>3. new = [d EXCEPT !.orders = orders, !.known = known]
      BY <2>3 DEF Effect
    <3> HIDE DEF orders, known, new
    <3>. QED
      BY <3>1, <3>2, <3>3 DEF Database
  <2>4. CASE s = "order_items"
    BY <1>0, <2>4 DEF Effect, Database
  <2>5. CASE s = "events"
    BY <1>0, <2>5 DEF Effect, Database
  <2>. QED
    BY <2>1, <2>2, <2>3, <2>4, <2>5
<1>. QED
  BY <1>1 DEF Referred

\* Renewing the customers leaves every key in a fact behind.
LEMMA CustomersStage ==
  ASSUME NEW d \in Database, Referred(d), NEW f
  PROVE  LET new == Effect("dim_customer", d, f)
         IN  new \in Database /\ Referred(new) /\ FreshCustomers(new)
<1> DEFINE new == Effect("dim_customer", d, f)
           dim == Renewed(d.dim_customer, d.customers)
<1>1. new = [d EXCEPT !.dim_customer = dim]
  BY DEF Effect
<1>2. /\ dim \in [Customers -> Nat] /\ d.dim_customer \in [Customers -> Nat]
      /\ \A c \in Customers :
           dim[c] = IF c \in d.customers THEN d.dim_customer[c] + 1 ELSE d.dim_customer[c]
  BY RenewedDim DEF Database
<1> HIDE DEF dim
<1>3. /\ new \in Database /\ new.dim_customer = dim /\ new.customers = d.customers
      /\ new.fact_order = d.fact_order /\ new.fact_order_item = d.fact_order_item
      /\ new.dim_product = d.dim_product
  BY <1>1, <1>2 DEF Database
<1>4. /\ d.customers \subseteq Customers
      /\ \A r \in d.fact_order : r.key[1] \in Customers /\ r.key[2] \in Nat
  BY DEF Database
<1> HIDE DEF new
<1>5. Referred(new)
  BY <1>2, <1>3, <1>4 DEF Referred
<1>6. FreshCustomers(new)
  <2> SUFFICES ASSUME NEW c \in d.customers
               PROVE  dim[c] > 0 /\ \A r \in d.fact_order : r.key # <<c, dim[c]>>
    BY <1>3 DEF FreshCustomers, CustomerKey
  <2>1. dim[c] = d.dim_customer[c] + 1 /\ d.dim_customer[c] \in Nat
    BY <1>2, <1>4
  <2>2. ASSUME NEW r \in d.fact_order, r.key = <<c, dim[c]>> PROVE FALSE
    <3>1. r.key[1] = c /\ r.key[2] = dim[c] /\ r.key[2] <= d.dim_customer[r.key[1]]
      BY <2>2 DEF Referred
    <3>. QED
      BY <2>1, <3>1
  <2>. QED
    BY <2>1, <2>2
<1>. QED
  BY <1>3, <1>5, <1>6 DEF new

LEMMA ProductsStage ==
  ASSUME NEW d \in Database, Referred(d), FreshCustomers(d), NEW f
  PROVE  LET new == Effect("dim_product", d, f)
         IN  new \in Database /\ Referred(new) /\ FreshCustomers(new) /\ FreshProducts(new)
<1> DEFINE new == Effect("dim_product", d, f)
           dim == Renewed(d.dim_product, Priced(d))
<1>1. new = [d EXCEPT !.dim_product = dim]
  BY DEF Effect
<1>2. /\ dim \in [Products -> Nat] /\ d.dim_product \in [Products -> Nat]
      /\ \A p \in Products :
           dim[p] = IF p \in Priced(d) THEN d.dim_product[p] + 1 ELSE d.dim_product[p]
  BY RenewedDim DEF Database
<1> HIDE DEF dim
<1>3. /\ new \in Database /\ new.dim_product = dim /\ new.customers = d.customers
      /\ new.fact_order = d.fact_order /\ new.fact_order_item = d.fact_order_item
      /\ new.dim_customer = d.dim_customer /\ new.prices = d.prices
  BY <1>1, <1>2 DEF Database
<1>4. \A r \in d.fact_order_item : r.key[1] \in Products /\ r.key[2] \in Nat
  BY DEF Database
<1> HIDE DEF new
<1>5. Referred(new)
  BY <1>2, <1>3, <1>4 DEF Referred
<1>6. FreshCustomers(new)
  BY <1>3 DEF FreshCustomers, CustomerKey
<1>7. FreshProducts(new)
  <2> SUFFICES ASSUME NEW p \in Priced(d)
               PROVE  dim[p] > 0 /\ \A r \in d.fact_order_item : r.key # <<p, dim[p]>>
    BY <1>3 DEF FreshProducts, ProductKey, Priced
  <2>1. dim[p] = d.dim_product[p] + 1 /\ d.dim_product[p] \in Nat
    BY <1>2 DEF Priced
  <2>2. ASSUME NEW r \in d.fact_order_item, r.key = <<p, dim[p]>> PROVE FALSE
    <3>1. r.key[1] = p /\ r.key[2] = dim[p] /\ r.key[2] <= d.dim_product[r.key[1]]
      BY <2>2 DEF Referred
    <3>. QED
      BY <2>1, <3>1
  <2>. QED
    BY <2>1, <2>2
<1>. QED
  BY <1>3, <1>5, <1>6, <1>7 DEF new

\* Facts made of fresh keys are the only ones of this run's orders to join.
LEMMA OrdersStage ==
  ASSUME NEW d \in Database, Referred(d), FreshCustomers(d), FreshProducts(d), NEW f,
         run \in Nat
  PROVE  LET new == Effect("fact_order", d, f)
         IN  new \in Database /\ Referred(new) /\ OrdersOnce(new) /\ FreshProducts(new)
<1> DEFINE new == Effect("fact_order", d, f)
           fact(o) == [order |-> o, key |-> CustomerKey(d, d.orders[o]), run |-> run]
           chosen == {x \in d.known : d.orders[x] # NoOne /\ d.dim_customer[d.orders[x]] > 0}
           facts == {fact(o) : o \in chosen}
<1>1. new = [d EXCEPT !.fact_order = @ \cup facts]
  BY DEF Effect
<1>2. \A o \in d.known : d.orders[o] # NoOne => d.orders[o] \in Customers
  BY DEF Database
<1>3. facts \subseteq [order : Orders, key : Customers \X Nat, run : Nat]
  <2> SUFFICES ASSUME NEW o \in chosen
               PROVE  fact(o) \in [order : Orders, key : Customers \X Nat, run : Nat]
    OBVIOUS
  <2>1. o \in Orders /\ d.orders[o] \in Customers /\ d.dim_customer[d.orders[o]] \in Nat
    BY <1>2 DEF Database
  <2>. QED
    BY <2>1 DEF CustomerKey
<1>4. \A r \in facts : r.key[2] <= d.dim_customer[r.key[1]]
  <2> SUFFICES ASSUME NEW o \in chosen
               PROVE  fact(o).key[2] <= d.dim_customer[fact(o).key[1]]
    OBVIOUS
  <2>1. d.dim_customer[d.orders[o]] \in Nat
    BY <1>2 DEF Database
  <2>. QED
    BY <2>1 DEF CustomerKey
<1>5. /\ \A o \in chosen : fact(o) \in facts /\ fact(o).order = o
                           /\ fact(o).key = CustomerKey(d, d.orders[o])
      /\ \A r \in facts : \E o \in chosen : r = fact(o)
  OBVIOUS
<1> HIDE DEF facts
<1>6. /\ new \in Database /\ new.fact_order = d.fact_order \cup facts
      /\ new.fact_order_item = d.fact_order_item /\ new.customers = d.customers
      /\ new.dim_customer = d.dim_customer /\ new.dim_product = d.dim_product
      /\ new.known = d.known /\ new.orders = d.orders /\ new.prices = d.prices
  BY <1>1, <1>3 DEF Database
<1> HIDE DEF new
<1>7. Referred(new)
  BY <1>4, <1>6 DEF Referred
<1>8. FreshProducts(new)
  BY <1>6 DEF FreshProducts, ProductKey, Priced
<1>9. OrdersOnce(new)
  <2> SUFFICES ASSUME NEW o \in d.known, d.orders[o] \in d.customers
               PROVE  \E r \in JoinedOrders(new) : {x \in JoinedOrders(new) : x.order = o} = {r}
    BY <1>6 DEF OrdersOnce
  <2>1. o \in chosen
    <3>1. d.orders[o] \in Customers /\ d.dim_customer[d.orders[o]] > 0
      BY DEF Database, FreshCustomers
    <3>. QED
      BY <3>1, WarehouseAssumption
  <2>2. \A c, n : CustomerKey(new, c) = CustomerKey(d, c)
    BY <1>6 DEF CustomerKey
  <2>3. fact(o) \in JoinedOrders(new)
    BY <1>2, <1>5, <1>6, <2>1, <2>2 DEF JoinedOrders
  <2>4. ASSUME NEW x \in JoinedOrders(new), x.order = o PROVE x = fact(o)
    <3>1. PICK c \in Customers : d.dim_customer[c] > 0 /\ x.key = CustomerKey(d, c)
      BY <1>6, <2>2 DEF JoinedOrders
    <3>2. c \in d.customers
      BY <3>1 DEF Referred
    <3>3. x \notin d.fact_order
      BY <3>1, <3>2 DEF FreshCustomers
    <3>4. x \in facts
      BY <1>6, <3>3 DEF JoinedOrders
    <3>. QED
      BY <1>5, <2>4, <3>4
  <2> HIDE DEF fact
  <2>. QED
    BY <1>5, <2>1, <2>3, <2>4
<1>. QED
  BY <1>6, <1>7, <1>8, <1>9 DEF new
LEMMA ItemsStage ==
  ASSUME NEW d \in Database, Referred(d), OrdersOnce(d), FreshProducts(d), NEW f,
         run \in Nat
  PROVE  LET new == Effect("fact_order_item", d, f)
         IN  new \in Database /\ Referred(new) /\ OrdersOnce(new) /\ ItemsOnce(new)
<1> DEFINE new == Effect("fact_order_item", d, f)
           fact(i) == [item |-> i, key |-> ProductKey(d, i[2]), run |-> run]
           chosen == {x \in d.items : d.dim_product[x[2]] > 0}
           facts == {fact(i) : i \in chosen}
<1>1. new = [d EXCEPT !.fact_order_item = @ \cup facts]
  BY DEF Effect
<1>2. \A i \in d.items : i \in Orders \X Products /\ i[2] \in Products
                         /\ d.dim_product[i[2]] \in Nat
  BY DEF Database
<1>3. facts \subseteq [item : Orders \X Products, key : Products \X Nat, run : Nat]
  <2> SUFFICES ASSUME NEW i \in chosen
               PROVE  fact(i) \in [item : Orders \X Products, key : Products \X Nat, run : Nat]
    OBVIOUS
  <2>. QED
    BY <1>2 DEF ProductKey
<1>4. \A r \in facts : r.key[1] = r.item[2] /\ r.key[2] <= d.dim_product[r.key[1]]
  <2> SUFFICES ASSUME NEW i \in chosen
               PROVE  /\ fact(i).key[1] = fact(i).item[2]
                      /\ fact(i).key[2] <= d.dim_product[fact(i).key[1]]
    OBVIOUS
  <2>. QED
    BY <1>2 DEF ProductKey
<1>5. /\ \A i \in chosen : fact(i) \in facts /\ fact(i).item = i
                           /\ fact(i).key = ProductKey(d, i[2])
      /\ \A r \in facts : \E i \in chosen : r = fact(i)
  OBVIOUS
<1> HIDE DEF facts
<1>6. /\ new \in Database /\ new.fact_order_item = d.fact_order_item \cup facts
      /\ new.fact_order = d.fact_order /\ new.customers = d.customers
      /\ new.dim_customer = d.dim_customer /\ new.dim_product = d.dim_product
      /\ new.known = d.known /\ new.orders = d.orders /\ new.prices = d.prices
      /\ new.items = d.items
  BY <1>1, <1>3 DEF Database
<1> HIDE DEF new
<1>7. Referred(new)
  BY <1>4, <1>6 DEF Referred
<1>8. OrdersOnce(new)
  <2>1. JoinedOrders(new) = JoinedOrders(d)
    BY <1>6 DEF JoinedOrders, CustomerKey
  <2>. QED
    BY <1>6, <2>1 DEF OrdersOnce
<1>9. ItemsOnce(new)
  <2> SUFFICES ASSUME NEW i \in d.items, i[2] \in Priced(d)
               PROVE  \E r \in JoinedItems(new) : {x \in JoinedItems(new) : x.item = i} = {r}
    BY <1>6 DEF ItemsOnce, Priced
  <2>1. i \in chosen /\ i[2] \in Products
    BY <1>2 DEF FreshProducts
  <2>2. \A p : ProductKey(new, p) = ProductKey(d, p)
    BY <1>6 DEF ProductKey
  <2>3. fact(i) \in JoinedItems(new)
    BY <1>5, <1>6, <2>1, <2>2 DEF JoinedItems
  <2>4. ASSUME NEW x \in JoinedItems(new), x.item = i PROVE x = fact(i)
    <3>1. PICK p \in Products : x.key = ProductKey(d, p)
      BY <2>2 DEF JoinedItems
    <3>2. x \in d.fact_order_item => x.key[1] = i[2]
      BY <2>4 DEF Referred
    <3>3. x.key[1] = p
      BY <3>1 DEF ProductKey
    <3>4. x \notin d.fact_order_item
      BY <3>1, <3>2, <3>3 DEF FreshProducts
    <3>5. x \in facts
      BY <1>6, <3>4 DEF JoinedItems
    <3>. QED
      BY <1>5, <2>4, <3>5
  <2> HIDE DEF fact
  <2>. QED
    BY <1>5, <2>1, <2>3, <2>4
<1>. QED
  BY <1>6, <1>7, <1>8, <1>9 DEF new

LEMMA EventsStage ==
  ASSUME NEW d \in Database, Referred(d), OrdersOnce(d), ItemsOnce(d), NEW f, run \in Nat
  PROVE  LET new == Effect("fact_event", d, f)
         IN  new \in Database /\ Referred(new) /\ OrdersOnce(new) /\ ItemsOnce(new)
<1> DEFINE new == Effect("fact_event", d, f)
           facts == {[event |-> e, run |-> run] : e \in d.events}
<1>1. new = [d EXCEPT !.fact_event = @ \cup facts]
  BY DEF Effect
<1>2. facts \subseteq [event : Events, run : Nat]
  BY DEF Database
<1> HIDE DEF facts
<1>3. /\ new \in Database /\ new.fact_order_item = d.fact_order_item
      /\ new.fact_order = d.fact_order /\ new.customers = d.customers
      /\ new.dim_customer = d.dim_customer /\ new.dim_product = d.dim_product
      /\ new.known = d.known /\ new.orders = d.orders /\ new.prices = d.prices
      /\ new.items = d.items
  BY <1>1, <1>2 DEF Database
<1> HIDE DEF new
<1>4. /\ JoinedOrders(new) = JoinedOrders(d) /\ JoinedItems(new) = JoinedItems(d)
      /\ Priced(new) = Priced(d)
  BY <1>3 DEF JoinedOrders, CustomerKey, JoinedItems, ProductKey, Priced
<1>5. Referred(new)
  BY <1>3 DEF Referred
<1>6. OrdersOnce(new) /\ ItemsOnce(new)
  BY <1>3, <1>4 DEF OrdersOnce, ItemsOnce
<1>. QED
  BY <1>3, <1>5, <1>6 DEF new

\* A stage that is done brings about what the next one needs.
LEMMA StageBrings ==
  ASSUME NEW n \in 0 .. 9, NEW d \in Database, Referred(d), Staged(n, d),
         NEW f \in Datasets, run \in Nat
  PROVE  LET new == Effect(Script[n + 1], d, f)
         IN  new \in Database /\ Referred(new) /\ Staged(n + 1, new)
<1> DEFINE new == Effect(Script[n + 1], d, f)
<1>1. CASE n <= 4
  <2>1. Script[n + 1] \in {"customers", "products", "orders", "order_items", "events"}
    BY <1>1, ScriptIs
  <2>2. new \in Database /\ Referred(new)
    BY <2>1, StagingStage, WarehouseAssumption
  <2>. QED
    BY <1>1, <2>2 DEF Staged
<1>2. CASE n = 5
  BY <1>2, ScriptIs, CustomersStage DEF Staged
<1>3. CASE n = 6
  BY <1>3, ScriptIs, ProductsStage DEF Staged
<1>4. CASE n = 7
  BY <1>4, ScriptIs, OrdersStage DEF Staged
<1>5. CASE n = 8
  BY <1>5, ScriptIs, ItemsStage DEF Staged
<1>6. CASE n = 9
  BY <1>6, ScriptIs, EventsStage DEF Staged
<1>. QED
  BY <1>1, <1>2, <1>3, <1>4, <1>5, <1>6

\* What a stage loads before it fails is of a data set as well.
LEMMA PartsAreDatasets ==
  ASSUME NEW f \in Dataset, NEW s
  PROVE  Parts(s, f) \subseteq Dataset
<1>1. /\ f = [customers |-> f.customers, prices |-> f.prices, orders |-> f.orders,
              items |-> f.items, events |-> f.events]
      /\ f.customers \subseteq Customers /\ f.prices \in [Products -> Prices]
      /\ f.items \subseteq Orders \X Products /\ f.events \subseteq Events
  BY DEF Dataset, Prices
<1>2. PICK os \in SUBSET Orders : f.orders \in [os -> Customers \cup {NoOne}]
  BY DEF Dataset
<1>3. CASE s = "customers"
  BY <1>3 DEF Parts, Dataset
<1>4. CASE s = "products"
  <2>1. ASSUME NEW x \in SUBSET Products
        PROVE  [p \in Products |-> IF p \in x THEN f.prices[p] ELSE "none"]
                 \in [Products -> {"none", "negative", "positive"}]
    BY <1>1 DEF Prices
  <2>. QED
    BY <1>4, <2>1 DEF Parts, Dataset
<1>5. CASE s = "orders"
  <2>1. ASSUME NEW x \in SUBSET DOMAIN f.orders
        PROVE  /\ x \in SUBSET Orders
               /\ [o \in x |-> f.orders[o]] \in [x -> Customers \cup {NoOne}]
    BY <1>2
  <2>. QED
    BY <1>5, <2>1 DEF Parts, Dataset
<1>6. CASE s = "order_items"
  BY <1>6 DEF Parts, Dataset
<1>7. CASE s \notin {"customers", "products", "orders", "order_items"}
  BY <1>7 DEF Parts, Dataset
<1>. QED
  BY <1>3, <1>4, <1>5, <1>6, <1>7

LEMMA HousedStep == InPlace /\ Housed /\ [Next]_vars => Housed'
<1> SUFFICES ASSUME InPlace, Housed, [Next]_vars, job' = "warehouse" PROVE Housed'
  BY DEF Housed
<1>0. job = "warehouse" /\ run \in Nat
  BY JobStays DEF InPlace, Reading
<1>1. /\ db \in Database /\ Referred(db) /\ stage \in 0 .. 10
      /\ pc = "load" => /\ data \in Datasets /\ missing \in Absences
                        /\ verdict.status = "raised" /\ Staged(stage, db)
      /\ verdict.status = "success" => OrdersOnce(db) /\ ItemsOnce(db)
      /\ verdict = Verdict(verdict.status, verdict.rows)
  BY <1>0 DEF Housed, InPlace
<1>2. Unknown.status = "raised" /\ \A s, n : Verdict(s, n).status = s
  BY DEF Unknown, Verdict
<1>3. CASE Shared
  <2>1. UNCHANGED <<db, stage, data, missing>>
    BY <1>3 DEF Shared, warehouseVars
  <2>2. pc' \in {pc, "idle"} /\ verdict'.status \in {verdict.status, "failed", "raised"}
        /\ (verdict' = verdict \/ pc' = "idle" \/ pc' = "write" )
    BY <1>0, <1>1, <1>2, <1>3
    DEF Shared, JobsNext, WriteFile, WriteFails, WriteManifest, ManifestFails, Die,
        RaisesIntoRunner, NotesError, GoesToManifest, RaisesToCaller, EndWith, Pipelines,
        Verdict
  <2>. QED
    BY <1>1, <2>1, <2>2 DEF Housed
<1>4. CASE RunWarehouse
  <2>1. Staged(0, db)
    BY DEF Staged
  <2>. QED
    BY <1>1, <1>2, <1>4, <2>1 DEF Housed, RunWarehouse
<1>5. CASE StageDone
  <2>1. /\ pc = "load" /\ stage \in 0 .. 9 /\ stage' = stage + 1
        /\ pc' = pc /\ verdict' = verdict /\ data' = data /\ missing' = missing
        /\ db' = IF Script[stage + 1] \in missing THEN db
                 ELSE Effect(Script[stage + 1], db, data)
    BY <1>1, <1>5, ScriptIs DEF StageDone, Loading, Now, jobVars
  <2>2. CASE Script[stage + 1] \notin missing
    <3>1. db' \in Database /\ Referred(db') /\ Staged(stage + 1, db')
      BY <1>0, <1>1, <2>1, <2>2, StageBrings
    <3>. QED
      BY <1>1, <2>1, <3>1 DEF Housed
  <2>3. CASE Script[stage + 1] \in missing
    <3>1. Script[stage + 1] \in {"customers", "products", "orders", "order_items", "events"}
      BY <1>1, <2>1, <2>3, WarehouseAssumption
    <3>2. stage + 1 <= 5
      BY <2>1, <3>1, ScriptIs
    <3>3. Staged(stage + 1, db)
      BY <2>1, <3>2 DEF Staged
    <3>. QED
      BY <1>1, <2>1, <2>3, <3>3 DEF Housed
  <2>. QED
    BY <2>2, <2>3
<1>6. CASE StageFails
  <2>1. /\ pc = "load" /\ stage \in 0 .. 9 /\ stage' = stage
        /\ pc' \in {"write", "idle"} /\ verdict'.status \in {"failed", "raised"}
    BY <1>1, <1>2, <1>6, ScriptIs DEF StageFails, Loading, EndWith
  <2>2. db' = db \/ \E f \in Parts(Script[stage + 1], data) :
                      stage < 5 /\ db' = Effect(Script[stage + 1], db, f)
    BY <1>6 DEF StageFails, Now, Staging
  <2>3. ASSUME stage < 5, NEW f \in Parts(Script[stage + 1], data)
        PROVE  LET new == Effect(Script[stage + 1], db, f)
               IN  new \in Database /\ Referred(new)
    <3>1. Script[stage + 1] \in {"customers", "products", "orders", "order_items", "events"}
      BY <2>1, <2>3, ScriptIs
    <3>2. f \in Dataset
      BY <1>1, <2>1, PartsAreDatasets, WarehouseAssumption
    <3>. QED
      BY <1>1, <3>1, <3>2, StagingStage
  <2>4. db' \in Database /\ Referred(db')
    BY <1>1, <2>2, <2>3
  <2>. QED
    BY <1>1, <2>1, <2>4 DEF Housed
<1>7. CASE Query
  <2>1. /\ pc = "load" /\ stage = 10 /\ pc' = "write" /\ UNCHANGED <<db, stage>>
    BY <1>7, ScriptIs DEF Query, warehouseVars
  <2>2. OrdersOnce(db) /\ ItemsOnce(db)
    BY <1>1, <2>1 DEF Staged
  <2>. QED
    BY <1>1, <2>1, <2>2 DEF Housed
<1>8. CASE QueryFails
  <2>1. /\ pc' \in {"write", "idle"} /\ verdict'.status \in {"failed", "raised"}
        /\ UNCHANGED <<db, stage>>
    BY <1>2, <1>8 DEF QueryFails, EndWith, warehouseVars
  <2>. QED
    BY <1>1, <2>1 DEF Housed
<1>9. CASE UNCHANGED vars
  BY <1>0, <1>1, <1>9 DEF Housed, vars, jobVars, warehouseVars
<1>10. Next => Shared \/ WarehouseNext
  BY <1>0, StepsAreOwn DEF OwnStep, Pipelines
<1>. QED
  BY <1>3, <1>4, <1>5, <1>6, <1>7, <1>8, <1>9, <1>10 DEF WarehouseNext

\* run_warehouse_pipeline: after a run that succeeds, however many ran before
\* it and failed, every order of a known customer is joined to exactly one fact
\* through the dimensions, and so is every item of a product that has a price.
THEOREM WarehouseCountsOnce == Spec => []CountedOnce
<1>1. Init => Housed
  <2>1. ASSUME Init PROVE db \in Database /\ Referred(db)
    <3>1. db = EmptyDatabase
      BY <2>1 DEF Init, WarehouseInit
    <3>. QED
      BY <3>1 DEF EmptyDatabase, Database, Referred, Prices
  <2>. QED
    BY <2>1 DEF Init, JobsInit, WarehouseInit, Housed, Unknown, Verdict
<1>2. Housed => CountedOnce
  <2> SUFFICES ASSUME Housed, Told("success"), job = "warehouse"
               PROVE  /\ \A o \in db.known : db.orders[o] \in db.customers =>
                           Cardinality({r \in JoinedOrders(db) : r.order = o}) = 1
                      /\ \A i \in db.items : i[2] \in Priced(db) =>
                           Cardinality({r \in JoinedItems(db) : r.item = i}) = 1
    BY DEF CountedOnce
  <2>1. OrdersOnce(db) /\ ItemsOnce(db)
    BY DEF Housed, Told
  <2>2. \A r : Cardinality({r}) = 1
    BY FS_Singleton
  <2>. QED
    BY <2>1, <2>2 DEF OrdersOnce, ItemsOnce
<1>3. Housed /\ InPlace /\ [Next]_vars => Housed'
  BY HousedStep
<1>. QED
  BY <1>1, <1>2, <1>3, AlwaysInPlace, PTL DEF Spec
-----------------------------------------------------------------------------
\* A list of files on its way to the directory: each of fs is still to come,
\* or there, written by this run and to its end.
Writing(td, dk, rn, fs) ==
  /\ td \in Seq(fs)
  /\ \A f, g \in fs : f.file = g.file => f = g
  /\ \A f \in fs :
       \/ \E i \in 1 .. Len(td) : td[i] = f
       \/ /\ f.file \in DOMAIN dk
          /\ dk[f.file] = [run |-> rn, rows |-> f.rows, whole |-> TRUE]

Elements(s) == {s[i] : i \in 1 .. Len(s)}

LEMMA WritingStarts ==
  ASSUME NEW td, td \in Seq(Elements(td)), NEW dk, NEW rn,
         \A i, k \in 1 .. Len(td) : td[i].file = td[k].file => td[i] = td[k]
  PROVE  Writing(td, dk, rn, Elements(td))
BY DEF Writing, Elements

LEMMA HeadIsWritten ==
  ASSUME NEW td, NEW dk, NEW rn, NEW fs, Writing(td, dk, rn, fs), td # <<>>
  PROVE  Writing(Tail(td), Under(dk, Head(td).file,
                                 [run |-> rn, rows |-> Head(td).rows, whole |-> TRUE]), rn, fs)
<1> DEFINE h == Head(td)
           new == Under(dk, h.file, [run |-> rn, rows |-> h.rows, whole |-> TRUE])
<1>0. td \in Seq(fs)
  BY DEF Writing
<1>1. h \in fs /\ h = td[1] /\ Len(td) >= 1 /\ Tail(td) \in Seq(fs)
      /\ Len(Tail(td)) = Len(td) - 1 /\ \A i \in 1 .. Len(Tail(td)) : Tail(td)[i] = td[i + 1]
  BY <1>0
<1>2. /\ \A x : x \in DOMAIN new <=> x \in DOMAIN dk \/ x = h.file
      /\ new[h.file] = [run |-> rn, rows |-> h.rows, whole |-> TRUE]
      /\ \A x \in DOMAIN dk : x # h.file => new[x] = dk[x]
  BY DEF Under
<1> SUFFICES ASSUME NEW f \in fs
             PROVE  \/ \E i \in 1 .. Len(Tail(td)) : Tail(td)[i] = f
                    \/ /\ f.file \in DOMAIN new
                       /\ new[f.file] = [run |-> rn, rows |-> f.rows, whole |-> TRUE]
  BY <1>1 DEF Writing
<1> HIDE DEF new
<1>3. CASE f.file = h.file
  <2>1. f = h
    BY <1>1, <1>3 DEF Writing
  <2>. QED
    BY <1>2, <2>1
<1>4. CASE f.file # h.file /\ \E i \in 1 .. Len(td) : td[i] = f
  <2>1. PICK i \in 1 .. Len(td) : td[i] = f
    BY <1>4
  <2>2. i # 1
    BY <1>1, <1>4, <2>1
  <2>3. i - 1 \in 1 .. Len(Tail(td)) /\ Tail(td)[i - 1] = f
    BY <1>0, <1>1, <2>1, <2>2
  <2>. QED
    BY <2>3
<1>5. CASE f.file # h.file /\ ~\E i \in 1 .. Len(td) : td[i] = f
  <2>1. f.file \in DOMAIN dk /\ dk[f.file] = [run |-> rn, rows |-> f.rows, whole |-> TRUE]
    BY <1>5 DEF Writing
  <2>. QED
    BY <1>2, <1>5, <2>1
<1>. QED
  BY <1>3, <1>4, <1>5

\* What is written to the end is held.
LEMMA WritingEnds ==
  ASSUME NEW fs, Writing(<<>>, disk, run, fs), NEW f \in fs
  PROVE  Holds(f.file, f.rows)
<1>1. 1 .. Len(<<>>) = {}
  OBVIOUS
<1>2. f.file \in DOMAIN disk /\ disk[f.file] = [run |-> run, rows |-> f.rows, whole |-> TRUE]
  BY <1>1 DEF Writing
<1>. QED
  BY <1>2 DEF Holds, Written

\* What a run is to write, as far as it is known when it starts to write.
Plan ==
  CASE job = "stream" -> Elements(Output(Processed(lang, limit, lines)))
    [] job = "api" -> Elements(Files(got))
    [] job = "csv" ->
         {[file |-> "cleaned", rows |-> IF files = <<>> THEN <<>> ELSE Unique(AllRows(lang, files))]}
    [] job = "demo" -> Elements(DemoFiles)
    [] job = "customer" -> Elements(CustomerFiles)
    [] OTHER -> {}

LEMMA PlanStays ==
  ASSUME UNCHANGED <<job, lang, clock, lines, limit, got, files>>
  PROVE  Plan' = Plan
<1>1. Files(got)' = Files(got)
  BY DEF Files
<1>2. DemoFiles' = DemoFiles /\ CustomerFiles' = CustomerFiles
  BY DEF DemoFiles, CustomerFiles, DemoAccepted, DemoDead, DemoRejected, FirstOf, UniqueRows
<1>. QED
  BY <1>1, <1>2 DEF Plan

ManifestSays ==
  /\ clock \in DOMAIN manifests
  /\ manifests[clock] = [run |-> run, status |-> "success", rows |-> verdict.rows, whole |-> TRUE]

\* A step that all programs share and that leaves the verdict a success.
LEMMA SharedSucceeds ==
  ASSUME InPlace, Shared, verdict'.status = "success"
  PROVE  /\ verdict' = verdict
         /\ UNCHANGED <<job, lang, run, clock, lines, limit, at, attempt, results,
                        posts, page, got, changed, files>>
         /\ \/ WriteFile
            \/ WriteManifest
            \/ WriteFails /\ job \in Pipelines
<1>1. \/ verdict' = verdict /\ (WriteFile \/ WriteManifest \/ (WriteFails /\ job \in Pipelines))
      \/ verdict' \in {Unknown, [verdict EXCEPT !.status = "failed"]}
  BY DEF Shared, JobsNext, WriteFile, WriteFails, WriteManifest, ManifestFails, Die,
         RaisesIntoRunner, NotesError, GoesToManifest, RaisesToCaller, EndWith
<1>2. Unknown.status # "success" /\ [verdict EXCEPT !.status = "failed"].status # "success"
  BY DEF Unknown, Verdict, InPlace
<1>3. UNCHANGED <<job, lang, run, clock>>
  BY DEF Shared, JobsNext, WriteFile, WriteFails, WriteManifest, ManifestFails, Die
<1>. QED
  BY <1>1, <1>2, <1>3 DEF Shared, streamVars, runnerVars, apiVars, csvVars

LEMMA WriteFileWrites ==
  ASSUME WriteFile, NEW fs, Writing(todo, disk, run, fs)
  PROVE  Writing(todo', disk', run', fs)
BY HeadIsWritten DEF WriteFile, Put

LEMMA WriteManifestSays ==
  ASSUME WriteManifest, verdict.status = "success"
  PROVE  ManifestSays'
<1>1. ManifestStatus = "success"
  BY DEF ManifestStatus
<1>2. /\ verdict' = verdict /\ run' = run /\ clock' = clock
      /\ manifests' = Under(manifests, clock, [run |-> run, status |-> "success",
                                               rows |-> verdict.rows, whole |-> TRUE])
  BY <1>1 DEF WriteManifest, Manifest
<1>. QED
  BY <1>2 DEF ManifestSays, Under

\* The programs without steps: a run that goes on to succeed writes its plan,
\* and is idle after its manifest.
Finishing ==
  job \notin Pipelines /\ verdict.status = "success" =>
    /\ pc \in {"write", "idle"}
    /\ job # "warehouse" => Writing(todo, disk, run, Plan)
    /\ pc = "idle" => todo = <<>> /\ (job # "csv" => ManifestSays)

LEMMA FinishingShared ==
  ASSUME InPlace, Finishing, Shared
  PROVE  Finishing'
<1> SUFFICES ASSUME job' \notin Pipelines, verdict'.status = "success"
             PROVE  /\ pc' \in {"write", "idle"}
                    /\ job' # "warehouse" => Writing(todo', disk', run', Plan')
                    /\ pc' = "idle" => todo' = <<>> /\ (job' # "csv" => ManifestSays')
  BY DEF Finishing
<1>1. /\ verdict' = verdict
      /\ UNCHANGED <<job, lang, run, clock, lines, limit, got, files>>
      /\ WriteFile \/ WriteManifest
  BY SharedSucceeds
<1>2. Plan' = Plan
  BY <1>1, PlanStays
<1>3. /\ pc \in {"write", "idle"}
      /\ job # "warehouse" => Writing(todo, disk, run, Plan)
  BY <1>1 DEF Finishing
<1>4. CASE WriteFile
  <2>1. pc' = pc /\ pc = "write"
    BY <1>4 DEF WriteFile
  <2>2. job # "warehouse" => Writing(todo', disk', run', Plan)
    BY <1>3, <1>4, WriteFileWrites
  <2>. QED
    BY <1>1, <1>2, <2>1, <2>2
<1>5. CASE WriteManifest
  <2>1. pc' = "idle" /\ todo' = todo /\ disk' = disk /\ todo = <<>>
    BY <1>3, <1>5 DEF WriteManifest, AtManifest
  <2>2. ManifestSays'
    BY <1>1, <1>5, WriteManifestSays
  <2>. QED
    BY <1>1, <1>2, <1>3, <2>1, <2>2
<1>. QED
  BY <1>1, <1>4, <1>5

-----------------------------------------------------------------------------
\* What a stream writes accounts for every line.
Streamed ==
  job = "stream" /\ verdict.status = "success" =>
    /\ lines \in Inputs /\ limit \in Limits
    /\ ~Processed(lang, limit, lines).raised
    /\ verdict.rows = Cardinality(Processed(lang, limit, lines).accepted)

LEMMA OutputIsWritten ==
  ASSUME NEW r, NEW dk, NEW rn
  PROVE  /\ Writing(Output(r), dk, rn, Elements(Output(r)))
         /\ {[file |-> "accepted", rows |-> r.accepted],
             [file |-> "dead_letter", rows |-> r.dead],
             [file |-> "summary", rows |-> r.accepted]} \subseteq Elements(Output(r))
<1> DEFINE o == Output(r)
<1>1. /\ Len(o) = 4 /\ o \in Seq({o[1], o[2], o[3], o[4]})
      /\ o[1] = [file |-> "accepted", rows |-> r.accepted]
      /\ o[2] = [file |-> "dead_letter", rows |-> r.dead]
      /\ o[3] = [file |-> "late_events", rows |-> r.late]
      /\ o[4] = [file |-> "summary", rows |-> r.accepted]
  BY DEF Output
<1> HIDE DEF o
<1>2. 1 .. Len(o) = {1, 2, 3, 4}
  BY <1>1
<1>3. Elements(o) = {o[1], o[2], o[3], o[4]}
  BY <1>2 DEF Elements
<1>4. \A i, k \in 1 .. Len(o) : o[i].file = o[k].file => o[i] = o[k]
  BY <1>1, <1>2
<1>5. Writing(o, dk, rn, Elements(o))
  BY <1>1, <1>3, <1>4, WritingStarts
<1>. QED
  BY <1>1, <1>3, <1>5 DEF o

LEMMA StreamStep ==
  ASSUME InPlace, InPlace', Finishing, Streamed, job = "stream", [Next]_vars
  PROVE  Finishing' /\ Streamed'
<1>0. Next => Shared \/ StreamNext
  BY StepsAreOwn DEF OwnStep, Pipelines
<1>1. CASE Shared
  <2>1. Finishing'
    BY <1>1, FinishingShared
  <2>2. Streamed'
    BY <1>1, SharedSucceeds DEF Streamed
  <2>. QED
    BY <2>1, <2>2
<1>2. CASE StreamRaises \/ StreamFails
  BY <1>2 DEF StreamRaises, StreamFails, EndWith, Unknown, Verdict, Finishing, Streamed
<1>3. CASE StreamReads
  <2> DEFINE r == Processed(lang', limit', lines')
  <2>1. /\ lang' = lang /\ job' = "stream" /\ lines' \in Inputs /\ limit' \in Limits
        /\ ~r.raised /\ todo' = Output(r) /\ verdict' = Verdict("success", Cardinality(r.accepted))
        /\ pc' = "write"
    BY <1>3 DEF StreamReads
  <2>2. Streamed'
    BY <2>1 DEF Streamed, Verdict
  <2>3. Plan' = Elements(Output(r))
    BY <2>1 DEF Plan
  <2>4. Writing(todo', disk', run', Plan')
    BY <2>1, <2>3, OutputIsWritten
  <2>. QED
    BY <2>1, <2>2, <2>4 DEF Finishing
<1>4. CASE UNCHANGED vars
  <2>1. Plan' = Plan
    BY <1>4, PlanStays DEF vars, jobVars, streamVars, apiVars, csvVars
  <2>. QED
    BY <1>4, <2>1 DEF vars, jobVars, streamVars, Finishing, Streamed, ManifestSays
<1>. QED
  BY <1>0, <1>1, <1>2, <1>3, <1>4 DEF StreamNext

LEMMA StreamIsWhole ==
  ASSUME InPlace, Finishing, Streamed, Told("success"), job = "stream"
  PROVE  StreamWhole /\ ManifestSays
<1> DEFINE r == Processed(lang, limit, lines)
           n == Len(lines)
<1>1. /\ pc = "idle" /\ verdict.status = "success" /\ lines \in Inputs /\ limit \in Limits
      /\ ~r.raised /\ verdict.rows = Cardinality(r.accepted)
  BY DEF Told, Streamed
<1>2. Writing(<<>>, disk, run, Plan) /\ ManifestSays
  BY <1>1 DEF Finishing, Pipelines
<1>3. Plan = Elements(Output(r))
  BY DEF Plan
<1>4. /\ Holds("accepted", r.accepted) /\ Holds("dead_letter", r.dead)
      /\ Holds("summary", r.accepted)
  <2>1. \A f \in Plan : Holds(f.file, f.rows)
    BY <1>2, WritingEnds
  <2> HIDE DEF r
  <2>2. {[file |-> "accepted", rows |-> r.accepted], [file |-> "dead_letter", rows |-> r.dead],
         [file |-> "summary", rows |-> r.accepted]} \subseteq Plan
    BY <1>3, OutputIsWritten
  <2>3. \A x, y : [file |-> x, rows |-> y] \in Plan => Holds(x, y)
    BY <2>1
  <2>. QED
    BY <2>2, <2>3
<1>5. r.accepted \cap r.dead = {} /\ r.accepted \cup r.dead = DOMAIN lines
  <2>1. IsSequence(lines) /\ (\A i \in DOMAIN lines : lines[i].at \in Nat) /\ limit \in Int
    BY <1>1, StreamAssumption
  <2>2. DOMAIN lines = 1 .. n
    BY <2>1 DEF IsSequence
  <2>3. Judgement(lang, limit, lines, n, r)
    BY <2>1, ProcessedJudgement
  <2>4. Firsts(lines, n) \subseteq 1 .. n
    BY DEF Firsts, Valids
  <2> HIDE DEF r, n
  <2>. QED
    BY <1>1, <2>2, <2>3, <2>4 DEF Judgement
<1> HIDE DEF r
<1>. QED
  BY <1>1, <1>2, <1>4, <1>5 DEF StreamWhole, Holds
-----------------------------------------------------------------------------
\* While the API does not change, what was fetched is its first pages.
Fetched ==
  job = "api" =>
    /\ posts \in Seq(Post) /\ page \in Nat /\ changed \in Nat
    /\ pc = "fetch" => /\ page < MaxPages /\ verdict.status = "raised"
                       /\ changed = 0 => /\ page * PageSize <= Len(posts)
                                         /\ got = SubSeq(posts, 1, page * PageSize)
    /\ verdict.status = "success" /\ changed = 0 => got = SubSeq(posts, 1, Reach)

LEMMA FilesAreWritten ==
  ASSUME NEW ps, NEW dk, NEW rn
  PROVE  /\ Writing(Files(ps), dk, rn, Elements(Files(ps)))
         /\ {[file |-> <<"raw", clock>>, rows |-> ps],
             [file |-> <<"processed", clock>>, rows |-> Transformed(lang, ps)]}
              \subseteq Elements(Files(ps))
<1> DEFINE o == Files(ps)
<1>1. /\ Len(o) = 2 /\ o \in Seq({o[1], o[2]})
      /\ o[1] = [file |-> <<"raw", clock>>, rows |-> ps]
      /\ o[2] = [file |-> <<"processed", clock>>, rows |-> Transformed(lang, ps)]
  BY DEF Files
<1> HIDE DEF o
<1>2. 1 .. Len(o) = {1, 2}
  BY <1>1
<1>3. Elements(o) = {o[1], o[2]}
  BY <1>2 DEF Elements
<1>4. <<"raw", clock>> # <<"processed", clock>>
  OBVIOUS
<1>5. \A i, k \in 1 .. Len(o) : o[i].file = o[k].file => o[i] = o[k]
  BY <1>1, <1>2, <1>4
<1>6. Writing(o, dk, rn, Elements(o))
  BY <1>1, <1>3, <1>5, WritingStarts
<1>. QED
  BY <1>1, <1>3, <1>6 DEF o

\* One more page is read after the first of them.
LEMMA PageFollows ==
  ASSUME NEW ps \in Seq(Post), NEW p \in Nat, p * PageSize <= Len(ps), p < MaxPages
  PROVE  LET b == IF Len(ps) < (p + 1) * PageSize THEN Len(ps) ELSE (p + 1) * PageSize
             read == SubSeq(ps, p * PageSize + 1, b)
         IN  /\ SubSeq(ps, 1, p * PageSize) \o read = SubSeq(ps, 1, b)
             /\ ~(Len(read) < PageSize \/ p + 1 = MaxPages) =>
                  p + 1 < MaxPages /\ (p + 1) * PageSize <= Len(ps) /\ b = (p + 1) * PageSize
             /\ Len(read) < PageSize \/ p + 1 = MaxPages =>
                  b = IF Len(ps) < PageSize * MaxPages THEN Len(ps) ELSE PageSize * MaxPages
<1> DEFINE a == p * PageSize
           c == (p + 1) * PageSize
           b == IF Len(ps) < c THEN Len(ps) ELSE c
           top == PageSize * MaxPages
           read == SubSeq(ps, a + 1, b)
<1>1. PageSize \in Nat /\ PageSize > 0 /\ MaxPages \in Nat /\ MaxPages > 0
  BY ApiAssumption
<1>2. c = a + PageSize /\ a \in Nat /\ c \in Nat
  BY <1>1
<1>3. c <= top /\ top \in Nat /\ (p + 1 = MaxPages => c = top)
  <2>1. PICK k \in Nat : MaxPages = (p + 1) + k
    <3>1. MaxPages - (p + 1) \in Nat
      BY <1>1
    <3>. QED
      BY <1>1, <3>1
  <2>2. top = c + PageSize * k
    BY <1>1, <2>1
  <2>3. PageSize * k \in Nat
    BY <1>1
  <2>. QED
    BY <1>1, <1>2, <2>2, <2>3
<1> HIDE DEF a, c, top
<1>4. Len(ps) \in Nat /\ b \in Nat /\ a <= b /\ b <= Len(ps)
  BY <1>1, <1>2 DEF a
<1>5. SubSeq(ps, 1, a) \o read = SubSeq(ps, 1, b)
  BY <1>2, <1>4, ConcatAdjacentSubSeq
<1>6. Len(read) = b - a
  BY <1>2, <1>4, SubSeqProperties
<1>7. Len(read) < PageSize <=> Len(ps) < c
  BY <1>1, <1>2, <1>4, <1>6
<1>8. ~(Len(read) < PageSize \/ p + 1 = MaxPages) =>
        p + 1 < MaxPages /\ c <= Len(ps) /\ b = c
  BY <1>1, <1>2, <1>4, <1>7
<1>9. Len(read) < PageSize \/ p + 1 = MaxPages => b = IF Len(ps) < top THEN Len(ps) ELSE top
  BY <1>1, <1>2, <1>3, <1>4, <1>7
<1>. QED
  BY <1>5, <1>8, <1>9 DEF a, c, top

LEMMA ApiStep ==
  ASSUME InPlace, InPlace', Finishing, Fetched, job = "api", [Next]_vars
  PROVE  Finishing' /\ Fetched'
<1>0. Next => Shared \/ ApiNext
  BY StepsAreOwn DEF OwnStep, Pipelines
<1>i. /\ posts \in Seq(Post) /\ page \in Nat /\ changed \in Nat
      /\ pc = "fetch" => /\ page < MaxPages /\ verdict.status = "raised"
                         /\ changed = 0 => /\ page * PageSize <= Len(posts)
                                           /\ got = SubSeq(posts, 1, page * PageSize)
      /\ verdict.status = "success" /\ changed = 0 => got = SubSeq(posts, 1, Reach)
      /\ verdict.status = "success" => pc # "fetch"
  BY DEF Fetched, Finishing, Pipelines
<1>v. Unknown.status = "raised" /\ \A s, n : Verdict(s, n).status = s
  BY DEF Unknown, Verdict
<1>1. CASE Shared
  <2>1. Finishing'
    BY <1>1, FinishingShared
  <2>2. UNCHANGED <<posts, page, got, changed>>
    BY <1>1 DEF Shared, apiVars
  <2>3. Reach' = Reach
    BY <2>2 DEF Reach
  <2>4. pc' # "fetch"
    BY <1>1 DEF Shared, JobsNext, WriteFile, WriteFails, WriteManifest, ManifestFails, Die,
           RaisesIntoRunner, NotesError, GoesToManifest, RaisesToCaller, EndWith, AtManifest
  <2>5. verdict'.status = "success" => verdict'.status = verdict.status
    BY <1>1, SharedSucceeds
  <2>. QED
    BY <1>i, <2>1, <2>2, <2>3, <2>4, <2>5 DEF Fetched
<1>2. CASE RunApi
  <2>1. /\ page' = 0 /\ got' = <<>> /\ changed' = 0 /\ pc' = "fetch" /\ posts' = posts
        /\ verdict'.status = "raised"
    BY <1>2, <1>v DEF RunApi
  <2>2. 0 < MaxPages /\ 0 * PageSize = 0
    BY ApiAssumption
  <2>3. SubSeq(posts, 1, 0) = <<>>
    BY <1>i, SubSeqEmpty
  <2>. QED
    BY <1>i, <2>1, <2>2, <2>3 DEF Fetched, Finishing
<1>3. CASE FetchPage
  <2> DEFINE b == IF Len(posts) < (page + 1) * PageSize THEN Len(posts) ELSE (page + 1) * PageSize
             read == SubSeq(posts, page * PageSize + 1, b)
             last == Len(read) < PageSize \/ page + 1 = MaxPages
  <2>1. /\ Paged(posts) = read /\ (LastPage(Paged(posts)) <=> last)
    BY DEF Paged, LastPage
  <2>2. /\ pc = "fetch" /\ got' = got \o read /\ page' = page + 1
        /\ UNCHANGED <<job, lang, clock, posts, changed>>
        /\ ~last => pc' = pc /\ verdict' = verdict
        /\ last => pc' = "write" /\ todo' = Files(got') /\ verdict'.status = "success"
    BY <1>3, <1>v, <2>1 DEF FetchPage
  <2>3. changed = 0 => /\ got' = SubSeq(posts, 1, b)
                       /\ ~last => /\ page + 1 < MaxPages /\ (page + 1) * PageSize <= Len(posts)
                                   /\ b = (page + 1) * PageSize
                       /\ last => b = Reach
    BY <1>i, <2>2, PageFollows DEF Reach
  <2>4. ~last => page + 1 < MaxPages
    <3>1. page < MaxPages /\ MaxPages \in Nat
      BY <1>i, <2>2, ApiAssumption
    <3>. QED
      BY <1>i, <3>1
  <2>5. Reach' = Reach
    BY <2>2 DEF Reach
  <2> HIDE DEF last, b, read
  <2>6. CASE ~last
    <3>1. page' * PageSize = (page + 1) * PageSize /\ page' \in Nat
      BY <1>i, <2>2
    <3> DEFINE upto == (page + 1) * PageSize
    <3>2. changed = 0 => upto <= Len(posts) /\ got' = SubSeq(posts, 1, upto)
      BY <2>3, <2>6
    <3>3. verdict'.status = "raised" /\ pc' = pc /\ page' < MaxPages
      BY <1>i, <2>2, <2>4, <2>6
    <3>4. changed' = 0 => /\ page' * PageSize <= Len(posts')
                          /\ got' = SubSeq(posts', 1, page' * PageSize)
      BY <2>2, <3>1, <3>2
    <3> HIDE DEF upto
    <3>. QED
      BY <1>i, <2>2, <3>1, <3>3, <3>4 DEF Fetched, Finishing
  <2>7. CASE last
    <3>1. Fetched'
      <4>1. changed' = 0 => got' = SubSeq(posts', 1, Reach')
        BY <2>2, <2>3, <2>5, <2>7
      <4>2. pc' = "write" /\ posts' \in Seq(Post) /\ page' \in Nat /\ changed' \in Nat
        BY <1>i, <2>2, <2>7
      <4>. QED
        BY <4>1, <4>2 DEF Fetched
    <3>2. Plan' = Elements(Files(got)') /\ Files(got)' = Files(got')
      BY <2>2 DEF Plan, Files
    <3>3. Writing(todo', disk', run', Plan')
      BY <2>2, <2>7, <3>2, FilesAreWritten
    <3>. QED
      BY <2>2, <2>7, <3>1, <3>3 DEF Finishing
  <2>. QED
    BY <2>6, <2>7
<1>4. CASE FetchAgain
  BY <1>i, <1>4 DEF FetchAgain, Fetched, Finishing
<1>5. CASE FetchFails
  <2>1. /\ verdict'.status = "failed" /\ pc' # "fetch" /\ page' = 0
        /\ UNCHANGED <<posts, changed>>
    BY <1>5, <1>v DEF FetchFails, EndWith
  <2>. QED
    BY <1>i, <2>1 DEF Fetched, Finishing
<1>6. CASE ApiChanges
  <2>1. /\ pc = "fetch" /\ pc' = pc /\ verdict' = verdict /\ page' = page
        /\ changed' = changed + 1 /\ posts' \in Changes
    BY <1>6 DEF ApiChanges, jobVars
  <2>2. posts' \in Seq(Post)
    <3>1. Newcomers \subseteq Post
      BY ApiAssumption
    <3>2. \A p \in Newcomers : <<p>> \o posts \in Seq(Post)
      BY <1>i, <3>1
    <3>3. posts # <<>> => Tail(posts) \in Seq(Post)
      BY <1>i
    <3>. QED
      BY <2>1, <3>2, <3>3 DEF Changes
  <2>3. changed' \in Nat /\ changed' # 0
    BY <1>i, <2>1
  <2>. QED
    BY <1>i, <2>1, <2>2, <2>3 DEF Fetched, Finishing
<1>7. CASE TransformRaises
  <2>1. /\ verdict'.status = "raised" /\ pc' # "fetch" /\ page' = page + 1
        /\ UNCHANGED <<posts, changed>>
    BY <1>7, <1>v DEF TransformRaises, EndWith
  <2>. QED
    BY <1>i, <2>1 DEF Fetched, Finishing
<1>8. CASE UNCHANGED vars
  <2>1. Plan' = Plan /\ Reach' = Reach
    BY <1>8, PlanStays DEF vars, jobVars, streamVars, apiVars, csvVars, Reach
  <2>. QED
    BY <1>8, <2>1 DEF vars, jobVars, apiVars, Finishing, Fetched, ManifestSays
<1>. QED
  BY <1>0, <1>1, <1>2, <1>3, <1>4, <1>5, <1>6, <1>7, <1>8 DEF ApiNext

LEMMA ApiIsWhole ==
  ASSUME InPlace, Finishing, Fetched, Told("success"), job = "api"
  PROVE  ApiWhole /\ ManifestSays
<1>1. Writing(<<>>, disk, run, Plan) /\ ManifestSays
  BY DEF Finishing, Pipelines, Told
<1>2. Plan = Elements(Files(got))
  BY DEF Plan
<1>3. \A x, y : [file |-> x, rows |-> y] \in Plan => Holds(x, y)
  <2>1. \A f \in Plan : Holds(f.file, f.rows)
    BY <1>1, WritingEnds
  <2>. QED
    BY <2>1
<1>4. Holds(<<"raw", clock>>, got) /\ Holds(<<"processed", clock>>, Transformed(lang, got))
  BY <1>2, <1>3, FilesAreWritten
<1>5. changed = 0 => got = SubSeq(posts, 1, Reach)
  BY DEF Fetched, Told
<1>. QED
  BY <1>1, <1>4, <1>5 DEF ApiWhole, Holds

-----------------------------------------------------------------------------
\* The files of a directory, one behind the other, have the rows of each.
LEMMA Flattened ==
  ASSUME NEW S, NEW seqs \in Seq(Seq(S))
  PROVE  FlattenSeq(seqs) \in Seq(S)
<1> DEFINE n == Len(seqs)
           step == [x \in Seq(S) \X (1 .. n) |-> x[1] \o seqs[x[2]]]
           Is(f) == f = [i \in 1 .. n |-> IF i = 1 THEN seqs[i] ELSE f[i - 1] \o seqs[i]]
<1>0. n \in Nat /\ (\A k \in 1 .. n : seqs[k] \in Seq(S)) /\ <<>> \in Seq(S)
  OBVIOUS
<1>1. CASE n = 0
  <2>1. FlattenSeq(seqs) = seqs /\ seqs = <<>>
    BY <1>1 DEF FlattenSeq
  <2>. QED
    BY <1>0, <2>1
<1>2. CASE n # 0
  <2>1. PICK h : Runs(h, n, <<>>, step) /\ \A k \in 0 .. n : h[k] \in Seq(S)
    <3>1. \A x \in Seq(S) : \A k \in 1 .. n : step[<<x, k>>] \in Seq(S)
      BY <1>0
    <3> HIDE DEF step, n
    <3>. QED
      BY <1>0, <3>1, LoopStays
  <2>2. \A k \in 1 .. n : h[k] = h[k - 1] \o seqs[k] /\ h[k - 1] \in Seq(S)
    <3> SUFFICES ASSUME NEW k \in 1 .. n PROVE h[k] = h[k - 1] \o seqs[k] /\ h[k - 1] \in Seq(S)
      OBVIOUS
    <3>1. k - 1 \in 0 .. n
      BY <1>0
    <3>2. h[k] = step[<<h[k - 1], k>>]
      <4> HIDE DEF step, n
      <4>. QED
        BY <2>1 DEF Runs
    <3>3. h[k - 1] \in Seq(S)
      BY <2>1, <3>1
    <3>. QED
      BY <3>2, <3>3
  <2>3. h[0] = <<>>
    BY <2>1 DEF Runs
  <2> DEFINE g == [i \in 1 .. n |-> h[i]]
  <2>4. Is(g)
    <3>1. ASSUME NEW i \in 1 .. n
          PROVE  g[i] = IF i = 1 THEN seqs[i] ELSE g[i - 1] \o seqs[i]
      <4>1. CASE i = 1
        <5>0. 1 \in 1 .. n /\ 1 - 1 = 0
          BY <4>1
        <5>1. h[1] = <<>> \o seqs[1]
          BY <2>2, <2>3, <5>0
        <5>2. <<>> \o seqs[1] = seqs[1]
          BY <1>0, <4>1
        <5>. QED
          BY <4>1, <5>1, <5>2
      <4>2. CASE i # 1
        <5>1. i - 1 \in 1 .. n
          BY <1>0, <4>2
        <5>. QED
          BY <2>2, <4>2, <5>1
      <4>. QED
        BY <4>1, <4>2
    <3> DEFINE f == [i \in 1 .. n |-> IF i = 1 THEN seqs[i] ELSE g[i - 1] \o seqs[i]]
    <3>2. g = [i \in 1 .. n |-> g[i]] /\ f = [i \in 1 .. n |-> f[i]]
          /\ \A i \in 1 .. n : f[i] = IF i = 1 THEN seqs[i] ELSE g[i - 1] \o seqs[i]
      OBVIOUS
    <3> HIDE DEF g, f
    <3>3. g = f
      BY <3>1, <3>2
    <3>. QED
      BY <3>3 DEF f
  <2> DEFINE flatten == CHOOSE f : Is(f)
  <2>5. Is(flatten)
    <3> HIDE DEF Is, g
    <3>. QED
      BY <2>4
  <2>6. FlattenSeq(seqs) = flatten[n]
    BY <1>2 DEF FlattenSeq
  <2> HIDE DEF flatten
  <2> DEFINE f == [i \in 1 .. n |-> IF i = 1 THEN seqs[i] ELSE flatten[i - 1] \o seqs[i]]
  <2>7. \A i \in 1 .. n : flatten[i] = IF i = 1 THEN seqs[i] ELSE flatten[i - 1] \o seqs[i]
    <3>1. flatten = f
      BY <2>5
    <3>2. \A i \in 1 .. n : f[i] = IF i = 1 THEN seqs[i] ELSE flatten[i - 1] \o seqs[i]
      OBVIOUS
    <3> HIDE DEF f
    <3>. QED
      BY <3>1, <3>2
  <2> DEFINE Good == {k \in 0 .. n : k = 0 \/ flatten[k] \in Seq(S)}
  <2>8. ASSUME NEW k \in 0 .. n, k < n, k \in Good PROVE k + 1 \in Good
    <3>1. k + 1 \in 1 .. n /\ (k + 1) - 1 = k /\ k + 1 \in 0 .. n
      BY <1>0, <2>8
    <3>2. flatten[k + 1] = IF k = 0 THEN seqs[k + 1] ELSE flatten[k] \o seqs[k + 1]
      BY <2>7, <3>1
    <3>3. flatten[k + 1] \in Seq(S)
      BY <1>0, <2>8, <3>1, <3>2
    <3>. QED
      BY <3>1, <3>3
  <2>9. n \in Good
    <3>1. 0 \in Good
      BY <1>0
    <3> HIDE DEF Good
    <3>2. 0 .. n \subseteq Good
      BY <1>0, <2>8, <3>1, Upward
    <3>. QED
      BY <1>0, <3>2
  <2>. QED
    BY <1>2, <2>6, <2>9
<1>. QED
  BY <1>1, <1>2

\* Sequences of rows of S without two of one text.
Different(S) ==
  {u \in Seq(S) : \A i, k \in 1 .. Len(u) : i # k => Texts(u[i]) # Texts(u[k])}

LEMMA WithKeeps ==
  ASSUME NEW S, NEW kept \in Different(S), NEW row \in S
  PROVE  With(kept, row) \in Different(S)
<1> DEFINE n == Len(kept)
           new == Append(kept, row)
<1>0. kept \in Seq(S) /\ n \in Nat /\ DOMAIN kept = 1 .. n
      /\ \A i, k \in 1 .. n : i # k => Texts(kept[i]) # Texts(kept[k])
  BY DEF Different
<1>1. CASE \E i \in DOMAIN kept : Texts(kept[i]) = Texts(row)
  BY <1>1 DEF With
<1>2. CASE ~\E i \in DOMAIN kept : Texts(kept[i]) = Texts(row)
  <2>1. /\ new \in Seq(S) /\ Len(new) = n + 1 /\ new[n + 1] = row
        /\ \A i \in 1 .. n : new[i] = kept[i]
    BY <1>0
  <2> HIDE DEF new
  <2>2. \A i \in 1 .. n : Texts(new[i]) # Texts(row)
    BY <1>0, <1>2, <2>1
  <2>3. \A i, k \in 1 .. n : i # k => Texts(new[i]) # Texts(new[k])
    BY <1>0, <2>1
  <2> HIDE DEF n
  <2>4. 1 .. n + 1 = (1 .. n) \cup {n + 1}
    BY <1>0
  <2>5. \A i, k \in 1 .. n + 1 : i # k => Texts(new[i]) # Texts(new[k])
    BY <2>1, <2>2, <2>3, <2>4
  <2>6. new \in Different(S)
    BY <2>1, <2>5 DEF Different
  <2>. QED
    BY <1>2, <2>6 DEF With, new
<1>. QED
  BY <1>1, <1>2

\* deduplicate keeps rows of its own and none twice.
LEMMA UniqueIsDifferent ==
  ASSUME NEW S, NEW rows \in Seq(S)
  PROVE  Unique(rows) \in Different(S)
<1> DEFINE n == Len(rows)
           step == [x \in Different(S) \X (1 .. n) |-> With(x[1], rows[x[2]])]
           Is(f) == f = [m \in 0 .. n |-> IF m = 0 THEN <<>> ELSE With(f[m - 1], rows[m])]
<1>0. n \in Nat /\ (\A k \in 1 .. n : rows[k] \in S)
  OBVIOUS
<1>1. <<>> \in Different(S)
  BY DEF Different
<1>2. PICK h : Runs(h, n, <<>>, step) /\ \A k \in 0 .. n : h[k] \in Different(S)
  <2>1. \A x \in Different(S) : \A k \in 1 .. n : step[<<x, k>>] \in Different(S)
    BY <1>0, WithKeeps
  <2> HIDE DEF step, n
  <2>. QED
    BY <1>0, <1>1, <2>1, LoopStays
<1>3. \A k \in 1 .. n : h[k] = With(h[k - 1], rows[k])
  <2> SUFFICES ASSUME NEW k \in 1 .. n PROVE h[k] = With(h[k - 1], rows[k])
    OBVIOUS
  <2>1. k - 1 \in 0 .. n
    BY <1>0
  <2>2. h[k] = step[<<h[k - 1], k>>]
    <3> HIDE DEF step, n
    <3>. QED
      BY <1>2 DEF Runs
  <2>3. h[k - 1] \in Different(S)
    BY <1>2, <2>1
  <2>. QED
    BY <2>2, <2>3
<1>4. h[0] = <<>> /\ h = [k \in 0 .. n |-> h[k]]
  <2> HIDE DEF step, n
  <2>. QED
    BY <1>2 DEF Runs
<1>5. Is(h)
  <2> DEFINE f == [m \in 0 .. n |-> IF m = 0 THEN <<>> ELSE With(h[m - 1], rows[m])]
  <2>1. f = [m \in 0 .. n |-> f[m]]
        /\ \A m \in 0 .. n : f[m] = IF m = 0 THEN <<>> ELSE With(h[m - 1], rows[m])
    OBVIOUS
  <2>2. \A m \in 0 .. n : m # 0 => m \in 1 .. n
    BY <1>0
  <2> HIDE DEF f
  <2>3. \A m \in 0 .. n : h[m] = f[m]
    BY <1>3, <1>4, <2>1, <2>2
  <2>4. h = f
    BY <1>4, <2>1, <2>3
  <2>. QED
    BY <2>4 DEF f
<1> DEFINE upto == CHOOSE f : Is(f)
<1>6. Is(upto)
  <2> HIDE DEF Is
  <2>. QED
    BY <1>5
<1>7. Unique(rows) = upto[n]
  BY DEF Unique
<1> HIDE DEF upto
<1>8. \A m \in 0 .. n : upto[m] = IF m = 0 THEN <<>> ELSE With(upto[m - 1], rows[m])
  <2> DEFINE f == [m \in 0 .. n |-> IF m = 0 THEN <<>> ELSE With(upto[m - 1], rows[m])]
  <2>1. upto = f
    BY <1>6
  <2>2. \A m \in 0 .. n : f[m] = IF m = 0 THEN <<>> ELSE With(upto[m - 1], rows[m])
    OBVIOUS
  <2> HIDE DEF f
  <2>. QED
    BY <2>1, <2>2
<1> DEFINE Good == {k \in 0 .. n : upto[k] \in Different(S)}
<1>9. 0 \in Good
  BY <1>0, <1>1, <1>8
<1>10. ASSUME NEW k \in 0 .. n, k < n, k \in Good PROVE k + 1 \in Good
  <2>1. k + 1 \in 1 .. n /\ (k + 1) - 1 = k /\ k + 1 \in 0 .. n /\ k + 1 # 0
    BY <1>0, <1>10
  <2>2. upto[k + 1] = With(upto[k], rows[k + 1])
    BY <1>8, <2>1
  <2>. QED
    BY <1>0, <1>10, <2>1, <2>2, WithKeeps
<1>11. n \in Good
  <2> HIDE DEF Good
  <2>1. 0 .. n \subseteq Good
    BY <1>0, <1>9, <1>10, Upward
  <2>. QED
    BY <1>0, <2>1
<1>. QED
  BY <1>7, <1>11

\* A row whose cells stand under their own headers, if JavaScript wrote it.
Fits(lg, fs, row) ==
  lg = "js" =>
    \A c \in DOMAIN row \cap DOMAIN Merged(lg, fs) : row[c].name = Merged(lg, fs)[c]

LEMMA OwnElements ==
  ASSUME NEW S, NEW s \in Seq(S)
  PROVE  s \in Seq(Elements(s))
BY DEF Elements

LEMMA Least ==
  ASSUME NEW n \in Nat, NEW P, NEW i \in 1 .. n, i \in P
  PROVE  \E k \in 1 .. n : k \in P /\ \A j \in 1 .. k - 1 : j \notin P
<1> DEFINE Good == {k \in Nat : k \in 0 .. n /\ \A j \in 1 .. k : j \notin P}
<1> SUFFICES ASSUME \A k \in 1 .. n : k \in P => \E j \in 1 .. k - 1 : j \in P PROVE FALSE
  OBVIOUS
<1>1. 0 \in Good
  OBVIOUS
<1>2. ASSUME NEW k \in 0 .. n, k < n, k \in Good PROVE k + 1 \in Good
  <2>1. k + 1 \in 1 .. n /\ (k + 1) - 1 = k
    BY <1>2
  <2>2. k + 1 \notin P
    BY <1>2, <2>1
  <2>. QED
    BY <1>2, <2>1, <2>2
<1>3. n \in Good
  <2> HIDE DEF Good
  <2>1. 0 .. n \subseteq Good
    BY <1>1, <1>2, Upward
  <2>. QED
    BY <2>1
<1>. QED
  BY <1>3

\* What a file adds is a sequence of rows that fit.
LEMMA RowsFit ==
  ASSUME NEW fs \in Directories, NEW k \in DOMAIN fs, NEW lg \in {"py", "js"},
         Processable(lg, fs, fs[k])
  PROVE  LET rows == Rows(lg, Merged(lg, fs), fs[k])
         IN  rows \in Seq(Elements(rows)) /\ \A j \in 1 .. Len(rows) : Fits(lg, fs, rows[j])
<1> DEFINE f == fs[k]
           m == Merged(lg, fs)
           rows == Rows(lg, m, f)
<1>1. /\ IsSequence(f.header) /\ IsSequence(f.rows)
      /\ \A r \in DOMAIN f.rows : \A c \in DOMAIN f.rows[r] \cap DOMAIN f.header :
           f.rows[r][c].name = f.header[c]
  BY CsvAssumption
<1>2. f.rows \in Seq(Elements(f.rows)) /\ DOMAIN f.rows = 1 .. Len(f.rows)
      /\ Len(f.rows) \in Nat
  BY <1>1 DEF IsSequence, Elements
<1> HIDE DEF f, m
<1>3. CASE lg = "py"
  <2> DEFINE parts == [j \in DOMAIN f.rows |->
                         IF Len(f.rows[j]) = Len(f.header) THEN <<f.rows[j]>> ELSE <<>>]
  <2>1. rows = FlattenSeq(parts)
    BY <1>3 DEF Rows
  <2>2. parts \in Seq(Seq(Elements(f.rows)))
    <3>1. \A j \in 1 .. Len(f.rows) : parts[j] \in Seq(Elements(f.rows))
      <4> SUFFICES ASSUME NEW j \in 1 .. Len(f.rows) PROVE parts[j] \in Seq(Elements(f.rows))
        OBVIOUS
      <4>1. f.rows[j] \in Elements(f.rows)
        BY DEF Elements
      <4>2. parts[j] = <<f.rows[j]>> \/ parts[j] = <<>>
        BY <1>2
      <4>3. <<f.rows[j]>> \in Seq(Elements(f.rows)) /\ <<>> \in Seq(Elements(f.rows))
        BY <4>1
      <4>. QED
        BY <4>2, <4>3
    <3>2. parts \in [1 .. Len(f.rows) -> Seq(Elements(f.rows))]
      BY <1>2, <3>1
    <3> HIDE DEF parts
    <3>. QED
      BY <1>2, <3>2
  <2> HIDE DEF parts
  <2>3. rows \in Seq(Elements(f.rows))
    BY <2>1, <2>2, Flattened
  <2> HIDE DEF rows
  <2>4. rows \in Seq(Elements(rows))
    BY <2>3, OwnElements
  <2>. QED
    BY <1>3, <2>4 DEF Fits, rows, m, f
<1>4. CASE lg = "js" /\ f.header = m
  <2>1. rows = f.rows
    BY <1>4 DEF Rows
  <2>2. \A j \in 1 .. Len(rows) : Fits(lg, fs, rows[j])
    BY <1>1, <1>2, <1>4, <2>1 DEF Fits, m
  <2>. QED
    BY <1>2, <2>1, <2>2 DEF m, f
<1>5. CASE lg = "js" /\ f.header # m
  <2>1. rows = [j \in DOMAIN f.rows |-> Reordered(f.header, m, f.rows[j])]
    BY <1>5 DEF Rows
  <2>2. DOMAIN f.header = 1 .. Len(f.header) /\ Len(f.header) \in Nat
    BY <1>1 DEF IsSequence
  <2>3. ASSUME NEW i \in DOMAIN m
        PROVE  LET p == Position(f.header, m[i]) IN p \in DOMAIN f.header /\ f.header[p] = m[i]
    <3> DEFINE P == {j \in DOMAIN f.header : f.header[j] = m[i]}
    <3>1. ToSet(f.header) = ToSet(m)
      BY <1>5 DEF Processable, f, m
    <3>2. PICK j \in DOMAIN f.header : j \in P
      BY <2>3, <3>1 DEF ToSet
    <3>3. \E p \in 1 .. Len(f.header) : p \in P /\ \A l \in 1 .. p - 1 : l \notin P
      <4> HIDE DEF P
      <4>. QED
        BY <2>2, <3>2, Least
    <3>4. \E p \in DOMAIN f.header : f.header[p] = m[i] /\ \A l \in 1 .. p - 1 : f.header[l] # m[i]
      <4>1. PICK p \in 1 .. Len(f.header) : p \in P /\ \A l \in 1 .. p - 1 : l \notin P
        BY <3>3
      <4>2. \A l \in 1 .. p - 1 : l \in DOMAIN f.header
        BY <2>2, <4>1
      <4>. QED
        BY <2>2, <4>1, <4>2
    <3>. QED
      BY <3>4 DEF Position
  <2>4. ASSUME NEW j \in DOMAIN f.rows
        PROVE  Fits(lg, fs, Reordered(f.header, m, f.rows[j]))
    <3> DEFINE row == Reordered(f.header, m, f.rows[j])
               p(c) == Position(f.header, m[c])
    <3>1. DOMAIN row = DOMAIN m
          /\ \A c \in DOMAIN m : row[c] = IF p(c) \in DOMAIN f.rows[j] THEN f.rows[j][p(c)]
                                          ELSE [name |-> m[c], value |-> ""]
      BY DEF Reordered
    <3> HIDE DEF row, p
    <3>2. ASSUME NEW c \in DOMAIN m PROVE row[c].name = m[c]
      <4>1. p(c) \in DOMAIN f.header /\ f.header[p(c)] = m[c]
        BY <2>3 DEF p
      <4>2. CASE p(c) \in DOMAIN f.rows[j]
        <5>1. f.rows[j][p(c)].name = f.header[p(c)]
          BY <1>1, <4>1, <4>2
        <5>. QED
          BY <3>1, <4>1, <4>2, <5>1
      <4>3. CASE p(c) \notin DOMAIN f.rows[j]
        <5>1. row[c] = [name |-> m[c], value |-> ""]
          BY <3>1, <4>3
        <5>2. [name |-> m[c], value |-> ""].name = m[c]
          OBVIOUS
        <5>. QED
          BY <5>1, <5>2
      <4>. QED
        BY <4>2, <4>3
    <3>3. Fits(lg, fs, row)
      BY <3>1, <3>2 DEF Fits, m
    <3>. QED
      BY <3>3 DEF row
  <2>5. Len(rows) = Len(f.rows) /\ (\A j \in 1 .. Len(rows) : Fits(lg, fs, rows[j]))
        /\ rows \in Seq(Elements(rows))
    <3>1. rows \in [1 .. Len(f.rows) -> {rows[j] : j \in 1 .. Len(f.rows)}]
          /\ \A j \in 1 .. Len(f.rows) : rows[j] = Reordered(f.header, m, f.rows[j])
      BY <1>2, <2>1
    <3> HIDE DEF rows
    <3>2. rows \in Seq({rows[j] : j \in 1 .. Len(f.rows)}) /\ Len(rows) = Len(f.rows)
      BY <1>2, <3>1
    <3>. QED
      BY <1>2, <2>4, <3>1, <3>2 DEF Elements
  <2>. QED
    BY <2>5 DEF m, f
<1>. QED
  BY <1>3, <1>4, <1>5

\* What a run of the CSV program writes: no row twice, and rows that fit.
Clean(lg, fs, rows) ==
  /\ \A i, k \in DOMAIN rows : i # k => Texts(rows[i]) # Texts(rows[k])
  /\ \A i \in DOMAIN rows : Fits(lg, fs, rows[i])

LEMMA UniqueIsClean ==
  ASSUME NEW fs \in Directories, NEW lg \in {"py", "js"}
  PROVE  Clean(lg, fs, Unique(AllRows(lg, fs)))
<1> DEFINE parts == [k \in DOMAIN fs |->
                       IF Processable(lg, fs, fs[k]) THEN Rows(lg, Merged(lg, fs), fs[k]) ELSE <<>>]
           S == UNION {Elements(parts[k]) : k \in DOMAIN fs}
           all == FlattenSeq(parts)
<1>1. DOMAIN fs = 1 .. Len(fs) /\ Len(fs) \in Nat
  BY CsvAssumption DEF IsSequence
<1>2. ASSUME NEW k \in DOMAIN fs
      PROVE  /\ parts[k] \in Seq(Elements(parts[k]))
             /\ \A x \in Elements(parts[k]) : Fits(lg, fs, x)
  <2>1. CASE Processable(lg, fs, fs[k])
    <3>1. parts[k] = Rows(lg, Merged(lg, fs), fs[k])
      BY <2>1
    <3> HIDE DEF parts
    <3>2. /\ parts[k] \in Seq(Elements(parts[k]))
          /\ \A j \in 1 .. Len(parts[k]) : Fits(lg, fs, parts[k][j])
      BY <2>1, <3>1, RowsFit
    <3>. QED
      BY <3>2 DEF Elements
  <2>2. CASE ~Processable(lg, fs, fs[k])
    <3>1. parts[k] = <<>>
      BY <2>2
    <3>2. Elements(<<>>) = {} /\ <<>> \in Seq({})
      BY DEF Elements
    <3>. QED
      BY <3>1, <3>2
  <2>. QED
    BY <2>1, <2>2
<1>3. parts = [k \in DOMAIN fs |-> parts[k]]
  OBVIOUS
<1> HIDE DEF parts
<1>4. \A k \in DOMAIN fs : parts[k] \in Seq(S)
  BY <1>2
<1>5. parts \in Seq(Seq(S))
  <2> HIDE DEF S
  <2>1. parts \in [1 .. Len(fs) -> Seq(S)]
    BY <1>1, <1>3, <1>4
  <2>. QED
    BY <1>1, <2>1
<1>6. \A x \in S : Fits(lg, fs, x)
  BY <1>2
<1> HIDE DEF S
<1>7. all \in Seq(S)
  BY <1>5, Flattened
<1>8. all = AllRows(lg, fs)
  BY DEF AllRows, parts
<1> HIDE DEF all
<1>9. Unique(all) \in Different(S)
  BY <1>7, UniqueIsDifferent
<1> DEFINE u == Unique(all)
<1> HIDE DEF u
<1>10. u \in Seq(S) /\ \A i, k \in 1 .. Len(u) : i # k => Texts(u[i]) # Texts(u[k])
  BY <1>9 DEF Different, u
<1>11. Clean(lg, fs, u)
  BY <1>6, <1>10 DEF Clean
<1>. QED
  BY <1>8, <1>11 DEF u

Merging ==
  job = "csv" /\ verdict.status = "success" => files \in Directories

LEMMA SingleIsWritten ==
  ASSUME NEW f, NEW dk, NEW rn
  PROVE  Writing(<<f>>, dk, rn, {f})
<1>1. <<f>> \in Seq({f}) /\ Len(<<f>>) = 1 /\ <<f>>[1] = f
  OBVIOUS
<1>. QED
  BY <1>1 DEF Writing

LEMMA CsvStep ==
  ASSUME InPlace, InPlace', Finishing, Merging, job = "csv", [Next]_vars
  PROVE  Finishing' /\ Merging'
<1>0. Next => Shared \/ CsvNext
  BY StepsAreOwn DEF OwnStep, Pipelines
<1>v. Unknown.status = "raised" /\ \A s, n : Verdict(s, n).status = s
  BY DEF Unknown, Verdict
<1> DEFINE kept(fs) == IF fs = <<>> THEN <<>> ELSE Unique(AllRows(lang, fs))
           file(fs) == [file |-> "cleaned", rows |-> kept(fs)]
<1>1. CASE Shared
  <2>1. Finishing'
    BY <1>1, FinishingShared
  <2>2. Merging'
    BY <1>1, SharedSucceeds DEF Merging
  <2>. QED
    BY <2>1, <2>2
<1>2. CASE RunCsvUnread
  BY <1>2, <1>v DEF RunCsvUnread, EndWith, Finishing, Merging
<1>3. CASE RunCsvEmpty /\ verdict' # Unknown
  <2>1. /\ job' = job /\ lang' = lang /\ files' \in Directories /\ files' = <<>>
        /\ todo' = <<>> /\ pc' = "idle"
        /\ disk' = Under(disk, "cleaned", [run |-> run', rows |-> <<>>, whole |-> TRUE])
    BY <1>3 DEF RunCsvEmpty, EndWith, Nought
  <2>2. Plan' = {[file |-> "cleaned", rows |-> <<>>]}
    BY <2>1 DEF Plan
  <2>3. "cleaned" \in DOMAIN disk' /\ disk'["cleaned"] = [run |-> run', rows |-> <<>>, whole |-> TRUE]
    BY <2>1 DEF Under
  <2>4. Writing(<<>>, disk', run', {[file |-> "cleaned", rows |-> <<>>]})
    BY <2>3 DEF Writing
  <2>5. Writing(todo', disk', run', Plan')
    BY <2>1, <2>2, <2>4
  <2>. QED
    BY <2>1, <2>5 DEF Finishing, Merging
<1>4. CASE RunCsv
  <2>1. /\ job' = job /\ lang' = lang /\ files' \in Directories /\ files' # <<>>
        /\ todo' = <<file(files')>> /\ pc' = "write"
    BY <1>4 DEF RunCsv
  <2>2. Plan' = {file(files')}
    BY <2>1 DEF Plan
  <2>3. Writing(todo', disk', run', Plan')
    BY <2>1, <2>2, SingleIsWritten
  <2>. QED
    BY <2>1, <2>3 DEF Finishing, Merging
<1>5. CASE UNCHANGED vars
  <2>1. Plan' = Plan
    BY <1>5, PlanStays DEF vars, jobVars, streamVars, apiVars, csvVars
  <2>. QED
    BY <1>5, <2>1 DEF vars, jobVars, csvVars, Finishing, Merging, ManifestSays
<1>6. CASE RunCsvEmpty /\ verdict' = Unknown
  BY <1>6, <1>v DEF Finishing, Merging
<1>. QED
  BY <1>0, <1>1, <1>2, <1>3, <1>4, <1>5, <1>6 DEF CsvNext

LEMMA CsvIsWhole ==
  ASSUME InPlace, Finishing, Merging, Told("success"), job = "csv"
  PROVE  CsvWhole
<1> DEFINE rows == IF files = <<>> THEN <<>> ELSE Unique(AllRows(lang, files))
<1>1. Writing(<<>>, disk, run, Plan) /\ files \in Directories /\ lang \in {"py", "js"}
  BY DEF Finishing, Merging, Pipelines, Told, InPlace, Reading
<1>2. [file |-> "cleaned", rows |-> rows] \in Plan
  BY DEF Plan
<1>3. Clean(lang, files, rows)
  <2>1. CASE files = <<>>
    BY <2>1 DEF Clean
  <2>2. CASE files # <<>>
    BY <1>1, <2>2, UniqueIsClean
  <2>. QED
    BY <2>1, <2>2
<1> HIDE DEF rows
<1>4. Holds("cleaned", rows)
  <2>1. \A f \in Plan : Holds(f.file, f.rows)
    BY <1>1, WritingEnds
  <2>2. \A x, y : [file |-> x, rows |-> y] \in Plan => Holds(x, y)
    BY <2>1
  <2>. QED
    BY <1>2, <2>2
<1>. QED
  BY <1>1, <1>3, <1>4 DEF CsvWhole, Holds, Clean, Fits

LEMMA WarehouseStep ==
  ASSUME InPlace, InPlace', Finishing, job = "warehouse", [Next]_vars
  PROVE  Finishing'
<1>0. Next => Shared \/ WarehouseNext
  BY StepsAreOwn DEF OwnStep, Pipelines
<1>v. Unknown.status = "raised" /\ \A s, n : Verdict(s, n).status = s
  BY DEF Unknown, Verdict
<1>i. verdict.status = "success" => pc \in {"write", "idle"}
  BY DEF Finishing, Pipelines
<1>1. CASE Shared
  BY <1>1, FinishingShared
<1>2. CASE RunWarehouse \/ StageFails \/ QueryFails
  BY <1>2, <1>v DEF RunWarehouse, StageFails, QueryFails, EndWith, Finishing
<1>3. CASE StageDone
  BY <1>3, <1>i DEF StageDone, Loading, jobVars, Finishing
<1>4. CASE Query
  BY <1>4 DEF Query, Finishing
<1>5. CASE UNCHANGED vars
  BY <1>5 DEF vars, jobVars, Finishing, ManifestSays
<1>. QED
  BY <1>0, <1>1, <1>2, <1>3, <1>4, <1>5 DEF WarehouseNext

-----------------------------------------------------------------------------
\* Steps that are over, and what their pipeline has written by then.
Finished(i) ==
  /\ results[i].name = Steps[i].name
  /\ \/ results[i].status \in {"success", "failed"}
     \/ results[i].status = "skipped" /\ Steps[i].skip

Alive == pc # "idle" \/ verdict.status = "success"
Landed == job # "example" /\ at >= (IF job = "customer" THEN 5 ELSE 6)

Stepping ==
  job \in Pipelines =>
    /\ Alive => /\ at \in 1 .. 6 /\ IsSequence(results) /\ Len(results) = at - 1
                /\ \A i \in 1 .. at - 1 : Finished(i)
                /\ Landed /\ ~Stopped => Writing(<<>>, disk, run, Plan)
    /\ pc = "write" => at <= 5 /\ Writes(Current) /\ Writing(todo, disk, run, Plan)
    /\ pc = "caught" => at <= 5
    /\ verdict.status = "success" => /\ pc \in {"manifest", "idle"} /\ at = 6 /\ ~Stopped
                                     /\ job = "demo" => verdict.rows = DemoRows
                                     /\ job = "demo" /\ pc = "idle" => ManifestSays

LEMMA StepsAre ==
  ASSUME job \in Pipelines
  PROVE  /\ Len(Steps) = 5 /\ DOMAIN Steps = 1 .. 5
         /\ job = "demo" => Steps[3].name = "deduplicate" /\ ~Steps[3].skip
         /\ \A i \in 1 .. 5 :
              Writes(Steps[i]) <=> (i = 4 /\ job = "customer") \/ (i = 5 /\ job = "demo")
         /\ \A i \in 1 .. 5 : Writes(Steps[i]) => ~Steps[i].skip
<1>1. CASE job = "demo"
  <2>1. Steps = <<Step("ingest"), Step("validate"), Step("deduplicate"), Step("aggregate"),
                  Step("output")>>
    BY <1>1 DEF Steps
  <2>2. \A n : Step(n).name = n /\ ~Step(n).skip
    BY DEF Step
  <2> HIDE DEF Step
  <2>3. /\ Len(Steps) = 5 /\ DOMAIN Steps = 1 .. 5 /\ Steps[1].name = "ingest"
        /\ Steps[2].name = "validate" /\ Steps[3].name = "deduplicate"
        /\ Steps[4].name = "aggregate" /\ Steps[5].name = "output"
        /\ ~Steps[3].skip /\ ~Steps[5].skip
    BY <2>1, <2>2
  <2>. QED
    BY <1>1, <2>3 DEF Writes
<1>2. CASE job = "customer"
  <2>1. Steps = <<Step("extract"), Skippable(Step("validate")), Step("clean"), Step("load"),
                  Step("report")>>
    BY <1>2 DEF Steps
  <2>2. /\ \A n : Step(n).name = n /\ ~Step(n).skip
        /\ \A n : Skippable(Step(n)).name = n
    BY DEF Step, Skippable
  <2>3. /\ Len(Steps) = 5 /\ DOMAIN Steps = 1 .. 5 /\ Steps[1].name = "extract"
        /\ Steps[2].name = "validate" /\ Steps[3].name = "clean"
        /\ Steps[4].name = "load" /\ Steps[5].name = "report"
        /\ ~Steps[4].skip
    BY <2>1, <2>2
  <2>4. \A i \in 1 .. 5 : Writes(Steps[i]) <=> Steps[i].name = "load"
    BY <1>2 DEF Writes
  <2>5. \A i \in 1 .. 5 : Steps[i].name = "load" <=> i = 4
    <3>1. 1 .. 5 = {1, 2, 3, 4, 5}
      OBVIOUS
    <3>. QED
      BY <2>3, <3>1
  <2>. QED
    BY <1>2, <2>3, <2>4, <2>5
<1>3. CASE job = "example"
  <2>1. Steps = <<Step("extract"), Retried(Step("validate"), 2), Step("transform"),
                  Skippable(Step("load")), Step("report")>>
    BY <1>3 DEF Steps
  <2>2. Len(Steps) = 5 /\ DOMAIN Steps = 1 .. 5
    BY <2>1
  <2>. QED
    BY <1>3, <2>2 DEF Writes
<1>. QED
  BY <1>1, <1>2, <1>3 DEF Pipelines

LEMMA RecordFinishes ==
  ASSUME job \in Pipelines, job' = job, at \in 1 .. 5, IsSequence(results),
         Len(results) = at - 1, \A i \in 1 .. at - 1 : Finished(i),
         NEW s, s \in {"success", "failed"} \/ (s = "skipped" /\ Current.skip), Record(s)
  PROVE  /\ at' \in 1 .. 6 /\ at' = at + 1 /\ IsSequence(results') /\ Len(results') = at' - 1
         /\ \A i \in 1 .. at' - 1 : Finished(i)'
         /\ Stopped' <=> Stopped \/ s = "failed"
         /\ pc' = "step"
<1> DEFINE r == [name |-> Current.name, status |-> s, attempts |-> attempt]
           T == {results[i] : i \in DOMAIN results} \cup {r}
<1>1. results' = Append(results, r) /\ at' = at + 1 /\ pc' = "step"
  BY DEF Record
<1>2. results \in Seq(T) /\ r \in T /\ DOMAIN results = 1 .. at - 1
  BY DEF IsSequence
<1>3. r.name = Current.name /\ r.status = s
  OBVIOUS
<1> HIDE DEF r, T
<1>4. /\ results' \in Seq(T) /\ Len(results') = at /\ results'[at] = r
      /\ \A i \in 1 .. at - 1 : results'[i] = results[i]
  BY <1>1, <1>2
<1>5. IsSequence(results') /\ DOMAIN results' = 1 .. at
  BY <1>4 DEF IsSequence
<1>6. Steps' = Steps
  BY DEF Steps
<1>7. 1 .. at = (1 .. at - 1) \cup {at}
  OBVIOUS
<1>8. \A i \in 1 .. at : Finished(i)'
  BY <1>3, <1>4, <1>6, <1>7 DEF Finished, Current
<1>9. Statuses' = Statuses \cup {s}
  BY <1>2, <1>3, <1>4, <1>5, <1>7 DEF Statuses
<1>. QED
  BY <1>1, <1>4, <1>5, <1>8, <1>9 DEF Stopped

LEMMA PipelineFilesAreWritten ==
  ASSUME job \in {"demo", "customer"}, NEW td,
         td = IF job = "demo" THEN DemoFiles ELSE CustomerFiles, NEW dk, NEW rn
  PROVE  Writing(td, dk, rn, Plan)
<1>1. Plan = Elements(td)
  BY DEF Plan
<1>2. CASE job = "demo"
  <2>1. /\ Len(td) = 5 /\ td \in Seq({td[1], td[2], td[3], td[4], td[5]})
        /\ td[1].file = "accepted" /\ td[2].file = "dead_letter"
        /\ td[3].file = "hourly_aggregates" /\ td[4].file = "location_summary"
        /\ td[5].file = "summary"
    BY <1>2 DEF DemoFiles
  <2>2. 1 .. Len(td) = {1, 2, 3, 4, 5}
    <3>1. Len(td) = 5
      BY <2>1
    <3>2. 1 .. 5 = {1, 2, 3, 4, 5}
      OBVIOUS
    <3>. QED
      BY <3>1, <3>2
  <2>3. Elements(td) = {td[1], td[2], td[3], td[4], td[5]}
    BY <2>2 DEF Elements
  <2>4. \A i, k \in 1 .. Len(td) : td[i].file = td[k].file => td[i] = td[k]
    BY <2>1, <2>2
  <2>. QED
    BY <1>1, <2>1, <2>3, <2>4, WritingStarts
<1>3. CASE job = "customer"
  <2>1. td = <<[file |-> "customers", rows |-> UniqueRows]>>
    BY <1>3 DEF CustomerFiles
  <2>2. Len(td) = 1 /\ td \in Seq({td[1]}) /\ 1 .. Len(td) = {1}
    <3> DEFINE f == [file |-> "customers", rows |-> UniqueRows]
    <3> HIDE DEF f
    <3>1. \A x : Len(<<x>>) = 1 /\ <<x>>[1] = x /\ <<x>> \in Seq({x}) /\ 1 .. 1 = {1}
      OBVIOUS
    <3>2. td = <<f>>
      BY <2>1 DEF f
    <3>. QED
      BY <3>1, <3>2
  <2>3. Elements(td) = {td[1]}
    BY <2>2 DEF Elements
  <2>4. \A i, k \in 1 .. Len(td) : td[i].file = td[k].file => td[i] = td[k]
    BY <2>2
  <2>. QED
    BY <1>1, <2>2, <2>3, <2>4, WritingStarts
<1>. QED
  BY <1>2, <1>3

LEMMA PipelinePlanStays ==
  ASSUME job \in Pipelines, UNCHANGED <<job, lang, lines>>
  PROVE  /\ Plan' = Plan /\ Steps' = Steps
         /\ results' = results => DemoRows' = DemoRows /\ (Stopped' <=> Stopped)
                                  /\ \A i : Finished(i)' <=> Finished(i)
<1>1. DemoFiles' = DemoFiles /\ CustomerFiles' = CustomerFiles
  BY DEF DemoFiles, CustomerFiles, DemoAccepted, DemoDead, DemoRejected, FirstOf, UniqueRows
<1>2. Plan' = Plan /\ Steps' = Steps
  BY <1>1 DEF Plan, Pipelines, Steps
<1>3. results' = results => DemoRows' = DemoRows
  BY DEF DemoRows, Stored, FirstOf, DemoAccepted
<1>. QED
  BY <1>2, <1>3 DEF Stopped, Statuses, Finished

LEMMA PipelineShared ==
  ASSUME InPlace, Stepping, job \in Pipelines, Shared
  PROVE  Stepping'
<1>v. Unknown.status = "raised"
  BY DEF Unknown, Verdict
<1>0. /\ UNCHANGED <<job, lang, run, clock, lines, limit, at, attempt, results, got, files>>
  BY DEF Shared, streamVars, runnerVars, apiVars, csvVars, JobsNext, WriteFile, WriteFails,
         WriteManifest, ManifestFails, Die
<1>1. Plan' = Plan /\ Steps' = Steps /\ (Landed' <=> Landed) /\ (Stopped' <=> Stopped)
      /\ (Writes(Current)' <=> Writes(Current)) /\ \A i : Finished(i)' <=> Finished(i)
  BY <1>0, PlanStays DEF Steps, Landed, Stopped, Statuses, Writes, Current, Finished
<1>2. DemoRows' = DemoRows
  BY <1>0 DEF DemoRows, Stored, FirstOf, DemoAccepted
<1>3. pc = "write" => at \in 1 .. 5 /\ ~Landed
  <2>1. \A i \in 1 .. 5 : Writes(Steps[i]) <=> (i = 4 /\ job = "customer") \/ (i = 5 /\ job = "demo")
    BY StepsAre
  <2>. QED
    BY <2>1 DEF Stepping, Alive, Landed, Current
<1>4. CASE ManifestFails \/ Die
  <2>1. pc' = "idle" /\ verdict'.status = "raised"
    BY <1>4, <1>v DEF ManifestFails, Die, EndWith
  <2>. QED
    BY <2>1 DEF Stepping, Alive
<1>5. CASE WriteFile
  <2>1. pc = "write" /\ pc' = pc /\ verdict' = verdict
    BY <1>5 DEF WriteFile
  <2>2. Writing(todo', disk', run', Plan)
    BY <1>5, <2>1, WriteFileWrites DEF Stepping
  <2>. QED
    BY <1>0, <1>1, <1>2, <1>3, <2>1, <2>2 DEF Stepping, Alive
<1>6. CASE WriteFails
  <2>1. pc = "write" /\ pc' = "caught" /\ verdict' = verdict
    BY <1>6 DEF WriteFails, RaisesIntoRunner, NotesError, GoesToManifest, RaisesToCaller,
           Pipelines
  <2>. QED
    BY <1>0, <1>1, <1>2, <1>3, <2>1 DEF Stepping, Alive
<1>7. CASE WriteManifest
  <2>1. /\ pc = "manifest" /\ pc' = "idle" /\ verdict' = verdict /\ disk' = disk
        /\ verdict.status = "success" => ManifestSays'
    BY <1>7, WriteManifestSays DEF WriteManifest, AtManifest
  <2>. QED
    BY <1>0, <1>1, <1>2, <2>1 DEF Stepping, Alive
<1>. QED
  BY <1>4, <1>5, <1>6, <1>7 DEF Shared, JobsNext

LEMMA PipelineStep ==
  ASSUME InPlace, InPlace', Stepping, job \in Pipelines, [Next]_vars
  PROVE  Stepping'
<1>0. Next => Shared \/ RunnerNext
  BY StepsAreOwn DEF OwnStep, Pipelines
<1>v. Unknown.status = "raised" /\ \A s, n : Verdict(s, n).status = s /\ Verdict(s, n).rows = n
  BY DEF Unknown, Verdict
<1>a. /\ Len(Steps) = 5
      /\ \A i \in 1 .. 5 : Writes(Steps[i]) <=> (i = 4 /\ job = "customer") \/ (i = 5 /\ job = "demo")
      /\ \A i \in 1 .. 5 : Writes(Steps[i]) => ~Steps[i].skip
  BY StepsAre
<1>b. /\ pc # "idle" => /\ at \in 1 .. 6 /\ IsSequence(results) /\ Len(results) = at - 1
                        /\ \A i \in 1 .. at - 1 : Finished(i)
                        /\ Landed /\ ~Stopped => Writing(<<>>, disk, run, Plan)
      /\ pc = "write" => at <= 5 /\ Writes(Current) /\ Writing(todo, disk, run, Plan)
      /\ pc = "caught" => at <= 5
      /\ pc \in {"step", "caught", "write"} => verdict.status # "success"
  BY DEF Stepping, Alive
<1>1. CASE Shared
  BY <1>1, PipelineShared
<1>2. CASE Run
  <2>1. /\ at' = 1 /\ results' = <<>> /\ pc' = "step" /\ verdict'.status = "raised"
    BY <1>2, <1>v DEF Run
  <2>2. IsSequence(<<>>) /\ Len(<<>>) = 0
    BY DEF IsSequence
  <2>3. ~Landed'
    BY <2>1 DEF Landed
  <2>. QED
    BY <2>1, <2>2, <2>3 DEF Stepping, Alive
<1>3. ASSUME StepWrites \/ StepSucceeds \/ StepRaises \/ Conclude
      PROVE  /\ UNCHANGED <<job, lang, run, clock, disk, lines>>
             /\ Plan' = Plan /\ Steps' = Steps
             /\ results' = results => DemoRows' = DemoRows /\ (Stopped' <=> Stopped)
                                      /\ \A i : Finished(i)' <=> Finished(i)
             /\ pc # "idle"
  <2>1. UNCHANGED <<job, lang, run, clock, disk, lines>>
    BY <1>3 DEF StepWrites, StepSucceeds, StepRaises, Conclude, streamVars
  <2>2. pc # "idle"
    BY <1>3 DEF StepWrites, StepSucceeds, StepRaises, Conclude, Running, Raises
  <2>. QED
    BY <2>1, <2>2, PipelinePlanStays
<1>4. CASE StepWrites
  <2>1. /\ pc = "step" /\ at \in 1 .. 5 /\ ~Stopped /\ Writes(Steps[at]) /\ pc' = "write"
        /\ todo' = IF job = "demo" THEN DemoFiles ELSE CustomerFiles
        /\ at' = at /\ results' = results /\ verdict' = verdict
    BY <1>4, <1>a, <1>b DEF StepWrites, Running, Current, runnerVars
  <2>2. job \in {"demo", "customer"} /\ ~Landed
    BY <1>a, <2>1 DEF Landed, Pipelines
  <2>3. Writing(todo', disk', run', Plan)
    BY <2>1, <2>2, PipelineFilesAreWritten
  <2>4. Writes(Current)' /\ ~Landed'
    BY <1>3, <1>4, <2>1, <2>2 DEF Writes, Current, Landed
  <2>. QED
    BY <1>b, <1>3, <1>4, <2>1, <2>3, <2>4 DEF Stepping, Alive
<1>5. ASSUME StepSucceeds \/ StepRaises, NEW s, Record(s),
             s \in {"success", "failed"} \/ (s = "skipped" /\ Current.skip),
             at \in 1 .. 5,
             Landed' /\ ~Stopped' => Writing(<<>>, disk, run, Plan)
      PROVE  Stepping'
  <2>1. /\ at' \in 1 .. 6 /\ IsSequence(results') /\ Len(results') = at' - 1
        /\ \A i \in 1 .. at' - 1 : Finished(i)'
        /\ pc' = "step"
    <3>1. /\ job' = job /\ IsSequence(results) /\ Len(results) = at - 1
          /\ \A i \in 1 .. at - 1 : Finished(i)
      BY <1>b, <1>3, <1>5
    <3>. QED
      BY <1>5, <3>1, RecordFinishes
  <2>2. verdict' = verdict /\ verdict.status # "success"
    <3>1. pc \in {"step", "caught", "write"}
      BY <1>5 DEF StepSucceeds, StepRaises, Raises, Running
    <3>2. verdict' = verdict
      BY <1>5 DEF StepSucceeds, StepRaises
    <3>. QED
      BY <1>b, <3>1, <3>2
  <2>. QED
    BY <1>3, <1>5, <2>1, <2>2 DEF Stepping, Alive
<1>6. CASE StepSucceeds
  <2>1. at \in 1 .. 5 /\ Record("success") /\ pc # "idle"
    BY <1>a, <1>b, <1>3, <1>6 DEF StepSucceeds, Running
  <2>2. at' = at + 1
    BY <2>1 DEF Record
  <2>3. CASE pc = "write"
    <3>1. Writing(<<>>, disk, run, Plan)
      BY <1>b, <1>6, <2>3 DEF StepSucceeds, Running
    <3>. QED
      BY <1>5, <1>6, <2>1, <3>1
  <2>4. CASE pc # "write"
    <3>1. ~Stopped /\ ~Writes(Current)
      BY <1>6, <2>4 DEF StepSucceeds, Running
    <3>2. Landed' => Landed
      BY <1>a, <1>3, <1>6, <2>1, <2>2, <3>1 DEF Landed, Current, Pipelines
    <3>. QED
      BY <1>b, <1>5, <1>6, <2>1, <3>1, <3>2
  <2>. QED
    BY <2>3, <2>4
<1>7. CASE StepRaises
  <2>1. at \in 1 .. 5 /\ pc \in {"step", "caught"}
    BY <1>a, <1>b, <1>7 DEF StepRaises, Raises, Running
  <2>2. CASE TryAgain
    <3>1. at' = at /\ results' = results /\ pc' = "step" /\ verdict' = verdict
      BY <1>7, <2>2 DEF StepRaises, TryAgain
    <3>2. Landed' <=> Landed
      BY <1>3, <1>7, <3>1 DEF Landed
    <3>. QED
      BY <1>b, <1>3, <1>7, <2>1, <3>1, <3>2 DEF Stepping, Alive
  <2>3. CASE SkipOrFail
    <3> DEFINE s == IF Current.skip THEN "skipped" ELSE "failed"
    <3>1. Record(s) /\ (s = "failed" \/ (s = "skipped" /\ Current.skip))
      BY <2>3 DEF SkipOrFail
    <3> HIDE DEF s
    <3>2. at' = at + 1
      BY <3>1 DEF Record
    <3>3. Stopped' <=> Stopped \/ s = "failed"
      BY <1>b, <1>3, <1>7, <2>1, <3>1, RecordFinishes
    <3>4. ASSUME Landed', ~Stopped' PROVE Writing(<<>>, disk, run, Plan)
      <4>1. ~Writes(Current)
        BY <1>a, <2>1, <3>1, <3>3, <3>4 DEF Current
      <4>2. Landed
        BY <1>a, <1>3, <1>7, <2>1, <3>2, <3>4, <4>1 DEF Landed, Current, Pipelines
      <4>. QED
        BY <1>b, <2>1, <3>3, <3>4, <4>2
    <3>. QED
      BY <1>5, <1>7, <2>1, <3>1, <3>4
  <2>. QED
    BY <1>7, <2>2, <2>3 DEF StepRaises
<1>8. CASE Conclude
  <2>1. /\ pc = "step" /\ (Stopped \/ at > 5) /\ at' = at /\ results' = results
        /\ pc' = IF job = "demo" THEN "manifest" ELSE "idle"
        /\ verdict'.status = IF Stopped THEN "failed" ELSE "success"
        /\ job = "demo" => verdict'.rows = DemoRows
    BY <1>v, <1>a, <1>8 DEF Conclude, runnerVars
  <2>2. Landed' <=> Landed
    BY <1>3, <1>8, <2>1 DEF Landed
  <2>3. verdict'.status = "success" => ~Stopped /\ at = 6
    BY <1>b, <2>1
  <2>. QED
    BY <1>b, <1>3, <1>8, <2>1, <2>2, <2>3 DEF Stepping, Alive
<1>9. CASE UNCHANGED vars
  <2>1. /\ UNCHANGED <<job, lang, run, clock, pc, todo, verdict, disk, manifests, lines, at,
                       results>>
    BY <1>9 DEF vars, jobVars, streamVars, runnerVars
  <2>2. /\ Plan' = Plan /\ Steps' = Steps /\ DemoRows' = DemoRows /\ (Stopped' <=> Stopped)
        /\ \A i : Finished(i)' <=> Finished(i)
    BY <2>1, PipelinePlanStays
  <2>3. (Landed' <=> Landed) /\ (Writes(Current)' <=> Writes(Current))
        /\ (ManifestSays' <=> ManifestSays)
    BY <2>1, <2>2 DEF Landed, Writes, Current, ManifestSays
  <2>. QED
    BY <2>1, <2>2, <2>3 DEF Stepping, Alive
<1>. QED
  BY <1>0, <1>1, <1>2, <1>4, <1>6, <1>7, <1>8, <1>9 DEF RunnerNext

LEMMA PipelineIsWhole ==
  ASSUME InPlace, Stepping, Told("success"), job \in Pipelines
  PROVE  /\ PipelineWhole
         /\ job = "demo" => StreamWhole /\ ManifestSays
<1>1. /\ at = 6 /\ ~Stopped /\ IsSequence(results) /\ Len(results) = 5
      /\ \A i \in 1 .. 5 : Finished(i)
      /\ Landed => Writing(<<>>, disk, run, Plan)
      /\ job = "demo" => verdict.rows = DemoRows /\ ManifestSays
  BY DEF Stepping, Alive, Told
<1>2. DOMAIN results = 1 .. 5
  BY <1>1 DEF IsSequence
<1>3. \A i \in 1 .. 5 : results[i].status # "failed"
  BY <1>1, <1>2 DEF Stopped, Statuses
<1>4. \A i \in 1 .. 5 : results[i].status = "success" \/ Steps[i].skip
  BY <1>1, <1>3 DEF Finished
<1>5. job # "example" => \A x, y : [file |-> x, rows |-> y] \in Plan => Holds(x, y)
  <2>1. ASSUME job # "example" PROVE \A f \in Plan : Holds(f.file, f.rows)
    <3>1. Writing(<<>>, disk, run, Plan)
      BY <1>1, <2>1 DEF Landed
    <3>. QED
      BY <3>1, WritingEnds
  <2>. QED
    BY <2>1
<1>6. job = "customer" => Holds("customers", UniqueRows)
  <2>1. CustomerFiles[1] = [file |-> "customers", rows |-> UniqueRows] /\ Len(CustomerFiles) = 1
    BY DEF CustomerFiles
  <2>2. job = "customer" => [file |-> "customers", rows |-> UniqueRows] \in Plan
    BY <2>1 DEF Plan, Elements
  <2>. QED
    BY <1>5, <2>2
<1>7. PipelineWhole
  BY <1>1, <1>2, <1>4, <1>6, StepsAre DEF PipelineWhole
<1>8. ASSUME job = "demo" PROVE StreamWhole
  <2> DEFINE accepted == FirstOf(DemoAccepted)
  <2>1. /\ Len(DemoFiles) = 5
        /\ DemoFiles[1] = [file |-> "accepted", rows |-> accepted]
        /\ DemoFiles[2] = [file |-> "dead_letter", rows |-> DemoDead]
        /\ DemoFiles[5] = [file |-> "summary", rows |-> accepted]
    BY DEF DemoFiles
  <2>2. accepted \subseteq DemoAccepted /\ DemoAccepted \subseteq DOMAIN lines
    BY DEF FirstOf, DemoAccepted
  <2>3. DemoRows = Cardinality(accepted)
    <3>1. results[3].name = "deduplicate" /\ results[3].status = "success"
      BY <1>1, <1>4, <1>8, StepsAre DEF Finished
    <3>2. "deduplicate" \in Stored
      BY <1>2, <3>1 DEF Stored
    <3>. QED
      BY <3>2 DEF DemoRows
  <2> HIDE DEF accepted
  <2>4. Plan = Elements(DemoFiles)
    BY <1>8 DEF Plan
  <2>5. /\ Holds("accepted", accepted) /\ Holds("dead_letter", DemoDead)
        /\ Holds("summary", accepted)
    BY <1>5, <1>8, <2>1, <2>4 DEF Elements
  <2>6. accepted \cap DemoDead = {}
    BY <2>2 DEF DemoDead, DemoRejected, accepted
  <2>7. lang = "py" => accepted \cup DemoDead = DOMAIN lines
    BY <2>2 DEF DemoDead, DemoRejected, accepted
  <2>. QED
    BY <1>1, <1>8, <2>3, <2>5, <2>6, <2>7 DEF StreamWhole, Holds
<1>. QED
  BY <1>1, <1>7, <1>8
-----------------------------------------------------------------------------
\* What SuccessIsWhole rests on, program by program.
Whole == Finishing /\ Streamed /\ Fetched /\ Merging /\ Stepping

LEMMA WholeStep == InPlace /\ InPlace' /\ Whole /\ [Next]_vars => Whole'
<1> SUFFICES ASSUME InPlace, InPlace', Whole, [Next]_vars PROVE Whole'
  OBVIOUS
<1>0. job' = job /\ job \in Programs
  BY JobStays DEF InPlace, Reading
<1>1. CASE job = "stream"
  <2>1. Finishing' /\ Streamed'
    BY <1>1, StreamStep DEF Whole
  <2>. QED
    BY <1>0, <1>1, <2>1 DEF Whole, Fetched, Merging, Stepping, Pipelines
<1>2. CASE job = "api"
  <2>1. Finishing' /\ Fetched'
    BY <1>2, ApiStep DEF Whole
  <2>. QED
    BY <1>0, <1>2, <2>1 DEF Whole, Streamed, Merging, Stepping, Pipelines
<1>3. CASE job = "csv"
  <2>1. Finishing' /\ Merging'
    BY <1>3, CsvStep DEF Whole
  <2>. QED
    BY <1>0, <1>3, <2>1 DEF Whole, Streamed, Fetched, Stepping, Pipelines
<1>4. CASE job = "warehouse"
  <2>1. Finishing'
    BY <1>4, WarehouseStep DEF Whole
  <2>. QED
    BY <1>0, <1>4, <2>1 DEF Whole, Streamed, Fetched, Merging, Stepping, Pipelines
<1>5. CASE job \in Pipelines
  <2>1. Stepping'
    BY <1>5, PipelineStep DEF Whole
  <2>. QED
    BY <1>0, <1>5, <2>1 DEF Whole, Finishing, Streamed, Fetched, Merging, Pipelines
<1>. QED
  BY <1>0, <1>1, <1>2, <1>3, <1>4, <1>5 DEF Programs

\* Every batch program in both languages: whatever failed or died before, a run
\* that tells its caller of success has written its files itself and whole, with
\* every input accounted for, and its manifest says so.
THEOREM SuccessMeansWhole == Spec => []SuccessIsWhole
<1>1. Init => Whole
  <2> SUFFICES ASSUME Init PROVE Whole
    OBVIOUS
  <2>1. /\ verdict.status = "raised" /\ pc = "idle"
        /\ posts \in Seq(Post) /\ page = 0 /\ changed = 0
    BY ApiAssumption DEF Init, JobsInit, ApiInit, Unknown, Verdict
  <2>. QED
    BY <2>1 DEF Whole, Finishing, Streamed, Fetched, Merging, Stepping, Alive
<1>2. InPlace /\ Whole => SuccessIsWhole
  <2> SUFFICES ASSUME InPlace, Whole, Told("success")
               PROVE  /\ job \in {"stream", "demo"} => StreamWhole
                      /\ job = "api" => ApiWhole
                      /\ job = "csv" => CsvWhole
                      /\ job \in Pipelines => PipelineWhole
                      /\ job \in {"stream", "demo", "api", "warehouse"} => ManifestSays
    BY DEF SuccessIsWhole, ManifestSays
  <2>1. job = "stream" => StreamWhole /\ ManifestSays
    BY StreamIsWhole DEF Whole
  <2>2. job = "api" => ApiWhole /\ ManifestSays
    BY ApiIsWhole DEF Whole
  <2>3. job = "csv" => CsvWhole
    BY CsvIsWhole DEF Whole
  <2>4. job \in Pipelines => PipelineWhole /\ (job = "demo" => StreamWhole /\ ManifestSays)
    BY PipelineIsWhole DEF Whole
  <2>5. job = "warehouse" => ManifestSays
    BY DEF Whole, Finishing, Told, Pipelines
  <2>. QED
    BY <2>1, <2>2, <2>3, <2>4, <2>5 DEF Pipelines
<1>3. InPlace /\ InPlace' /\ Whole /\ [Next]_vars => Whole'
  BY WholeStep
<1>. QED
  BY <1>1, <1>2, <1>3, AlwaysInPlace, PTL DEF Spec
=============================================================================
