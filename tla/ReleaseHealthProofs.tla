------------------------ MODULE ReleaseHealthProofs ------------------------
(***************************************************************************)
(* Proofs about ReleaseHealth, for any vintages, assessors, limits,        *)
(* policies and bounds: what the archive of assessments keeps to, as       *)
(* releases move and the machine loses power.                              *)
(***************************************************************************)
EXTENDS ReleaseHealth, AlertRulesProofs, SequenceTheorems, TLAPS

\* The chain is how the history began, up to a decision that still stands.
Prefix(c) ==
  /\ Len(c) <= Len(history)
  /\ \A i \in 1 .. Len(c) : c[i] = history[i]

Standing(c) == c \in Chain /\ (Prefix(c) \/ c \in lost)

\* Decisions were made at times of their own, one after the other.
HistoryOrdered ==
  /\ history \in Chain /\ settled \in 0 .. Len(history)
  /\ clock \in Nat
  /\ \A i \in 1 .. Len(history) :
       /\ history[i].time \in Nat /\ history[i].time <= clock
       /\ \A j \in 1 .. i : history[j].time <= history[i].time

\* A report in progress is of a release, and of a time the clock has shown.
Drafted(w) ==
  /\ {"chain", "time"} \subseteq DOMAIN w
  /\ w.chain \in Chain
  /\ w.time \in Nat /\ w.time <= clock

DraftsTyped ==
  /\ pc \in [Assessors -> Stages]
  /\ DOMAIN work = Assessors
  /\ \A a \in Assessors : pc[a] # "idle" => Drafted(work[a])
  /\ \A a \in Assessors : pc[a] = "linked" => work[a] \in archive

\* A record was made while the decision it names was the newest one, and before
\* the next was taken.
Recorded(r) ==
  /\ r.chain \in Chain /\ Len(r.chain) >= 1
  /\ r.time \in Nat /\ r.time <= clock
  /\ CandidatesOk(r) /\ AdviceOk(r)
  /\ \/ r.chain \in lost
     \/ /\ Prefix(r.chain)
        /\ r.time >= history[Len(r.chain)].time
        /\ Len(r.chain) < Len(history) => r.time < history[Len(r.chain) + 1].time

\* What the observer has read of earlier releases is all there will be.
Closed(w) ==
  /\ Standing(w.chain)
  /\ w.chain \notin lost =>
       {r \in archive : Len(r.chain) < Len(w.chain) /\ r.chain \notin lost}
         \subseteq w.samples

\* The fields of a report in progress.
Fields == {"chain", "time", "limit", "failed", "missing", "advice", "to", "target",
           "reviewed", "next"}

\* Candidates a review may list.
Listed == [gen : Nat, vintage : Vintages,
           status : {"healthy", "unhealthy", "unverifiable"}, failed : SUBSET Checks]

NoneHealthy(w) == \A i \in 1 .. Len(w.reviewed) : w.reviewed[i].status # "healthy"

NoAdvice(w) == w.advice = "investigate" /\ w.to = 0 /\ w.target = NoVintage

\* What holds of a report at every stage of its composition.
Composed(w) ==
  /\ DOMAIN w = Fields
  /\ w.chain \in Chain /\ Len(w.chain) >= 1
  /\ w.time >= w.chain[Len(w.chain)].time
  /\ w.reviewed \in Seq(Listed)
  /\ CandidatesOk(w)
  /\ w.next \in Nat /\ w.next <= Len(w.chain) - 1
  /\ \A i \in 1 .. Len(w.reviewed) : w.next < w.reviewed[i].gen

\* A report on its way to the validator.
Sound(w, stage) ==
  /\ stage \in {"opened", "reviewing", "assessed"} => Composed(w)
  /\ stage = "opened" => NoAdvice(w) /\ w.reviewed = <<>>
  /\ stage = "reviewing" =>
       w.failed = {"missing_pay_rate"} /\ NoAdvice(w) /\ NoneHealthy(w)
  /\ stage = "assessed" => AdviceOk(w)

ReportsSound == \A a \in Assessors : Sound(work[a], pc[a])

\* The inductive invariant behind the theorems.
IInv ==
  /\ HistoryOrdered
  /\ DraftsTyped
  /\ ReportsSound
  /\ told \subseteq synced /\ synced \subseteq archive
  /\ \A r \in archive : Recorded(r)
  /\ DOMAIN watch = DOMAIN NoWatch
  /\ watch.stage = "read" => Closed(watch)
  /\ \A w \in reports : Closed(w)

\* A chain that begins the history is the history cut at its length.
LEMMA PrefixCut ==
  ASSUME history \in Chain, NEW c \in Chain, Prefix(c)
  PROVE  c = SubSeq(history, 1, Len(c))
<1>1. Len(c) \in Nat /\ Len(history) \in Nat
  BY DEF Chain
<1>2. \A i \in 1 .. Len(c) : history[i] \in Ledger!Decision
  BY <1>1 DEF Chain, Prefix
<1>3. /\ SubSeq(history, 1, Len(c)) \in Seq(Ledger!Decision)
      /\ Len(SubSeq(history, 1, Len(c))) = Len(c)
      /\ \A i \in 1 .. Len(c) : SubSeq(history, 1, Len(c))[i] = history[i]
  BY <1>1, <1>2, SubSeqProperties, Z3
<1> DEFINE s == SubSeq(history, 1, Len(c))
<1> HIDE DEF s
<1>4. /\ s \in Seq(Ledger!Decision) /\ Len(s) = Len(c)
      /\ \A i \in 1 .. Len(c) : s[i] = c[i]
  BY <1>3 DEF s, Prefix
<1>5. c = s
  BY <1>4, SeqEqual DEF Chain
<1>. QED
  BY <1>5 DEF s

-----------------------------------------------------------------------------
\* How the history moves: a decision at a time nobody has read, or a power loss
\* that records what it takes back.
Decides ==
  \E d \in Ledger!Decision :
    /\ d.time = clock + 1
    /\ history' = Append(history, d)
    /\ clock' = clock + 1 /\ settled' = settled /\ lost' = lost

Loses ==
  \E n \in settled .. Len(history) :
    /\ history' = SubSeq(history, 1, n) /\ settled' = n
    /\ lost' = lost \cup {SubSeq(history, 1, k) : k \in n + 1 .. Len(history)}
    /\ clock' = clock

Rests ==
  /\ history' = history /\ lost' = lost
  /\ settled' = settled \/ settled' = Len(history)
  /\ clock' = clock \/ clock' = clock + 1

LEMMA HistoryMoves == [Next]_vars => Decides \/ Loses \/ Rests
<1> USE DEF ledger, records, environment
<1> SUFFICES ASSUME [Next]_vars PROVE Decides \/ Loses \/ Rests
  OBVIOUS
<1>1. CASE Activate
  BY <1>1 DEF Activate, ReadsClock, Ledger!Decide, Decides
<1>2. CASE LosePower
  BY <1>2 DEF LosePower, Ledger!PowerLoss, Loses
<1>3. CASE \/ FinishActivate \/ AbandonActivate \/ Tamper \/ Repair
           \/ \E outcome \in Outcomes : Refresh(outcome)
           \/ StartAlerts \/ ReadArchive \/ ReportAlerts
           \/ UNCHANGED vars
  BY <1>3
  DEF FinishActivate, Ledger!Settle, AbandonActivate, Tamper, Repair, Refresh,
      StartAlerts, ReadArchive, ReportAlerts, vars, Rests
<1>4. ASSUME NEW a \in Assessors, Assess(a) PROVE Rests
  BY <1>4
  DEF Assess, Begin, ReadsClock, ReadAudits, Review, Record, Dismiss, Tell,
      Interrupt, Rests
<1>. QED
  BY <1>1, <1>2, <1>3, <1>4 DEF Next

\* What a decision adds, and what a power loss leaves.
LEMMA Decided ==
  ASSUME HistoryOrdered, NEW d \in Ledger!Decision, history' = Append(history, d)
  PROVE  /\ history' \in Chain /\ Len(history') = Len(history) + 1
         /\ \A i \in 1 .. Len(history) : history'[i] = history[i]
         /\ history'[Len(history) + 1] = d
<1>1. history \in Seq(Ledger!Decision)
  BY DEF HistoryOrdered, Chain
<1>. QED
  BY <1>1, AppendProperties DEF Chain

LEMMA Cut ==
  ASSUME HistoryOrdered, NEW n \in 0 .. Len(history), history' = SubSeq(history, 1, n)
  PROVE  /\ history' \in Chain /\ Len(history') = n
         /\ \A i \in 1 .. n : history'[i] = history[i]
<1>1. /\ history \in Seq(Ledger!Decision) /\ Len(history) \in Nat
      /\ \A i \in 1 .. n : history[i] \in Ledger!Decision
  BY DEF HistoryOrdered, Chain
<1>2. /\ SubSeq(history, 1, n) \in Seq(Ledger!Decision)
      /\ Len(SubSeq(history, 1, n)) = n
      /\ \A i \in 1 .. n : SubSeq(history, 1, n)[i] = history[i]
  BY <1>1, SubSeqProperties, Z3
<1>. QED
  BY <1>2 DEF Chain

LEMMA HistoryStep == HistoryOrdered /\ [Next]_vars => HistoryOrdered'
<1> SUFFICES ASSUME HistoryOrdered, [Next]_vars PROVE HistoryOrdered'
  OBVIOUS
<1>0. /\ history \in Chain /\ settled \in 0 .. Len(history) /\ clock \in Nat
      /\ Len(history) \in Nat
      /\ \A i \in 1 .. Len(history) :
           /\ history[i].time \in Nat /\ history[i].time <= clock
           /\ \A j \in 1 .. i : history[j].time <= history[i].time
  BY DEF HistoryOrdered, Chain
<1>1. CASE Decides
  <2>1. PICK d \in Ledger!Decision :
          /\ d.time = clock + 1
          /\ history' = Append(history, d)
          /\ clock' = clock + 1 /\ settled' = settled
    BY <1>1 DEF Decides
  <2>2. /\ history' \in Chain /\ Len(history') = Len(history) + 1
        /\ \A i \in 1 .. Len(history) : history'[i] = history[i]
        /\ history'[Len(history) + 1] = d
    BY <2>1, Decided
  <2> DEFINE n == Len(history)
  <2>3. ASSUME NEW i \in 1 .. n + 1
        PROVE  /\ history'[i].time \in Nat /\ history'[i].time <= clock + 1
               /\ \A j \in 1 .. i : history'[j].time <= history'[i].time
    <3>1. CASE i \in 1 .. n
      BY <1>0, <2>2, <3>1
    <3>2. CASE i = n + 1
      <4>1. \A j \in 1 .. n : history'[j].time \in Nat /\ history'[j].time <= clock
        BY <1>0, <2>2
      <4>2. history'[i].time = clock + 1
        BY <2>1, <2>2, <3>2
      <4>3. \A j \in 1 .. i : j \in 1 .. n \/ j = i
        BY <1>0, <3>2
      <4>. QED
        BY <1>0, <4>1, <4>2, <4>3
    <3>. QED
      BY <1>0, <3>1, <3>2
  <2>. QED
    BY <1>0, <2>1, <2>2, <2>3 DEF HistoryOrdered
<1>2. CASE Loses
  <2>1. PICK n \in settled .. Len(history) :
          history' = SubSeq(history, 1, n) /\ settled' = n /\ clock' = clock
    BY <1>2 DEF Loses
  <2>2. n \in 0 .. Len(history)
    BY <1>0, <2>1
  <2>3. /\ history' \in Chain /\ Len(history') = n
        /\ \A i \in 1 .. n : history'[i] = history[i]
    BY <2>1, <2>2, Cut
  <2>. QED
    BY <1>0, <2>1, <2>2, <2>3 DEF HistoryOrdered
<1>3. CASE Rests
  BY <1>0, <1>3 DEF Rests, HistoryOrdered
<1>. QED
  BY <1>1, <1>2, <1>3, HistoryMoves

\* A chain that stands goes on standing until a power loss takes it back.
LEMMA StandingStays ==
  ASSUME HistoryOrdered, [Next]_vars, NEW c, Standing(c)
  PROVE  /\ lost \subseteq lost' /\ Standing(c)'
         /\ c \in lost' \/ (Prefix(c) /\ Prefix(c)')
<1>0. /\ history \in Chain /\ settled \in 0 .. Len(history)
      /\ Len(history) \in Nat /\ c \in Chain /\ Len(c) \in Nat
  BY DEF HistoryOrdered, Chain, Standing
<1>1. CASE Decides
  <2>1. PICK d \in Ledger!Decision : history' = Append(history, d) /\ lost' = lost
    BY <1>1 DEF Decides
  <2>2. /\ history' \in Chain /\ Len(history') = Len(history) + 1
        /\ \A i \in 1 .. Len(history) : history'[i] = history[i]
    BY <2>1, Decided
  <2>3. Prefix(c) => Prefix(c)'
    BY <1>0, <2>2 DEF Prefix
  <2>. QED
    BY <1>0, <2>1, <2>3 DEF Standing, Chain
<1>2. CASE Loses
  <2>1. PICK n \in settled .. Len(history) :
          /\ history' = SubSeq(history, 1, n)
          /\ lost' = lost \cup {SubSeq(history, 1, k) : k \in n + 1 .. Len(history)}
    BY <1>2 DEF Loses
  <2>2. n \in 0 .. Len(history)
    BY <1>0, <2>1
  <2>3. /\ history' \in Chain /\ Len(history') = n
        /\ \A i \in 1 .. n : history'[i] = history[i]
    BY <2>1, <2>2, Cut
  <2>4. Prefix(c) /\ Len(c) <= n => Prefix(c)'
    BY <1>0, <2>2, <2>3 DEF Prefix
  <2>5. Prefix(c) /\ ~(Len(c) <= n) => c \in lost'
    <3>1. SUFFICES ASSUME Prefix(c), ~(Len(c) <= n) PROVE c \in lost'
      OBVIOUS
    <3>2. Len(c) \in n + 1 .. Len(history)
      BY <1>0, <2>2, <3>1 DEF Prefix
    <3>3. c = SubSeq(history, 1, Len(c))
      BY <1>0, <3>1, PrefixCut
    <3>. QED
      BY <2>1, <3>2, <3>3
  <2>. QED
    BY <1>0, <2>1, <2>4, <2>5 DEF Standing, Chain
<1>3. CASE Rests
  BY <1>0, <1>3 DEF Rests, Standing, Prefix, Chain
<1>. QED
  BY <1>1, <1>2, <1>3, HistoryMoves

\* A record goes on saying what it said, and no decision slips in before it.
LEMMA RecordedStays ==
  ASSUME HistoryOrdered, [Next]_vars, NEW r, Recorded(r)
  PROVE  Recorded(r)'
<1>0. /\ history \in Chain /\ settled \in 0 .. Len(history) /\ clock \in Nat
      /\ Len(history) \in Nat /\ r.chain \in Chain /\ Len(r.chain) \in Nat
      /\ r.time \in Nat /\ r.time <= clock /\ Len(r.chain) >= 1
  BY DEF HistoryOrdered, Chain, Recorded
<1>1. clock' \in Nat /\ clock <= clock'
  <2>1. clock' = clock \/ clock' = clock + 1
    BY HistoryMoves DEF Decides, Loses, Rests
  <2>. QED
    BY <1>0, <2>1
<1>2. CandidatesOk(r)' /\ AdviceOk(r)'
  BY DEF Recorded, CandidatesOk, AdviceOk
<1>3. Standing(r.chain)
  BY DEF Recorded, Standing
<1>4. r.chain \in lost' \/ (Prefix(r.chain) /\ Prefix(r.chain)' /\ r.chain \notin lost)
  BY <1>3, StandingStays
<1>5. ASSUME r.chain \notin lost'
      PROVE  /\ r.time >= history'[Len(r.chain)].time
             /\ Len(r.chain) < Len(history') =>
                  r.time < history'[Len(r.chain) + 1].time
  <2>1. /\ Len(r.chain) <= Len(history) /\ Len(r.chain) <= Len(history')
        /\ r.time >= history[Len(r.chain)].time
        /\ Len(r.chain) < Len(history) => r.time < history[Len(r.chain) + 1].time
    BY <1>4, <1>5 DEF Prefix, Recorded
  <2>2. CASE Decides
    <3>1. PICK d \in Ledger!Decision :
            d.time = clock + 1 /\ history' = Append(history, d)
      BY <2>2 DEF Decides
    <3>2. /\ Len(history') = Len(history) + 1
          /\ \A i \in 1 .. Len(history) : history'[i] = history[i]
          /\ history'[Len(history) + 1] = d
      BY <3>1, Decided
    <3>3. CASE Len(r.chain) < Len(history)
      BY <1>0, <2>1, <3>2, <3>3
    <3>4. CASE Len(r.chain) = Len(history)
      BY <1>0, <2>1, <3>1, <3>2, <3>4
    <3>. QED
      BY <1>0, <2>1, <3>3, <3>4
  <2>3. CASE Loses
    <3>1. PICK n \in settled .. Len(history) : history' = SubSeq(history, 1, n)
      BY <2>3 DEF Loses
    <3>2. n \in 0 .. Len(history)
      BY <1>0, <3>1
    <3>3. Len(history') = n /\ \A i \in 1 .. n : history'[i] = history[i]
      BY <3>1, <3>2, Cut
    <3>. QED
      BY <1>0, <2>1, <3>2, <3>3
  <2>4. CASE Rests
    BY <2>1, <2>4 DEF Rests
  <2>. QED
    BY <2>2, <2>3, <2>4, HistoryMoves
<1>6. (r.chain \in lost \/ Prefix(r.chain))'
  BY <1>4
<1>. QED
  BY <1>0, <1>1, <1>2, <1>5, <1>6 DEF Recorded

-----------------------------------------------------------------------------
\* A report of the same release, made at the same time.
SameDraft(w, v) ==
  w.chain = v.chain /\ w.time = v.time /\ DOMAIN w = DOMAIN v

\* Completing a report, or giving it up.
LEMMA Finished ==
  ASSUME pc \in [Assessors -> Stages], DOMAIN work = Assessors,
         NEW a \in Assessors, NEW w, {"chain", "time"} \subseteq DOMAIN w, Finish(a, w)
  PROVE  \/ pc'[a] = "idle"
         \/ pc'[a] = "assessed" /\ SameDraft(work'[a], w)
<1>1. SameDraft([w EXCEPT !.limit = None, !.next = 0], w)
  BY DEF SameDraft
<1>. QED
  BY <1>1 DEF Finish, Idle, Goto

\* Going on with a report keeps its release and its time.
LEMMA Carried ==
  ASSUME pc \in [Assessors -> Stages], DOMAIN work = Assessors,
         NEW a \in Assessors, Drafted(work[a]), ReadAudits(a) \/ Review(a)
  PROVE  \/ pc'[a] = "idle"
         \/ /\ pc'[a] # "linked"
            /\ work'[a].chain = work[a].chain /\ work'[a].time = work[a].time
            /\ DOMAIN work'[a] = DOMAIN work[a]
<1>0. pc \in [Assessors -> Stages] /\ DOMAIN work = Assessors /\ Drafted(work[a])
  OBVIOUS
<1>1. CASE ReadAudits(a)
  <2> DEFINE failed == work[a].failed \cup
               AuditFailures(Ledger!ActiveAfter(work[a].chain), work[a].time)
             advice == IF failed = {} THEN "keep" ELSE work[a].advice
             w == [work[a] EXCEPT !.failed = failed, !.advice = advice]
  <2>1. \/ Goto(a, "reviewing") /\ work' = [work EXCEPT ![a] = w]
        \/ Finish(a, w)
    BY <1>1 DEF ReadAudits
  <2>2. SameDraft(w, work[a])
    BY <1>0 DEF SameDraft, Drafted
  <2> HIDE DEF w
  <2>. QED
    BY <1>0, <2>1, <2>2, Finished DEF SameDraft, Drafted, Goto
<1>2. CASE Review(a)
  <2> DEFINE g == Max(Remaining(work[a]))
             c == Candidate(work[a], g)
             w == [work[a] EXCEPT !.reviewed = Append(work[a].reviewed, c),
                                  !.next = g - 1]
             u == [w EXCEPT !.advice = "review_rollback", !.to = g,
                            !.target = c.vintage]
  <2>1. \/ Finish(a, work[a])
        \/ Finish(a, u)
        \/ work' = [work EXCEPT ![a] = w] /\ UNCHANGED pc /\ pc[a] = "reviewing"
    BY <1>2 DEF Review
  <2>2. SameDraft(w, work[a]) /\ SameDraft(u, work[a])
    BY <1>0 DEF SameDraft, Drafted
  <2>3. SameDraft(work[a], work[a])
    BY DEF SameDraft
  <2> HIDE DEF w, u
  <2>. QED
    BY <1>0, <2>1, <2>2, <2>3, Finished DEF SameDraft, Drafted
<1>. QED
  BY <1>1, <1>2

\* The steps of an assessor leave its report one of a release and a time.
LEMMA DraftsStep ==
  IInv /\ [Next]_vars => DraftsTyped'
<1> USE DEF ledger, records, environment
<1> SUFFICES ASSUME IInv, [Next]_vars PROVE DraftsTyped'
  OBVIOUS
<1>0. /\ history \in Chain /\ clock \in Nat
      /\ pc \in [Assessors -> Stages] /\ DOMAIN work = Assessors
      /\ \A a \in Assessors : pc[a] # "idle" => Drafted(work[a])
      /\ \A a \in Assessors : pc[a] = "linked" => work[a] \in archive
  BY DEF IInv, HistoryOrdered, DraftsTyped
<1>1. clock' \in Nat /\ clock <= clock'
  <2>1. clock' = clock \/ clock' = clock + 1
    BY HistoryMoves DEF Decides, Loses, Rests
  <2>. QED
    BY <1>0, <2>1
<1>2. \A w : Drafted(w) => Drafted(w)'
  BY <1>0, <1>1 DEF Drafted
<1>3. ASSUME NEW a \in Assessors, Assess(a) PROVE DraftsTyped'
  <2>1. archive \subseteq archive'
    BY <1>3 DEF Assess, Begin, ReadAudits, Review, Record, Dismiss, Tell, Interrupt
  <2>2. /\ \A b \in Assessors : b # a => pc'[b] = pc[b] /\ work'[b] = work[b]
        /\ pc' \in [Assessors -> Stages] /\ DOMAIN work' = Assessors
    BY <1>0, <1>3
    DEF Assess, Begin, ReadAudits, Review, Finish, Record, Dismiss, Tell,
        Interrupt, Idle, Goto, Stages
  <2>3. /\ pc'[a] # "idle" => Drafted(work[a])'
        /\ pc'[a] = "linked" => work'[a] \in archive'
    <3>1. ASSUME NEW limit \in PayLimits, Begin(a, limit)
          PROVE  pc'[a] = "opened" /\ Drafted(work[a])'
      <4>1. /\ pc'[a] = "opened" /\ work'[a].chain = history
            /\ work'[a].time = clock' /\ {"chain", "time"} \subseteq DOMAIN work'[a]
        BY <1>0, <3>1 DEF Begin, Goto
      <4>. QED
        BY <1>0, <1>1, <4>1 DEF Drafted
    <3>2. CASE Dismiss(a) \/ Tell(a) \/ Interrupt(a)
      BY <1>0, <3>2 DEF Dismiss, Tell, Interrupt, Idle, Goto
    <3>3. CASE Record(a)
      BY <1>0, <1>1, <3>3 DEF Record, Goto, Drafted
    <3>4. CASE ReadAudits(a) \/ Review(a)
      <4>1. Drafted(work[a])
        BY <1>0, <3>4 DEF ReadAudits, Review
      <4>2. \/ pc'[a] = "idle"
            \/ /\ pc'[a] # "linked"
               /\ work'[a].chain = work[a].chain /\ work'[a].time = work[a].time
               /\ DOMAIN work'[a] = DOMAIN work[a]
        BY <1>0, <3>4, <4>1, Carried
      <4>. QED
        BY <1>0, <1>1, <4>1, <4>2 DEF Drafted
    <3>. QED
      BY <1>3, <3>1, <3>2, <3>3, <3>4 DEF Assess
  <2>. QED
    <3>1. \A b \in Assessors : pc'[b] # "idle" => Drafted(work[b])'
      BY <1>0, <1>1, <2>2, <2>3 DEF Drafted
    <3>2. \A b \in Assessors : pc'[b] = "linked" => work'[b] \in archive'
      BY <1>0, <2>1, <2>2, <2>3
    <3>. QED
      BY <2>2, <3>1, <3>2 DEF DraftsTyped
<1>4. CASE LosePower
  BY <1>0, <1>4 DEF LosePower, DraftsTyped, Stages
<1>5. CASE \/ Activate \/ FinishActivate \/ AbandonActivate
           \/ \E outcome \in Outcomes : Refresh(outcome)
           \/ Tamper \/ Repair \/ StartAlerts \/ ReadArchive \/ ReportAlerts
           \/ UNCHANGED vars
  <2>1. pc' = pc /\ work' = work /\ archive' = archive
    BY <1>5
    DEF Activate, FinishActivate, AbandonActivate, Refresh, Tamper, Repair,
        StartAlerts, ReadArchive, ReportAlerts, vars
  <2>. QED
    BY <1>0, <1>2, <2>1 DEF DraftsTyped
<1>. QED
  BY <1>3, <1>4, <1>5 DEF Next

\* Only record adds to the archive, under the lock and of the active release.
LEMMA ArchiveMoves ==
  ASSUME synced \subseteq archive, [Next]_vars
  PROVE  \/ archive' \subseteq archive
         \/ \E a \in Assessors : Record(a) /\ archive' = archive \cup {work[a]}
<1> USE DEF ledger, records, environment
<1>1. ASSUME NEW a \in Assessors, Assess(a)
      PROVE  archive' \subseteq archive \/ (Record(a) /\ archive' = archive \cup {work[a]})
  BY <1>1 DEF Assess, Begin, ReadAudits, Review, Record, Dismiss, Tell, Interrupt
<1>2. CASE LosePower
  BY <1>2 DEF LosePower
<1>3. CASE \/ Activate \/ FinishActivate \/ AbandonActivate
           \/ \E outcome \in Outcomes : Refresh(outcome)
           \/ Tamper \/ Repair \/ StartAlerts \/ ReadArchive \/ ReportAlerts
           \/ UNCHANGED vars
  BY <1>3
  DEF Activate, FinishActivate, AbandonActivate, Refresh, Tamper, Repair,
      StartAlerts, ReadArchive, ReportAlerts, vars
<1>. QED
  BY <1>1, <1>2, <1>3 DEF Next

LEMMA RecordsStep ==
  IInv /\ [Next]_vars => \A r \in archive' : Recorded(r)'
<1> USE DEF ledger, records, environment
<1> SUFFICES ASSUME IInv, [Next]_vars, NEW r \in archive' PROVE Recorded(r)'
  OBVIOUS
<1>0. HistoryOrdered /\ DraftsTyped /\ synced \subseteq archive
      /\ \A x \in archive : Recorded(x)
  BY DEF IInv
<1>1. ASSUME NEW a \in Assessors, Record(a), r = work[a] PROVE Recorded(r)'
  <2>1. /\ pc[a] # "idle" /\ r.chain = history /\ SampleOk(r)
    BY <1>1 DEF Record
  <2>2. r.chain \in Chain /\ r.time \in Nat /\ r.time <= clock
    BY <1>0, <1>1, <2>1 DEF DraftsTyped, Drafted
  <2>3. /\ Len(r.chain) \in 1 .. Len(history)
        /\ r.time >= history[Len(r.chain)].time
        /\ CandidatesOk(r) /\ AdviceOk(r)
    BY <2>1 DEF SampleOk, BoundTo
  <2>4. Len(history) \in Nat /\ Prefix(r.chain) /\ ~(Len(r.chain) < Len(history))
    BY <1>0, <2>1 DEF HistoryOrdered, Chain, Prefix
  <2>5. Recorded(r)
    BY <2>2, <2>3, <2>4 DEF Recorded
  <2>. QED
    BY <1>0, <2>5, RecordedStays
<1>2. CASE r \in archive
  BY <1>0, <1>2, RecordedStays
<1>. QED
  BY <1>0, <1>1, <1>2, ArchiveMoves

\* What an assessor was told is synced, and what is synced survives.
LEMMA SyncedStep ==
  IInv /\ [Next]_vars => told' \subseteq synced' /\ synced' \subseteq archive'
<1> USE DEF ledger, records, environment
<1> SUFFICES ASSUME IInv, [Next]_vars
             PROVE  told' \subseteq synced' /\ synced' \subseteq archive'
  OBVIOUS
<1>0. /\ told \subseteq synced /\ synced \subseteq archive
      /\ \A a \in Assessors : pc[a] = "linked" => work[a] \in archive
  BY DEF IInv, DraftsTyped
<1>1. ASSUME NEW a \in Assessors, Tell(a)
      PROVE  told' \subseteq synced' /\ synced' \subseteq archive'
  BY <1>0, <1>1 DEF Tell
<1>2. ASSUME NEW a \in Assessors, Assess(a), ~Tell(a)
      PROVE  told' \subseteq synced' /\ synced' \subseteq archive'
  BY <1>0, <1>2 DEF Assess, Begin, ReadAudits, Review, Record, Dismiss, Interrupt
<1>3. CASE LosePower
  BY <1>0, <1>3 DEF LosePower
<1>4. CASE \/ Activate \/ FinishActivate \/ AbandonActivate
           \/ \E outcome \in Outcomes : Refresh(outcome)
           \/ Tamper \/ Repair \/ StartAlerts \/ ReadArchive \/ ReportAlerts
           \/ UNCHANGED vars
  BY <1>0, <1>4
  DEF Activate, FinishActivate, AbandonActivate, Refresh, Tamper, Repair,
      StartAlerts, ReadArchive, ReportAlerts, vars
<1>. QED
  BY <1>1, <1>2, <1>3, <1>4 DEF Next

\* A record that is added names the active release, which no release the
\* observer has read is ahead of.
LEMMA ClosedStays ==
  ASSUME HistoryOrdered, synced \subseteq archive, [Next]_vars, NEW w, Closed(w)
  PROVE  Closed(w)'
<1> USE DEF ledger, records, environment
<1>1. /\ lost \subseteq lost' /\ Standing(w.chain)'
      /\ w.chain \in lost' \/ (Prefix(w.chain) /\ Prefix(w.chain)')
  BY StandingStays DEF Closed
<1>2. ASSUME w.chain \notin lost', NEW r \in archive',
             Len(r.chain) < Len(w.chain), r.chain \notin lost'
      PROVE  r \in w.samples
  <2>1. CASE r \in archive
    BY <1>1, <1>2, <2>1 DEF Closed
  <2>2. ASSUME NEW a \in Assessors, Record(a), r = work[a] PROVE FALSE
    <3>1. r.chain = history /\ Len(w.chain) <= Len(history)
      BY <1>1, <1>2, <2>2 DEF Record, Prefix
    <3>2. Len(history) \in Nat /\ Len(w.chain) \in Nat
      BY DEF HistoryOrdered, Chain, Closed, Standing
    <3>. QED
      BY <1>2, <3>1, <3>2
  <2>. QED
    BY <2>1, <2>2, ArchiveMoves
<1>3. (w.chain \notin lost =>
        {r \in archive : Len(r.chain) < Len(w.chain) /\ r.chain \notin lost}
          \subseteq w.samples)'
  BY <1>2
<1>. QED
  BY <1>1, <1>3 DEF Closed

LEMMA WatchStep ==
  IInv /\ [Next]_vars =>
    /\ DOMAIN watch' = DOMAIN NoWatch
    /\ watch'.stage = "read" => Closed(watch)'
    /\ \A w \in reports' : Closed(w)'
<1> USE DEF ledger, records, environment
<1> SUFFICES ASSUME IInv, [Next]_vars
             PROVE  /\ DOMAIN watch' = DOMAIN NoWatch
                    /\ watch'.stage = "read" => Closed(watch)'
                    /\ \A w \in reports' : Closed(w)'
  OBVIOUS
<1>0. /\ HistoryOrdered /\ synced \subseteq archive
      /\ DOMAIN watch = DOMAIN NoWatch
      /\ watch.stage = "read" => Closed(watch)
      /\ \A w \in reports : Closed(w)
  BY DEF IInv
<1>1. \A w : Closed(w) => Closed(w)'
  BY <1>0, ClosedStays
<1>2. watch' = watch => (watch.stage = "read" => Closed(watch)')
  BY <1>0, <1>1 DEF Closed, Standing, Prefix
<1>3. DOMAIN NoWatch = {"stage", "time", "chain", "samples"} /\ NoWatch.stage = "idle"
  BY DEF NoWatch
<1>4. CASE ReadArchive
  <2>1. reports' = reports
    BY <1>4 DEF ReadArchive
  <2>2. CASE watch' = NoWatch
    BY <1>0, <1>1, <1>3, <2>1, <2>2
  <2>3. CASE watch' = [watch EXCEPT !.stage = "read", !.chain = history,
                                    !.samples = archive]
    <3>1. /\ watch'.chain = history /\ watch'.samples = archive
          /\ DOMAIN watch' = DOMAIN NoWatch
      BY <1>0, <1>3, <2>3
    <3>2. history' = history /\ lost' = lost /\ archive' = archive
      BY <1>4 DEF ReadArchive
    <3>3. Standing(watch.chain)'
      BY <1>0, <3>1, <3>2 DEF HistoryOrdered, Chain, Standing, Prefix
    <3>4. Closed(watch)'
      BY <3>1, <3>2, <3>3 DEF Closed
    <3>. QED
      BY <1>0, <1>1, <2>1, <3>1, <3>4
  <2>. QED
    BY <1>4, <2>2, <2>3 DEF ReadArchive
<1>5. CASE ReportAlerts
  <2>1. watch' = NoWatch /\ watch.stage = "read" /\ reports' \subseteq reports \cup {watch}
    BY <1>5 DEF ReportAlerts
  <2>. QED
    BY <1>0, <1>1, <1>3, <2>1
<1>6. CASE StartAlerts \/ LosePower
  <2>1. reports' = reports
    BY <1>6 DEF StartAlerts, LosePower
  <2>2. DOMAIN watch' = DOMAIN NoWatch /\ watch'.stage # "read"
    BY <1>3, <1>6 DEF StartAlerts, LosePower
  <2>. QED
    BY <1>0, <1>1, <2>1, <2>2
<1>7. CASE \/ Activate \/ FinishActivate \/ AbandonActivate
           \/ \E outcome \in Outcomes : Refresh(outcome)
           \/ Tamper \/ Repair
           \/ \E a \in Assessors : Assess(a)
           \/ UNCHANGED vars
  <2>1. watch' = watch /\ reports' = reports
    BY <1>7
    DEF Activate, FinishActivate, AbandonActivate, Refresh, Tamper, Repair,
        Assess, Begin, ReadAudits, Review, Record, Dismiss, Tell, Interrupt, vars
  <2>. QED
    BY <1>0, <1>1, <1>2, <2>1
<1>. QED
  BY <1>4, <1>5, <1>6, <1>7 DEF Next

-----------------------------------------------------------------------------
\* The data failures and the audit failures are checks of the monitor.
LEMMA FailuresAreChecks ==
  ASSUME NEW v, NEW t, NEW limit
  PROVE  Failures(v, t, limit) \subseteq Checks
<1>1. "curation_integrity" \in Checks
  BY DEF Checks
<1>2. DataFailures(v, t, limit) \subseteq Checks
  BY <1>1 DEF DataFailures
<1>3. AuditFailures(v, t) \subseteq Checks
  BY DEF AuditFailures
<1>. QED
  BY <1>2, <1>3 DEF Failures

\* The verdicts on a report depend on these fields alone.
LEMMA SameVerdicts ==
  ASSUME NEW u, NEW w, u.chain = w.chain, u.reviewed = w.reviewed
  PROVE  /\ CandidatesOk(w) => CandidatesOk(u)
         /\ ( /\ u.failed = w.failed /\ u.advice = w.advice
              /\ u.to = w.to /\ u.target = w.target ) => (AdviceOk(w) => AdviceOk(u))
<1>1. CandidatesOk(w) => CandidatesOk(u)
  BY Zenon DEF CandidatesOk
<1>2. ASSUME u.failed = w.failed, u.advice = w.advice,
             u.to = w.to, u.target = w.target
      PROVE  AdviceOk(w) => AdviceOk(u)
  BY <1>2, Zenon DEF AdviceOk
<1>. QED
  BY <1>1, <1>2

\* The report that is completed is as sound as the one handed in.
LEMMA FinishedSound ==
  ASSUME pc \in [Assessors -> Stages], DOMAIN work = Assessors,
         NEW a \in Assessors, NEW w, Composed(w), AdviceOk(w), Finish(a, w)
  PROVE  Sound(work'[a], pc'[a])
<1>1. CASE pc'[a] = "idle"
  BY <1>1 DEF Sound
<1>2. CASE pc'[a] # "idle"
  <2> DEFINE u == [w EXCEPT !.limit = None, !.next = 0]
  <2>1. pc'[a] = "assessed" /\ work'[a] = u
    BY <1>2 DEF Finish, Idle, Goto
  <2>2. /\ DOMAIN u = Fields /\ u.next = 0
        /\ u.chain = w.chain /\ u.time = w.time /\ u.reviewed = w.reviewed
        /\ u.failed = w.failed /\ u.advice = w.advice /\ u.to = w.to
        /\ u.target = w.target
    BY DEF Composed, Fields
  <2> HIDE DEF u
  <2>3. Len(w.chain) \in Nat /\ DOMAIN w.reviewed = 1 .. Len(w.reviewed)
    BY DEF Composed, Chain
  <2>4. AdviceOk(u) /\ CandidatesOk(u)
    BY <2>2, SameVerdicts DEF Composed
  <2>5. \A i \in 1 .. Len(w.reviewed) : 0 < w.reviewed[i].gen
    <3>1. \A i \in DOMAIN w.reviewed : w.reviewed[i].gen \in 1 .. Len(w.chain) - 1
      BY Zenon DEF Composed, CandidatesOk
    <3>. QED
      BY <2>3, <3>1
  <2>6. Composed(u)
    BY <2>2, <2>3, <2>4, <2>5 DEF Composed
  <2>. QED
    BY <2>1, <2>4, <2>6 DEF Sound
<1>. QED
  BY <1>1, <1>2

\* A report with no candidates, or none that is healthy, advises no rollback.
LEMMA NoRollbackAdvised ==
  ASSUME NEW w, w.reviewed \in Seq(Listed), NoneHealthy(w),
         w.to = 0, w.target = NoVintage, w.advice # "review_rollback",
         w.failed = {} <=> w.advice = "keep", w.advice = "keep" => w.reviewed = <<>>
  PROVE  AdviceOk(w)
<1>1. DOMAIN w.reviewed = 1 .. Len(w.reviewed)
  OBVIOUS
<1>2. {w.reviewed[i].gen : i \in {j \in DOMAIN w.reviewed :
                                    w.reviewed[j].status = "healthy"}} = {}
  BY <1>1 DEF NoneHealthy
<1>. QED
  BY <1>2 DEF AdviceOk

LEMMA BeginSound ==
  ASSUME HistoryOrdered, DraftsTyped, NEW a \in Assessors, NEW limit, Begin(a, limit)
  PROVE  Sound(work'[a], pc'[a])
<1>0. /\ history \in Chain /\ history # <<>> /\ Len(history) \in Nat
      /\ clock \in Nat /\ clock' = clock + 1
      /\ \A i \in 1 .. Len(history) :
           history[i].time \in Nat /\ history[i].time <= clock
  BY DEF HistoryOrdered, Begin, ReadsClock, Chain
<1>1. Len(history) >= 1
  BY <1>0 DEF Chain
<1> DEFINE w == work'[a]
<1>2. /\ pc'[a] = "opened" /\ DOMAIN w = Fields
      /\ w.chain = history /\ w.time = clock' /\ w.advice = "investigate"
      /\ w.to = 0 /\ w.target = NoVintage /\ w.reviewed = <<>>
      /\ w.next = Len(history) - 1
  BY DEF DraftsTyped, Begin, Goto, Fields
<1> HIDE DEF w
<1>3. w.time >= w.chain[Len(w.chain)].time
  BY <1>0, <1>1, <1>2
<1>4. /\ w.reviewed \in Seq(Listed) /\ Len(w.reviewed) = 0
      /\ DOMAIN w.reviewed = {}
  BY <1>2
<1>5. CandidatesOk(w)
  BY <1>4 DEF CandidatesOk
<1>6. Composed(w)
  BY <1>0, <1>1, <1>2, <1>3, <1>4, <1>5 DEF Composed
<1>. QED
  BY <1>2, <1>6 DEF Sound, NoAdvice, w

LEMMA ReadAuditsSound ==
  ASSUME DraftsTyped, NEW a \in Assessors, Sound(work[a], pc[a]), ReadAudits(a)
  PROVE  Sound(work'[a], pc'[a])
<1>0. pc \in [Assessors -> Stages] /\ DOMAIN work = Assessors
  BY DEF DraftsTyped
<1> DEFINE v == work[a]
           failed == v.failed \cup AuditFailures(Ledger!ActiveAfter(v.chain), v.time)
           advice == IF failed = {} THEN "keep" ELSE v.advice
           w == [v EXCEPT !.failed = failed, !.advice = advice]
<1>1. Composed(v) /\ NoAdvice(v) /\ v.reviewed = <<>>
  BY DEF ReadAudits, Sound
<1>2. IF failed = {"missing_pay_rate"}
      THEN Goto(a, "reviewing") /\ work' = [work EXCEPT ![a] = w]
      ELSE Finish(a, w)
  BY DEF ReadAudits
<1>3. /\ DOMAIN w = Fields
      /\ w.chain = v.chain /\ w.time = v.time /\ w.reviewed = v.reviewed
      /\ w.next = v.next /\ w.to = v.to /\ w.target = v.target
      /\ w.failed = failed /\ w.advice = advice
  BY <1>1 DEF Composed, Fields
<1> HIDE DEF w
<1>4. CandidatesOk(w)
  BY <1>1, <1>3 DEF Composed, CandidatesOk
<1>5. Composed(w)
  BY <1>1, <1>3, <1>4 DEF Composed
<1>6. NoneHealthy(w)
  BY <1>1, <1>3 DEF NoneHealthy
<1>7. CASE failed = {"missing_pay_rate"}
  <2>1. pc'[a] = "reviewing" /\ work'[a] = w
    BY <1>0, <1>2, <1>7 DEF Goto
  <2>2. NoAdvice(w) /\ w.failed = {"missing_pay_rate"}
    BY <1>1, <1>3, <1>7 DEF NoAdvice
  <2>. QED
    BY <1>5, <1>6, <2>1, <2>2 DEF Sound
<1>8. CASE failed # {"missing_pay_rate"}
  <2>1. AdviceOk(w)
    BY <1>1, <1>3, <1>5, <1>6, NoRollbackAdvised DEF NoAdvice, Composed
  <2>. QED
    BY <1>0, <1>2, <1>5, <1>8, <2>1, FinishedSound
<1>. QED
  BY <1>7, <1>8

\* The candidate that is reviewed next goes to the end of the list.
LEMMA CandidateListed ==
  ASSUME NEW v, Composed(v), NEW g \in Remaining(v), NEW c \in Listed,
         c.gen = g, c.vintage = v.chain[g].vintage,
         c.failed # {} <=> c.status = "unhealthy",
         NEW w, DOMAIN w = Fields, w.chain = v.chain, w.time = v.time,
         w.reviewed = Append(v.reviewed, c), w.next = g - 1
  PROVE  Composed(w)
<1> DEFINE n == Len(v.reviewed)
<1>1. /\ v.reviewed \in Seq(Listed) /\ n \in Nat /\ DOMAIN v.reviewed = 1 .. n
      /\ v.chain \in Chain /\ Len(v.chain) \in Nat
      /\ v.next \in Nat /\ v.next <= Len(v.chain) - 1
      /\ \A i \in 1 .. n : v.next < v.reviewed[i].gen /\ v.reviewed[i].gen \in Nat
  <2>1. v.reviewed \in Seq(Listed) /\ v.chain \in Chain
    BY DEF Composed
  <2>2. \A i \in 1 .. n : v.reviewed[i].gen \in Nat
    <3>1. \A i \in 1 .. n : v.reviewed[i] \in Listed
      BY <2>1
    <3>2. \A x \in Listed : x.gen \in Nat
      BY DEF Listed
    <3>. QED
      BY <3>1, <3>2
  <2>. QED
    BY <2>1, <2>2 DEF Composed, Chain
<1>2. /\ g \in 1 .. v.next /\ v.chain[g].vintage # Ledger!ActiveAfter(v.chain)
      /\ \A i \in 1 .. n : v.reviewed[i].vintage # v.chain[g].vintage
  BY <1>1 DEF Remaining
<1>3. /\ w.reviewed \in Seq(Listed) /\ Len(w.reviewed) = n + 1
      /\ DOMAIN w.reviewed = 1 .. n + 1
      /\ \A i \in 1 .. n : w.reviewed[i] = v.reviewed[i]
      /\ w.reviewed[n + 1] = c
  BY <1>1, AppendProperties
<1> HIDE DEF n
<1>4. ASSUME NEW i \in 1 .. n
      PROVE  /\ v.reviewed[i].gen \in 1 .. Len(v.chain) - 1
             /\ i > 1 => v.reviewed[i].gen < v.reviewed[i - 1].gen
             /\ v.reviewed[i].vintage = v.chain[v.reviewed[i].gen].vintage
             /\ v.reviewed[i].vintage # Ledger!ActiveAfter(v.chain)
             /\ \A j \in 1 .. i - 1 : v.reviewed[j].vintage # v.reviewed[i].vintage
             /\ v.reviewed[i].failed # {} <=> v.reviewed[i].status = "unhealthy"
  BY <1>1 DEF Composed, CandidatesOk
<1>5. ASSUME NEW i \in 1 .. n + 1
      PROVE  /\ w.reviewed[i].gen \in 1 .. Len(w.chain) - 1
             /\ i > 1 => w.reviewed[i].gen < w.reviewed[i - 1].gen
             /\ w.reviewed[i].vintage = w.chain[w.reviewed[i].gen].vintage
             /\ w.reviewed[i].vintage # Ledger!ActiveAfter(w.chain)
             /\ \A j \in 1 .. i - 1 : w.reviewed[j].vintage # w.reviewed[i].vintage
             /\ w.reviewed[i].failed # {} <=> w.reviewed[i].status = "unhealthy"
  <2>1. CASE i \in 1 .. n
    <3>1. \A j \in 1 .. i - 1 : j \in 1 .. n
      BY <1>1, <2>1
    <3>2. i > 1 => i - 1 \in 1 .. n
      BY <1>1, <2>1
    <3>. QED
      BY <1>3, <1>4, <2>1, <3>1, <3>2
  <2>2. CASE i = n + 1
    <3>1. w.reviewed[i] = c /\ c.gen \in 1 .. Len(w.chain) - 1
      BY <1>1, <1>2, <1>3, <2>2
    <3>2. i > 1 => c.gen < w.reviewed[i - 1].gen
      <4>1. i > 1 => i - 1 = n /\ n \in 1 .. n
        BY <1>1, <2>2
      <4>. QED
        BY <1>1, <1>2, <1>3, <4>1
    <3>3. \A j \in 1 .. i - 1 : w.reviewed[j].vintage # c.vintage
      BY <1>1, <1>2, <1>3, <2>2
    <3>. QED
      BY <1>2, <3>1, <3>2, <3>3
  <2>. QED
    BY <1>1, <2>1, <2>2
<1>6. CandidatesOk(w)
  BY <1>3, <1>5 DEF CandidatesOk
<1>7. w.next \in Nat /\ w.next <= Len(w.chain) - 1
  BY <1>1, <1>2
<1>8. \A i \in 1 .. n + 1 : w.next < w.reviewed[i].gen
  BY <1>1, <1>2, <1>3
<1>. QED
  BY <1>1, <1>3, <1>6, <1>7, <1>8 DEF Composed

\* The candidate that is reviewed next: the newest that remains.
LEMMA NextCandidate ==
  ASSUME NEW v, Composed(v), Remaining(v) # {}
  PROVE  LET g == Max(Remaining(v))
             c == Candidate(v, g)
         IN  /\ g \in Remaining(v) /\ g \in Nat /\ g \in 1 .. Len(v.chain)
             /\ c \in Listed /\ c.gen = g /\ c.vintage = v.chain[g].vintage
             /\ c.failed # {} <=> c.status = "unhealthy"
<1> DEFINE g == Max(Remaining(v))
           c == Candidate(v, g)
<1>1. /\ v.next \in Nat /\ v.next <= Len(v.chain) - 1
      /\ v.chain \in Chain /\ Len(v.chain) \in Nat
  BY DEF Composed, Chain
<1>2. g \in Remaining(v)
  <2>1. Remaining(v) \in SUBSET Nat /\ \A x \in Remaining(v) : x <= v.next
    BY <1>1 DEF Remaining
  <2>. QED
    BY <1>1, <2>1, LargestBelow
<1>3. g \in Nat /\ g \in 1 .. Len(v.chain)
  <2>1. \A x \in Remaining(v) : x \in Nat /\ x \in 1 .. v.next
    BY <1>1 DEF Remaining
  <2> HIDE DEF g
  <2>. QED
    BY <1>1, <1>2, <2>1
<1>4. /\ c \in Listed /\ c.gen = g /\ c.vintage = v.chain[g].vintage
      /\ c.failed # {} <=> c.status = "unhealthy"
  <2>1. v.chain[g].vintage \in Vintages
    <3>1. \A x \in Ledger!Decision : x.vintage \in Vintages
      BY DEF Ledger!Decision
    <3> HIDE DEF g
    <3>2. v.chain[g] \in Ledger!Decision
      BY <1>1, <1>3 DEF Chain
    <3>. QED
      BY <3>1, <3>2
  <2> DEFINE failed == IF Plannable(v.chain, g)
                       THEN Failures(v.chain[g].vintage, v.time, v.limit) ELSE {}
             status == IF ~Plannable(v.chain, g) THEN "unverifiable"
                       ELSE IF failed = {} THEN "healthy" ELSE "unhealthy"
  <2>2. failed \subseteq Checks
    BY FailuresAreChecks
  <2>3. failed # {} <=> status = "unhealthy"
    OBVIOUS
  <2>4. status \in {"healthy", "unhealthy", "unverifiable"}
    OBVIOUS
  <2>5. c = [gen |-> g, vintage |-> v.chain[g].vintage, failed |-> failed,
             status |-> status]
    BY DEF Candidate
  <2> HIDE DEF failed, status, g, c
  <2>. QED
    BY <1>3, <2>1, <2>2, <2>3, <2>4, <2>5 DEF Listed
<1>. QED
  BY <1>2, <1>3, <1>4

LEMMA ReviewSound ==
  ASSUME DraftsTyped, NEW a \in Assessors, Sound(work[a], pc[a]), Review(a)
  PROVE  Sound(work'[a], pc'[a])
<1>0. pc \in [Assessors -> Stages] /\ DOMAIN work = Assessors
  BY DEF DraftsTyped
<1> DEFINE v == work[a]
           g == Max(Remaining(v))
           c == Candidate(v, g)
           w == [v EXCEPT !.reviewed = Append(v.reviewed, c), !.next = g - 1]
           u == [w EXCEPT !.advice = "review_rollback", !.to = g,
                          !.target = c.vintage]
<1>1. /\ Composed(v) /\ NoAdvice(v) /\ NoneHealthy(v)
      /\ v.failed = {"missing_pay_rate"} /\ pc[a] = "reviewing"
  BY DEF Review, Sound
<1>2. /\ Remaining(v) = {} => Finish(a, v)
      /\ Remaining(v) # {} =>
           IF c.status = "healthy" THEN Finish(a, u)
           ELSE work' = [work EXCEPT ![a] = w] /\ UNCHANGED pc
  BY DEF Review
<1>3. CASE Remaining(v) = {}
  <2>1. AdviceOk(v)
    BY <1>1, NoRollbackAdvised DEF NoAdvice, Composed
  <2>. QED
    BY <1>0, <1>1, <1>2, <1>3, <2>1, FinishedSound
<1>4. CASE Remaining(v) # {}
  <2>2. g \in Remaining(v)
    BY <1>1, <1>4, NextCandidate
  <2>4. /\ c \in Listed /\ c.gen = g /\ c.vintage = v.chain[g].vintage
        /\ c.failed # {} <=> c.status = "unhealthy"
    BY <1>1, <1>4, NextCandidate
  <2>5. DOMAIN v = Fields
    BY <1>1 DEF Composed
  <2> HIDE DEF g, c
  <2>6. /\ DOMAIN w = Fields /\ w.chain = v.chain /\ w.time = v.time
        /\ w.reviewed = Append(v.reviewed, c) /\ w.next = g - 1
        /\ w.failed = v.failed /\ NoAdvice(w)
    BY <1>1, <2>5 DEF Fields, NoAdvice
  <2>7. /\ DOMAIN u = Fields /\ u.chain = v.chain /\ u.time = v.time
        /\ u.reviewed = Append(v.reviewed, c) /\ u.next = g - 1
        /\ u.failed = v.failed /\ u.advice = "review_rollback" /\ u.to = g
        /\ u.target = c.vintage
    BY <2>5 DEF Fields
  <2> HIDE DEF w, u
  <2>8. Composed(w) /\ Composed(u)
    BY <1>1, <2>2, <2>4, <2>6, <2>7, CandidateListed
  <2>9. LET n == Len(v.reviewed) IN
          /\ n \in Nat /\ Len(Append(v.reviewed, c)) = n + 1
          /\ DOMAIN Append(v.reviewed, c) = 1 .. n + 1
          /\ \A i \in 1 .. n : Append(v.reviewed, c)[i] = v.reviewed[i]
          /\ Append(v.reviewed, c)[n + 1] = c
    BY <1>1, <2>4, AppendProperties DEF Composed
  <2>10. CASE c.status = "healthy"
    <3>1. g \in {u.reviewed[i].gen : i \in {j \in DOMAIN u.reviewed :
                                              u.reviewed[j].status = "healthy"}}
      BY <2>4, <2>7, <2>9, <2>10
    <3>2. AdviceOk(u)
      BY <1>1, <2>4, <2>7, <3>1 DEF AdviceOk
    <3>. QED
      BY <1>0, <1>2, <1>4, <2>8, <2>10, <3>2, FinishedSound
  <2>11. CASE c.status # "healthy"
    <3>1. \A i \in 1 .. Len(w.reviewed) : w.reviewed[i].status # "healthy"
      BY <1>1, <2>6, <2>9, <2>11 DEF NoneHealthy
    <3>2. work'[a] = w /\ pc'[a] = "reviewing"
      BY <1>0, <1>1, <1>2, <1>4, <2>11
    <3>. QED
      BY <1>1, <2>6, <2>8, <3>1, <3>2 DEF Sound, NoneHealthy
  <2>. QED
    BY <2>10, <2>11
<1>. QED
  BY <1>3, <1>4

LEMMA SoundStep ==
  IInv /\ [Next]_vars => ReportsSound'
<1> USE DEF ledger, records, environment
<1> SUFFICES ASSUME IInv, [Next]_vars, NEW a \in Assessors
             PROVE  Sound(work'[a], pc'[a])
  BY DEF ReportsSound, Sound
<1>0. HistoryOrdered /\ DraftsTyped /\ Sound(work[a], pc[a])
  BY DEF IInv, ReportsSound
<1>1. pc'[a] \in {"idle", "linked"} => Sound(work'[a], pc'[a])
  BY DEF Sound
<1>2. ASSUME NEW b \in Assessors, Assess(b) PROVE Sound(work'[a], pc'[a])
  <2>1. CASE b = a
    <3>1. ASSUME NEW limit \in PayLimits, Begin(a, limit) PROVE Sound(work'[a], pc'[a])
      BY <1>0, <3>1, BeginSound
    <3>2. CASE ReadAudits(a)
      BY <1>0, <3>2, ReadAuditsSound
    <3>3. CASE Review(a)
      BY <1>0, <3>3, ReviewSound
    <3>4. CASE Record(a) \/ Dismiss(a) \/ Tell(a) \/ Interrupt(a)
      <4>1. pc'[a] \in {"idle", "linked"}
        BY <1>0, <3>4 DEF Record, Dismiss, Tell, Interrupt, Idle, Goto, DraftsTyped
      <4>. QED
        BY <1>1, <4>1
    <3>. QED
      BY <1>2, <2>1, <3>1, <3>2, <3>3, <3>4 DEF Assess
  <2>2. CASE b # a
    <3>1. pc'[a] = pc[a] /\ work'[a] = work[a]
      BY <1>0, <1>2, <2>2
      DEF Assess, Begin, ReadAudits, Review, Finish, Record, Dismiss, Tell,
          Interrupt, Idle, Goto, DraftsTyped
    <3>. QED
      BY <1>0, <3>1
  <2>. QED
    BY <2>1, <2>2
<1>3. CASE LosePower
  <2>1. pc'[a] = "idle"
    BY <1>3 DEF LosePower
  <2>. QED
    BY <1>1, <2>1
<1>4. CASE \/ Activate \/ FinishActivate \/ AbandonActivate
           \/ \E outcome \in Outcomes : Refresh(outcome)
           \/ Tamper \/ Repair \/ StartAlerts \/ ReadArchive \/ ReportAlerts
           \/ UNCHANGED vars
  <2>1. pc' = pc /\ work' = work
    BY <1>4
    DEF Activate, FinishActivate, AbandonActivate, Refresh, Tamper, Repair,
        StartAlerts, ReadArchive, ReportAlerts, vars
  <2>. QED
    BY <1>0, <2>1
<1>. QED
  BY <1>2, <1>3, <1>4 DEF Next

LEMMA Invariance == Spec => []IInv
<1>1. Init => IInv
  <2>1. Init => HistoryOrdered
    BY BoundsAssumption DEF Init, HistoryOrdered, Chain
  <2>2. Init => DraftsTyped
    BY DEF Init, DraftsTyped, Stages
  <2>3. Init => ReportsSound
    BY DEF Init, ReportsSound, Sound
  <2>. QED
    BY <2>1, <2>2, <2>3 DEF Init, IInv, NoWatch
<1>2. IInv /\ [Next]_vars => IInv'
  BY HistoryStep, DraftsStep, SoundStep, RecordsStep, SyncedStep, WatchStep DEF IInv
<1>. QED
  BY <1>1, <1>2, PTL DEF Spec

-----------------------------------------------------------------------------
\* Once alerts are reported for a release, the assessments of earlier ones gain
\* no record, and what is recorded of one release is older than what is recorded
\* of the next: record holds the lock of the release writer.
THEOREM BaselineStaysFinal == Spec => []BaselineIsFinal
<1>1. ASSUME IInv PROVE BaselineIsFinal
  <2>1. \A w \in {x \in reports : x.chain \notin lost} :
          {r \in archive : Len(r.chain) < Len(w.chain) /\ r.chain \notin lost}
            \subseteq w.samples
    BY <1>1 DEF IInv, Closed
  <2>2. ASSUME NEW r \in archive, r.chain \notin lost,
               NEW s \in archive, s.chain \notin lost,
               r.time < s.time
        PROVE  Len(r.chain) <= Len(s.chain)
    <3> SUFFICES ASSUME Len(s.chain) < Len(r.chain) PROVE FALSE
      <4>1. Len(s.chain) \in Nat /\ Len(r.chain) \in Nat
        BY <1>1 DEF IInv, Recorded, Chain
      <4>. QED
        BY <4>1
    <3>1. /\ Recorded(r) /\ Recorded(s)
      BY <1>1 DEF IInv
    <3>2. /\ Len(s.chain) \in Nat /\ Len(r.chain) \in Nat /\ Len(history) \in Nat
          /\ r.time \in Nat /\ s.time \in Nat
      BY <1>1, <3>1 DEF IInv, Recorded, HistoryOrdered, Chain
    <3>3. /\ Len(r.chain) <= Len(history)
          /\ r.time >= history[Len(r.chain)].time
          /\ s.time < history[Len(s.chain) + 1].time
      BY <2>2, <3>1, <3>2 DEF Recorded, Prefix
    <3>4. /\ history[Len(s.chain) + 1].time <= history[Len(r.chain)].time
          /\ history[Len(s.chain) + 1].time \in Nat
          /\ history[Len(r.chain)].time \in Nat
      BY <1>1, <3>2, <3>3 DEF IInv, HistoryOrdered
    <3>. QED
      BY <2>2, <3>2, <3>3, <3>4
  <2>. QED
    BY <2>1, <2>2 DEF BaselineIsFinal
<1>. QED
  BY <1>1, Invariance, PTL


\* The assessor and the validator of the archive agree: whatever happened while
\* it was composed, a report of the release that is still active is one trends
\* accept, and what they accepted once they accept for good, and keep when its
\* SHA-256 was returned, unless a power loss took back the decision it names.
THEOREM ArchiveAlwaysVerifies == Spec => []ArchiveVerifies
<1>1. ASSUME IInv, NEW r \in archive, r.chain \notin lost PROVE SampleOk(r)
  <2>1. Recorded(r) /\ history \in Chain
    BY <1>1 DEF IInv, HistoryOrdered
  <2>2. r.chain = SubSeq(history, 1, Len(r.chain))
    BY <1>1, <2>1, PrefixCut DEF Recorded
  <2>3. Len(r.chain) \in 1 .. Len(history)
    BY <1>1, <2>1 DEF Recorded, Prefix, Chain
  <2>. QED
    BY <1>1, <2>1, <2>2, <2>3 DEF SampleOk, BoundTo, Recorded
<1>2. ASSUME IInv, NEW a \in Assessors, pc[a] = "assessed", history = work[a].chain
      PROVE  SampleOk(work[a])
  <2> DEFINE r == work[a]
  <2>1. Composed(r) /\ AdviceOk(r) /\ Drafted(r)
    BY <1>2 DEF IInv, ReportsSound, Sound, DraftsTyped
  <2>2. /\ r.chain = history /\ history \in Chain /\ Len(history) \in Nat
        /\ Len(history) >= 1 /\ r.time >= history[Len(history)].time
        /\ r.time <= clock /\ CandidatesOk(r)
    BY <1>2, <2>1 DEF Composed, Drafted, Chain
  <2>3. Prefix(r.chain)
    BY <2>2 DEF Prefix
  <2>4. r.chain = SubSeq(history, 1, Len(r.chain))
    BY <2>2, <2>3, PrefixCut
  <2> HIDE DEF r
  <2>5. BoundTo(r, history)
    BY <2>2, <2>4 DEF BoundTo
  <2>. QED
    BY <2>1, <2>2, <2>5 DEF SampleOk, r
<1>3. IInv => ArchiveVerifies
  BY <1>1, <1>2 DEF IInv, ArchiveVerifies
<1>. QED
  BY <1>3, Invariance, PTL

-----------------------------------------------------------------------------
\* An assessor that idles works on nothing; any other on a report begun at a
\* time the clock has shown.
AtWork(a) ==
  IF pc[a] = "idle" THEN work[a] = NoWork
  ELSE work[a] \in Report /\ work[a].time <= clock

LEMMA ListedAreReviewed == Listed = ReviewedCandidate
BY DEF Listed, ReviewedCandidate

\* The release that is active after some decisions is a vintage.
LEMMA ActiveIsVintage ==
  ASSUME NEW c \in Chain, c # <<>>
  PROVE  Ledger!ActiveAfter(c) \in Vintages
<1>1. Len(c) \in 1 .. Len(c) /\ c[Len(c)] \in Ledger!Decision
  BY DEF Chain
<1>. QED
  BY <1>1 DEF Ledger!ActiveAfter, Ledger!Decision

LEMMA FinishedTyped ==
  ASSUME pc \in [Assessors -> Stages], DOMAIN work = Assessors, clock' = clock,
         NEW a \in Assessors, NEW w \in Report, w.time <= clock, Finish(a, w)
  PROVE  AtWork(a)'
<1>1. CASE history = w.chain
  <2> DEFINE u == [w EXCEPT !.limit = None, !.next = 0]
  <2>1. u \in Report /\ u.time = w.time
    BY DEF Report, Limit
  <2>2. pc'[a] = "assessed" /\ work'[a] = u
    BY <1>1 DEF Finish, Goto
  <2>. QED
    BY <2>1, <2>2 DEF AtWork
<1>2. CASE history # w.chain
  BY <1>2 DEF Finish, Idle, Goto, AtWork
<1>. QED
  BY <1>1, <1>2

LEMMA BeginTyped ==
  ASSUME IInv, TypeOK, NEW a \in Assessors, NEW limit \in PayLimits, Begin(a, limit)
  PROVE  AtWork(a)'
<1>0. /\ pc \in [Assessors -> Stages] /\ DOMAIN work = Assessors
      /\ history \in Chain /\ history # <<>> /\ Len(history) \in Nat
      /\ clock \in 0 .. MaxClock /\ clock < MaxClock /\ clock' = clock + 1
      /\ MaxClock \in Nat
  BY BoundsAssumption DEF IInv, DraftsTyped, TypeOK, Begin, ReadsClock, Chain
<1>1. Len(history) - 1 \in Nat
  BY <1>0 DEF Chain
<1>2. clock' \in 1 .. MaxClock
  BY <1>0
<1>3. limit \in Limit
  BY LimitsAssumption DEF Limit
<1>4. ActiveVintage \in Vintages
  BY <1>0, ActiveIsVintage DEF ActiveVintage
<1> DEFINE missing == IF ~trusted THEN None ELSE MissingPay[ActiveVintage]
           failed == DataFailures(ActiveVintage, clock', limit)
<1>5. missing \in Limit
  BY <1>4, LimitsAssumption DEF Limit
<1>6. failed \in SUBSET Checks
  <2>1. failed \subseteq Failures(ActiveVintage, clock', limit)
    BY DEF Failures
  <2>. QED
    BY <2>1, FailuresAreChecks
<1>7. pc'[a] = "opened"
  BY <1>0 DEF Begin, Goto
<1>8. work'[a] =
        [chain |-> history, time |-> clock', limit |-> limit, failed |-> failed,
         missing |-> missing, advice |-> "investigate", to |-> 0, target |-> NoVintage,
         reviewed |-> <<>>, next |-> Len(history) - 1]
  BY <1>0 DEF Begin
<1> HIDE DEF missing, failed
<1>9. work'[a] \in Report /\ work'[a].time = clock'
  BY <1>0, <1>1, <1>2, <1>3, <1>5, <1>6, <1>8 DEF Report
<1>10. clock' <= clock'
  BY <1>0
<1>. QED
  BY <1>7, <1>9, <1>10 DEF AtWork

LEMMA ReadAuditsTyped ==
  ASSUME IInv, TypeOK, NEW a \in Assessors, ReadAudits(a)
  PROVE  AtWork(a)'
<1>0. /\ pc \in [Assessors -> Stages] /\ DOMAIN work = Assessors /\ clock' = clock
      /\ work[a] \in Report /\ work[a].time <= clock
  BY DEF IInv, DraftsTyped, TypeOK, ReadAudits
<1> DEFINE v == work[a]
           audit == AuditFailures(Ledger!ActiveAfter(v.chain), v.time)
           failed == v.failed \cup audit
           advice == IF failed = {} THEN "keep" ELSE v.advice
           w == [v EXCEPT !.failed = failed, !.advice = advice]
<1>1. \/ Goto(a, "reviewing") /\ work' = [work EXCEPT ![a] = w]
      \/ Finish(a, w)
  BY DEF ReadAudits
<1>2. audit \in SUBSET Checks
  BY FailuresAreChecks DEF Failures
<1> HIDE DEF audit
<1>3. w \in Report /\ w.time = v.time
  <2>1. v \in Report
    BY <1>0
  <2> HIDE DEF v
  <2>2. failed \in SUBSET Checks /\ advice \in {"keep", "investigate", "review_rollback"}
    BY <1>2, <2>1 DEF Report
  <2> HIDE DEF failed, advice
  <2>. QED
    BY <2>1, <2>2 DEF Report
<1> HIDE DEF w
<1>4. CASE Goto(a, "reviewing") /\ work' = [work EXCEPT ![a] = w]
  <2>1. pc'[a] = "reviewing" /\ work'[a] = w
    BY <1>0, <1>4 DEF Goto
  <2>. QED
    BY <1>0, <1>3, <2>1 DEF AtWork
<1>5. CASE Finish(a, w)
  BY <1>0, <1>3, <1>5, FinishedTyped
<1>. QED
  BY <1>1, <1>4, <1>5

LEMMA ReviewTyped ==
  ASSUME IInv, TypeOK, NEW a \in Assessors, Review(a)
  PROVE  AtWork(a)'
<1>0. /\ pc \in [Assessors -> Stages] /\ DOMAIN work = Assessors /\ clock' = clock
      /\ work[a] \in Report /\ work[a].time <= clock /\ pc[a] = "reviewing"
      /\ Composed(work[a])
  BY DEF IInv, DraftsTyped, TypeOK, Review, ReportsSound, Sound
<1> DEFINE v == work[a]
           g == Max(Remaining(v))
           c == Candidate(v, g)
           w == [v EXCEPT !.reviewed = Append(v.reviewed, c), !.next = g - 1]
           u == [w EXCEPT !.advice = "review_rollback", !.to = g,
                          !.target = c.vintage]
<1>1. CASE Remaining(v) = {}
  <2>1. Finish(a, v)
    BY <1>1 DEF Review
  <2>. QED
    BY <1>0, <2>1, FinishedTyped
<1>2. CASE Remaining(v) # {}
  <2>1. \/ Finish(a, u)
        \/ work' = [work EXCEPT ![a] = w] /\ UNCHANGED pc
    BY <1>2 DEF Review
  <2>2. v \in Report /\ v.next \in Nat /\ Composed(v) /\ v.time <= clock
    BY <1>0 DEF Composed
  <2>3. g \in Nat /\ g >= 1 /\ c \in ReviewedCandidate /\ c.vintage \in Vintages
    <3> HIDE DEF g, c, v
    <3>1. g \in Remaining(v) /\ g \in Nat /\ c \in Listed
      BY <1>2, <2>2, NextCandidate DEF g, c
    <3>2. g \in 1 .. v.next
      BY <3>1 DEF Remaining
    <3>3. c \in ReviewedCandidate
      BY <3>1, ListedAreReviewed, Zenon
    <3>4. c.vintage \in Vintages
      BY <3>1 DEF Listed
    <3>. QED
      BY <2>2, <3>1, <3>2, <3>3, <3>4
  <2> HIDE DEF g, c, v
  <2>4. g - 1 \in Nat
    BY <2>3
  <2>5. Append(v.reviewed, c) \in Seq(ReviewedCandidate)
    <3>1. v.reviewed \in Seq(ReviewedCandidate)
      BY <2>2 DEF Report
    <3>. QED
      BY <2>3, <3>1
  <2>6. w \in Report /\ w.time = v.time
    BY <2>2, <2>4, <2>5 DEF Report
  <2> HIDE DEF w
  <2>7. u \in Report /\ u.time = v.time
    BY <2>3, <2>6 DEF Report
  <2> HIDE DEF u
  <2>8. CASE Finish(a, u)
    <3>1. u.time <= clock
      BY <2>2, <2>7
    <3>. QED
      BY <1>0, <2>7, <2>8, <3>1, FinishedTyped
  <2>9. CASE work' = [work EXCEPT ![a] = w] /\ UNCHANGED pc
    <3>1. work'[a] = w /\ pc'[a] = "reviewing"
      BY <1>0, <2>9
    <3>. QED
      BY <1>0, <2>2, <2>6, <3>1 DEF AtWork
  <2>. QED
    BY <2>1, <2>8, <2>9
<1>. QED
  BY <1>1, <1>2

LEMMA AtWorkStep ==
  ASSUME IInv, TypeOK, [Next]_vars, NEW a \in Assessors
  PROVE  AtWork(a)'
<1> USE DEF ledger, records, environment
<1>0. /\ pc \in [Assessors -> Stages] /\ DOMAIN work = Assessors
      /\ AtWork(a) /\ clock \in Nat
  BY DEF IInv, DraftsTyped, TypeOK, AtWork, HistoryOrdered
<1>1. clock' \in Nat /\ clock <= clock'
  <2>1. clock' = clock \/ clock' = clock + 1
    BY HistoryMoves DEF Decides, Loses, Rests
  <2>. QED
    BY <1>0, <2>1
<1>2. ASSUME pc'[a] = pc[a], work'[a] = work[a] PROVE AtWork(a)'
  <2>1. work[a] \in Report => work[a].time \in Nat
    BY BoundsAssumption DEF Report
  <2>. QED
    BY <1>0, <1>1, <1>2, <2>1 DEF AtWork
<1>3. ASSUME NEW b \in Assessors, Assess(b) PROVE AtWork(a)'
  <2>1. CASE b = a
    <3>1. ASSUME NEW limit \in PayLimits, Begin(a, limit) PROVE AtWork(a)'
      BY <3>1, BeginTyped
    <3>2. CASE Record(a)
      <4>1. pc[a] # "idle" /\ pc'[a] = "linked" /\ work'[a] = work[a] /\ clock' = clock
        BY <1>0, <3>2 DEF Record, Goto
      <4>. QED
        BY <1>0, <4>1 DEF AtWork
    <3>3. CASE Dismiss(a) \/ Tell(a) \/ Interrupt(a)
      <4>1. pc'[a] = "idle" /\ work'[a] = NoWork
        BY <1>0, <3>3 DEF Dismiss, Tell, Interrupt, Idle, Goto
      <4>. QED
        BY <4>1 DEF AtWork
    <3>. QED
      BY <1>3, <2>1, <3>1, <3>2, <3>3, ReadAuditsTyped, ReviewTyped DEF Assess
  <2>2. CASE b # a
    <3>1. pc'[a] = pc[a] /\ work'[a] = work[a]
      BY <1>0, <1>3, <2>2
      DEF Assess, Begin, ReadAudits, Review, Finish, Record, Dismiss, Tell,
          Interrupt, Idle, Goto
    <3>. QED
      BY <1>2, <3>1
  <2>. QED
    BY <2>1, <2>2
<1>4. CASE LosePower
  BY <1>4 DEF LosePower, AtWork
<1>5. CASE \/ Activate \/ FinishActivate \/ AbandonActivate
           \/ \E outcome \in Outcomes : Refresh(outcome)
           \/ Tamper \/ Repair \/ StartAlerts \/ ReadArchive \/ ReportAlerts
           \/ UNCHANGED vars
  <2>1. pc' = pc /\ work' = work
    BY <1>5
    DEF Activate, FinishActivate, AbandonActivate, Refresh, Tamper, Repair,
        StartAlerts, ReadArchive, ReportAlerts, vars
  <2>. QED
    BY <1>2, <2>1
<1>. QED
  BY <1>3, <1>4, <1>5 DEF Next

\* The variables that no report depends on.
LEMMA SurroundingsTyped ==
  TypeOK /\ [Next]_vars =>
    /\ lock' \in Assessors \cup {Writer, Nobody}
    /\ clock' \in 0 .. MaxClock
    /\ trusted' \in BOOLEAN
    /\ audits' \subseteq Audit
    /\ faults' \in 0 .. MaxFaults
<1> USE DEF ledger, records, environment
<1> SUFFICES ASSUME TypeOK, [Next]_vars
             PROVE  /\ lock' \in Assessors \cup {Writer, Nobody}
                    /\ clock' \in 0 .. MaxClock
                    /\ trusted' \in BOOLEAN
                    /\ audits' \subseteq Audit
                    /\ faults' \in 0 .. MaxFaults
  OBVIOUS
<1>0. /\ lock \in Assessors \cup {Writer, Nobody}
      /\ clock \in 0 .. MaxClock /\ trusted \in BOOLEAN /\ audits \subseteq Audit
      /\ faults \in 0 .. MaxFaults /\ MaxClock \in Nat /\ MaxFaults \in Nat
  BY BoundsAssumption DEF TypeOK
<1>1. /\ clock < MaxClock => clock + 1 \in 0 .. MaxClock
      /\ faults < MaxFaults => faults + 1 \in 0 .. MaxFaults
      /\ clock + 1 \in 0 .. MaxClock + 1
  BY <1>0
<1>2. ASSUME NEW outcome \in Outcomes PROVE AuditAt(outcome, clock + 1) \in Audit
  BY <1>1, LimitsAssumption DEF AuditAt, Audit
<1>3. CASE Activate \/ FinishActivate \/ AbandonActivate \/ Tamper \/ Repair \/ LosePower
  BY <1>0, <1>1, <1>3
  DEF Activate, FinishActivate, AbandonActivate, Tamper, Repair, LosePower, ReadsClock, Fault
<1>4. ASSUME NEW outcome \in Outcomes, Refresh(outcome)
      PROVE  /\ UNCHANGED <<lock, clock, trusted, faults>>
             /\ audits' \subseteq Audit
  BY <1>0, <1>2, <1>4 DEF Refresh
<1>5. ASSUME NEW a \in Assessors, Assess(a)
      PROVE  /\ lock' \in Assessors \cup {Writer, Nobody}
             /\ clock' \in 0 .. MaxClock
             /\ UNCHANGED <<trusted, audits>>
             /\ faults' \in 0 .. MaxFaults
  BY <1>0, <1>1, <1>5
  DEF Assess, Begin, ReadAudits, Review, Record, Dismiss, Tell, Interrupt, ReadsClock, Fault
<1>6. CASE StartAlerts \/ ReadArchive \/ ReportAlerts \/ UNCHANGED vars
  BY <1>0, <1>6 DEF StartAlerts, ReadArchive, ReportAlerts, vars
<1>. QED
  BY <1>0, <1>3, <1>4, <1>5, <1>6 DEF Next

\* The observer holds what it read.
LEMMA WatchTyped ==
  TypeOK /\ [Next]_vars => watch' \in Watch /\ reports' \subseteq Watch
<1> USE DEF ledger, records, environment
<1> SUFFICES ASSUME TypeOK, [Next]_vars PROVE watch' \in Watch /\ reports' \subseteq Watch
  OBVIOUS
<1>0. /\ watch \in Watch /\ reports \subseteq Watch /\ history \in Chain
      /\ archive \in SUBSET Report /\ clock \in 0 .. MaxClock /\ MaxClock \in Nat
  BY BoundsAssumption DEF TypeOK
<1>1. NoWatch \in Watch
  BY <1>0 DEF NoWatch, Watch, Chain
<1>2. CASE StartAlerts
  <2>1. watch' = [NoWatch EXCEPT !.stage = "started", !.time = clock] /\ reports' = reports
    BY <1>2 DEF StartAlerts
  <2>. QED
    BY <1>0, <1>1, <2>1 DEF Watch
<1>3. CASE ReadArchive
  <2>1. [watch EXCEPT !.stage = "read", !.chain = history, !.samples = archive] \in Watch
    BY <1>0 DEF Watch
  <2>. QED
    BY <1>0, <1>1, <1>3, <2>1 DEF ReadArchive
<1>4. CASE ReportAlerts
  BY <1>0, <1>1, <1>4 DEF ReportAlerts
<1>5. CASE LosePower
  BY <1>0, <1>1, <1>5 DEF LosePower
<1>6. CASE \/ Activate \/ FinishActivate \/ AbandonActivate
           \/ \E outcome \in Outcomes : Refresh(outcome)
           \/ Tamper \/ Repair
           \/ \E a \in Assessors : Assess(a)
           \/ UNCHANGED vars
  <2>1. watch' = watch /\ reports' = reports
    BY <1>6
    DEF Activate, FinishActivate, AbandonActivate, Refresh, Tamper, Repair,
        Assess, Begin, ReadAudits, Review, Record, Dismiss, Tell, Interrupt, vars
  <2>. QED
    BY <1>0, <2>1
<1>. QED
  BY <1>2, <1>3, <1>4, <1>5, <1>6 DEF Next

LEMMA TypeStep == IInv /\ TypeOK /\ [Next]_vars => TypeOK'
<1> SUFFICES ASSUME IInv, TypeOK, [Next]_vars PROVE TypeOK'
  OBVIOUS
<1>1. history' \in Chain /\ settled' \in 0 .. Len(history')
  BY HistoryStep DEF IInv, HistoryOrdered
<1>2. pc' \in [Assessors -> Stages]
  BY DraftsStep DEF DraftsTyped
<1>3. \A a \in Assessors : AtWork(a)'
  BY AtWorkStep
<1>4. synced' \subseteq archive' /\ told' \subseteq synced'
  BY SyncedStep
<1>5. archive' \subseteq Report
  <2>1. archive \subseteq Report /\ synced \subseteq archive
    BY DEF TypeOK
  <2>2. ASSUME NEW a \in Assessors, Record(a), archive' = archive \cup {work[a]}
        PROVE  archive' \subseteq Report
    <3>1. work[a] \in Report
      BY <2>2 DEF Record, TypeOK
    <3>. QED
      BY <2>1, <2>2, <3>1
  <2>. QED
    BY <2>1, <2>2, ArchiveMoves
<1>6. lost' \subseteq Chain
  <2>0. lost \subseteq Chain /\ HistoryOrdered
    BY DEF TypeOK, IInv
  <2>1. CASE Loses
    <3>1. PICK n \in settled .. Len(history) :
            lost' = lost \cup {SubSeq(history, 1, k) : k \in n + 1 .. Len(history)}
      BY <2>1 DEF Loses
    <3>2. ASSUME NEW k \in n + 1 .. Len(history) PROVE SubSeq(history, 1, k) \in Chain
      <4>1. /\ history \in Seq(Ledger!Decision) /\ Len(history) \in Nat /\ n \in Nat
            /\ settled \in Nat
        BY <2>0 DEF HistoryOrdered, Chain
      <4>2. k \in 0 .. Len(history)
        BY <4>1
      <4>3. \A i \in 1 .. k : history[i] \in Ledger!Decision
        BY <4>1, <4>2
      <4>. QED
        BY <4>1, <4>2, <4>3, SubSeqProperties DEF Chain
    <3>. QED
      BY <2>0, <3>1, <3>2
  <2>2. CASE Decides \/ Rests
    BY <2>0, <2>2 DEF Decides, Rests
  <2>. QED
    BY <2>1, <2>2, HistoryMoves
<1>7. \A a \in Assessors :
        IF pc'[a] = "idle" THEN work'[a] = NoWork
        ELSE work'[a] \in Report /\ work'[a].time <= clock'
  BY <1>3 DEF AtWork
<1>. QED
  BY <1>1, <1>2, <1>4, <1>5, <1>6, <1>7, SurroundingsTyped, WatchTyped DEF TypeOK

\* Every variable keeps its type.
THEOREM TypeCorrect == Spec => []TypeOK
<1>1. Init => TypeOK
  <2> SUFFICES ASSUME Init PROVE TypeOK
    OBVIOUS
  <2>1. 0 \in 0 .. MaxClock /\ 0 \in 0 .. MaxFaults /\ 0 \in 0 .. MaxClock + 1
    BY BoundsAssumption
  <2>2. <<>> \in Chain /\ Len(<<>>) = 0
    BY DEF Chain
  <2>3. NoWatch \in Watch
    BY <2>1, <2>2 DEF NoWatch, Watch
  <2>4. audits \subseteq Audit
    BY <2>1 DEF Init, AuditAt, Audit
  <2>. QED
    BY <2>1, <2>2, <2>3, <2>4 DEF Init, TypeOK, Stages
<1>2. IInv /\ TypeOK /\ [Next]_vars => TypeOK'
  BY TypeStep
<1>. QED
  BY <1>1, <1>2, Invariance, PTL DEF Spec

-----------------------------------------------------------------------------
\* Assessments read times of their own: reports in progress, those and the
\* records, and what the observer read of the records can be told apart by them.
Distinct(S) == \A r, s \in S : r.time = s.time => r = s

Composing(a) == pc[a] \in {"opened", "reviewing", "assessed"}

TimesOwn ==
  /\ \A a, b \in Assessors :
       a # b /\ pc[a] # "idle" /\ pc[b] # "idle" => work[a].time # work[b].time
  /\ \A a \in Assessors : Composing(a) => \A r \in archive : r.time # work[a].time
  /\ Distinct(archive) /\ Distinct(watch.samples)
  /\ \A w \in reports : Distinct(w.samples)

\* A step of an assessor begins a report, goes on with one or ends one.
LEMMA ReportMoves ==
  ASSUME IInv, [Next]_vars, NEW a \in Assessors
  PROVE  \/ pc'[a] = "idle"
         \/ /\ pc[a] # "idle" /\ work'[a].time = work[a].time
            /\ Composing(a)' => Composing(a) /\ ~Record(a)
         \/ /\ work'[a].time = clock + 1 /\ archive' = archive
            /\ \A b \in Assessors : b # a => pc'[b] = pc[b] /\ work'[b] = work[b]
<1> USE DEF ledger, records, environment
<1>0. pc \in [Assessors -> Stages] /\ DOMAIN work = Assessors
  BY DEF IInv, DraftsTyped
<1> DEFINE Goal == \/ pc'[a] = "idle"
                   \/ /\ pc[a] # "idle" /\ work'[a].time = work[a].time
                      /\ Composing(a)' => Composing(a) /\ ~Record(a)
                   \/ /\ work'[a].time = clock + 1 /\ archive' = archive
                      /\ \A b \in Assessors : b # a => pc'[b] = pc[b] /\ work'[b] = work[b]
<1>1. ASSUME pc'[a] = pc[a], work'[a] = work[a] PROVE Goal
  <2>1. Record(a) => pc'[a] = "linked"
    BY <1>0 DEF Record, Goto
  <2>2. Composing(a)' => Composing(a) /\ pc'[a] # "linked"
    BY <1>1 DEF Composing
  <2>. QED
    BY <1>1, <2>1, <2>2
<1>2. ASSUME NEW limit \in PayLimits, Begin(a, limit) PROVE Goal
  <2>1. clock' = clock + 1 /\ work'[a].time = clock' /\ archive' = archive
    BY <1>0, <1>2 DEF Begin, ReadsClock
  <2>2. \A b \in Assessors : b # a => pc'[b] = pc[b] /\ work'[b] = work[b]
    BY <1>0, <1>2 DEF Begin, Goto
  <2>. QED
    BY <2>1, <2>2
<1>3. CASE ReadAudits(a) \/ Review(a)
  <2>1. /\ Drafted(work[a]) /\ pc[a] \in {"opened", "reviewing"}
    BY <1>3 DEF ReadAudits, Review, IInv, DraftsTyped
  <2>2. pc'[a] = "idle" \/ work'[a].time = work[a].time
    BY <1>0, <1>3, <2>1, Carried
  <2>3. Composing(a) /\ ~Record(a) /\ pc[a] # "idle"
    BY <2>1 DEF Composing, Record
  <2>. QED
    BY <2>2, <2>3
<1>4. CASE Record(a)
  <2>1. pc[a] # "idle" /\ pc'[a] = "linked" /\ work' = work
    BY <1>0, <1>4 DEF Record, Goto
  <2>2. ~Composing(a)'
    BY <2>1 DEF Composing
  <2>. QED
    BY <2>1, <2>2
<1>5. CASE Dismiss(a) \/ Tell(a) \/ Interrupt(a)
  BY <1>0, <1>5 DEF Dismiss, Tell, Interrupt, Idle, Goto
<1>6. ASSUME NEW b \in Assessors, b # a, Assess(b) PROVE pc'[a] = pc[a] /\ work'[a] = work[a]
  BY <1>0, <1>6
  DEF Assess, Begin, ReadAudits, Review, Finish, Record, Dismiss, Tell,
      Interrupt, Idle, Goto
<1>7. CASE LosePower
  BY <1>7 DEF LosePower
<1>8. CASE \/ Activate \/ FinishActivate \/ AbandonActivate
           \/ \E outcome \in Outcomes : Refresh(outcome)
           \/ Tamper \/ Repair \/ StartAlerts \/ ReadArchive \/ ReportAlerts
           \/ UNCHANGED vars
  <2>1. pc' = pc /\ work' = work
    BY <1>8
    DEF Activate, FinishActivate, AbandonActivate, Refresh, Tamper, Repair,
        StartAlerts, ReadArchive, ReportAlerts, vars
  <2>. QED
    BY <1>1, <2>1
<1>9. ASSUME Assess(a) PROVE Goal
  <2>1. (\E limit \in PayLimits : Begin(a, limit)) => Goal
    BY <1>2
  <2> HIDE DEF Goal
  <2>2. ReadAudits(a) \/ Review(a) => Goal
    BY <1>3 DEF Goal
  <2>3. Record(a) => Goal
    BY <1>4 DEF Goal
  <2>4. Dismiss(a) \/ Tell(a) \/ Interrupt(a) => Goal
    BY <1>5 DEF Goal
  <2>. QED
    BY <1>9, <2>1, <2>2, <2>3, <2>4 DEF Assess
<1>10. ASSUME NEW b \in Assessors, Assess(b) PROVE Goal
  <2> HIDE DEF Goal
  <2>. QED
    BY <1>1, <1>6, <1>9, <1>10
<1>11. Goal
  <2> HIDE DEF Goal
  <2>. QED
    BY <1>7, <1>8, <1>10 DEF Next, Goal
<1>. QED
  BY <1>11
\* Assessments of the clock read a time nobody else has.
LEMMA TimesStep == IInv /\ TimesOwn /\ [Next]_vars => TimesOwn'
<1> USE DEF ledger, records, environment
<1> SUFFICES ASSUME IInv, TimesOwn, [Next]_vars PROVE TimesOwn'
  OBVIOUS
<1>0. /\ synced \subseteq archive /\ pc \in [Assessors -> Stages] /\ clock \in Nat
      /\ \A a \in Assessors : pc[a] # "idle" => work[a].time \in Nat /\ work[a].time <= clock
      /\ \A r \in archive : r.time \in Nat /\ r.time <= clock
  BY DEF IInv, DraftsTyped, Drafted, Recorded, HistoryOrdered
<1> DEFINE Idles(a) == pc'[a] = "idle"
           Goes(a) == /\ pc[a] # "idle" /\ work'[a].time = work[a].time
                      /\ Composing(a)' => Composing(a) /\ ~Record(a)
           Begins(a) == /\ work'[a].time = clock + 1 /\ archive' = archive
                        /\ \A b \in Assessors : b # a => pc'[b] = pc[b] /\ work'[b] = work[b]
<1>1. \A a \in Assessors : Idles(a) \/ Goes(a) \/ Begins(a)
  BY ReportMoves
<1>2. ASSUME NEW a \in Assessors, NEW b \in Assessors, a # b,
             pc'[a] # "idle", pc'[b] # "idle"
      PROVE  work'[a].time # work'[b].time
  <2>1. ASSUME NEW x \in Assessors, NEW y \in Assessors, x # y, pc'[y] # "idle", Begins(x)
        PROVE  work'[x].time # work'[y].time
    <3>1. pc[y] # "idle" /\ work'[y].time = work[y].time
      BY <2>1
    <3>. QED
      BY <1>0, <2>1, <3>1
  <2>2. CASE Goes(a) /\ Goes(b)
    BY <1>2, <2>2 DEF TimesOwn
  <2>. QED
    BY <1>1, <1>2, <2>1, <2>2
<1>3. ASSUME NEW a \in Assessors, Composing(a)', NEW r \in archive'
      PROVE  r.time # work'[a].time
  <2>0. pc'[a] # "idle"
    BY <1>3 DEF Composing
  <2>1. CASE Begins(a)
    BY <1>0, <1>3, <2>1
  <2>2. CASE Goes(a) /\ r \in archive
    BY <1>3, <2>2 DEF TimesOwn
  <2>3. ASSUME Goes(a), NEW b \in Assessors, Record(b), r = work[b]
        PROVE  r.time # work'[a].time
    <3>1. b # a /\ pc[a] # "idle" /\ pc[b] # "idle" /\ work'[a].time = work[a].time
      BY <1>3, <2>3 DEF Record, Composing
    <3>. QED
      BY <2>3, <3>1 DEF TimesOwn
  <2>. QED
    BY <1>0, <1>1, <1>3, <2>0, <2>1, <2>2, <2>3, ArchiveMoves
<1>4. Distinct(archive)'
  <2>1. CASE archive' \subseteq archive
    BY <2>1 DEF TimesOwn, Distinct
  <2>2. ASSUME NEW a \in Assessors, Record(a), archive' = archive \cup {work[a]}
        PROVE  Distinct(archive)'
    <3>1. \A r \in archive : r.time # work[a].time
      BY <2>2 DEF TimesOwn, Record, Composing
    <3>. QED
      BY <2>2, <3>1 DEF TimesOwn, Distinct
  <2>. QED
    BY <1>0, <2>1, <2>2, ArchiveMoves
<1>5. Distinct(watch.samples)' /\ (\A w \in reports : Distinct(w.samples))'
  <2>0. /\ Distinct(archive) /\ Distinct(watch.samples) /\ Distinct(NoWatch.samples)
        /\ \A w \in reports : Distinct(w.samples)
        /\ DOMAIN watch = {"stage", "time", "chain", "samples"}
    BY DEF TimesOwn, Distinct, NoWatch, IInv
  <2>1. CASE ReadArchive
    <3>1. reports' = reports /\ (watch' = NoWatch \/ watch'.samples = archive)
      BY <2>0, <2>1 DEF ReadArchive
    <3>. QED
      BY <2>0, <3>1 DEF Distinct
  <2>2. CASE ReportAlerts
    <3>1. watch' = NoWatch /\ reports' \subseteq reports \cup {watch}
      BY <2>2 DEF ReportAlerts
    <3>. QED
      BY <2>0, <3>1 DEF Distinct
  <2>3. CASE StartAlerts \/ LosePower
    <3>1. reports' = reports /\ watch'.samples = NoWatch.samples
      BY <2>3 DEF StartAlerts, LosePower, NoWatch
    <3>. QED
      BY <2>0, <3>1 DEF Distinct
  <2>4. CASE \/ Activate \/ FinishActivate \/ AbandonActivate
             \/ \E outcome \in Outcomes : Refresh(outcome)
             \/ Tamper \/ Repair
             \/ \E a \in Assessors : Assess(a)
             \/ UNCHANGED vars
    <3>1. watch' = watch /\ reports' = reports
      BY <2>4
      DEF Activate, FinishActivate, AbandonActivate, Refresh, Tamper, Repair,
          Assess, Begin, ReadAudits, Review, Record, Dismiss, Tell, Interrupt, vars
    <3>. QED
      BY <2>0, <3>1 DEF Distinct
  <2>. QED
    BY <2>1, <2>2, <2>3, <2>4 DEF Next
<1>. QED
  BY <1>2, <1>3, <1>4, <1>5 DEF TimesOwn

LEMMA OwnTimes == Spec => [](IInv /\ TypeOK /\ TimesOwn)
<1>1. Init => TimesOwn
  BY DEF Init, TimesOwn, Distinct, Composing, NoWatch
<1>. QED
  BY <1>1, TimesStep, Invariance, TypeCorrect, PTL DEF Spec
\* What the observer judges: samples it can order and measure, by policies that
\* AlertPolicy accepts.
LEMMA Judged ==
  ASSUME TypeOK, TimesOwn
  PROVE  /\ MaxClock \in Nat /\ Policies \subseteq Policy
         /\ Dated(archive, MaxClock) /\ Measurable(archive)
         /\ \A w \in reports :
              w.time \in Nat /\ Dated(w.samples, MaxClock) /\ Measurable(w.samples)
<1>1. MaxClock \in Nat
  BY BoundsAssumption
<1>2. Policies \subseteq Policy
  BY LimitsAssumption DEF Policies
<1>3. ASSUME NEW S \in SUBSET Report, Distinct(S)
      PROVE  Dated(S, MaxClock) /\ Measurable(S)
  <2>1. \A s \in S : s.time \in 1 .. MaxClock /\ s.chain \in Chain /\ s.missing \in Limit
    BY DEF Report
  <2>2. \A s \in S : Len(s.chain) \in Nat
    BY <2>1 DEF Chain
  <2>. QED
    BY <1>3, <2>1, <2>2 DEF Dated, Measurable, Distinct
<1>4. archive \in SUBSET Report /\ Distinct(archive)
  BY DEF TypeOK, TimesOwn
<1>5. \A w \in reports : w.time \in Nat /\ w.samples \in SUBSET Report /\ Distinct(w.samples)
  BY <1>1 DEF TypeOK, TimesOwn, Watch
<1>. QED
  BY <1>1, <1>2, <1>3, <1>4, <1>5

\* "ok" is never given to a release nobody assessed, nor, when one unhealthy
\* assessment is to alert, to one whose newest assessment was unhealthy
\* (_evaluate_window and evaluate_ons_pay_history_alerts), under any policy and
\* whatever the archive and the observer went through.
THEOREM OkIsEarned == Spec => []OkMeansAssessed
<1>1. TypeOK /\ TimesOwn => OkMeansAssessed
  <2> SUFFICES ASSUME TypeOK, TimesOwn, NEW w \in reports, NEW policy \in Policies,
                      StatusOf(Alerts(policy, w)) = "ok"
               PROVE  LET mine == {s \in w.samples : s.chain = w.chain /\ s.time <= w.time}
                      IN  mine # {} /\ (policy.streak = 1 => ~Unhealthy(Newest(mine)))
    BY DEF OkMeansAssessed
  <2>1. /\ MaxClock \in Nat /\ policy \in Policy /\ w.time \in Nat
        /\ Dated(w.samples, MaxClock)
    BY Judged
  <2>. QED
    BY <2>1, OkRestsOnAssessment DEF Alerts
<1>. QED
  BY <1>1, OwnTimes, PTL

\* "a later assessment cannot change an earlier checkpoint's result"
\* (ons_pay_history_replay.py): as long as no assessment from before is recorded
\* late, every replay repeats, at the newest sample the observer read, what it
\* reported live, the age of the sample apart.
THEOREM ReplayRepeatsLive == Spec => []ReplayReproducesLive
<1>1. TypeOK /\ TimesOwn => ReplayReproducesLive
  <2> SUFFICES ASSUME TypeOK, TimesOwn, NEW w \in reports, NEW policy \in Policies,
                      w.samples # {},
                      Newest(w.samples).chain = w.chain,
                      Newest(w.samples).time <= w.time,
                      w.samples = {x \in archive : x.time <= Newest(w.samples).time},
                      NEW n \in CheckNames \ {"assessment_age_hours"}
               PROVE  Alerts(policy, w)[n]
                        = Replay(policy, archive, MaxClock)[Newest(w.samples)][n]
    BY DEF ReplayReproducesLive
  <2> DEFINE s == Newest(w.samples)
             window == LastOf(w.samples, policy.last)
  <2>1. /\ MaxClock \in Nat /\ policy \in Policy /\ w.time \in Nat
        /\ Dated(archive, MaxClock) /\ Dated(w.samples, MaxClock)
    BY Judged
  <2>2. s \in w.samples /\ (\A x \in w.samples : x.time <= s.time) /\ s \in archive
    BY <2>1, NewestOf
  <2>3. s.time \in 1 .. MaxClock /\ MaxClock >= 1
    BY <2>1, <2>2 DEF Dated
  <2>4. s \in LastOf(archive, MaxClock)
    BY <2>1, <2>2, <2>3, LastOfProperties
  <2>5. WindowAt(policy, archive, s) = window
    BY DEF WindowAt
  <2>6. policy.last \in Nat /\ policy.last >= 1
    BY <2>1 DEF Policy
  <2>7. window \subseteq w.samples
    BY <2>1, <2>6, LastOfProperties
  <2>8. Dated(window, MaxClock) /\ \A x \in window : x.time <= s.time
    BY <2>1, <2>2, <2>7, DatedSubset
  <2>9. Alerts(policy, w) = Evaluate(policy, window, w.time, s.chain)
    BY DEF Alerts
  <2>10. Replay(policy, archive, MaxClock)[s] = Evaluate(policy, window, s.time, s.chain)
    BY <2>4, <2>5 DEF Replay
  <2>11. s.time \in Nat /\ s.time <= w.time
    BY <2>3
  <2>12. Evaluate(policy, window, w.time, s.chain)[n]
           = Evaluate(policy, window, s.time, s.chain)[n]
    <3> HIDE DEF window, s
    <3>. QED
      BY <2>1, <2>8, <2>11, SameWindowLater
  <2>. QED
    BY <2>9, <2>10, <2>12
<1>. QED
  BY <1>1, OwnTimes, PTL

\* The gate that allows no added alert passes a candidate that is only looser,
\* exactly when there is an assessment to judge it by (AlertComparisonGate over
\* compare), whatever the archive.
THEOREM LooseningPasses == Spec => []LooseningAddsNoAlert
<1>1. TypeOK /\ TimesOwn => LooseningAddsNoAlert
  <2> SUFFICES ASSUME TypeOK, TimesOwn, NEW p \in Policies, NEW q \in Policies, Looser(p, q)
               PROVE  GatePasses(Compare(p, q, archive, MaxClock), NoAlertAdded)
                        <=> archive # {}
    BY DEF LooseningAddsNoAlert
  <2> DEFINE summary == Compare(p, q, archive, MaxClock)
  <2>1. /\ MaxClock \in Nat /\ p \in Policy /\ q \in Policy
        /\ Dated(archive, MaxClock) /\ Measurable(archive)
    BY Judged
  <2>2. DOMAIN p = {"last", "age", "streak", "share", "step", "drift"}
    BY <2>1 DEF Policy
  <2>3. Raised(p, q)
    BY <2>2 DEF Looser, Raised
  <2>4. /\ summary.alert_added = 0 /\ summary.evaluated \in Nat
        /\ summary.evaluated >= 1 <=> archive # {}
    BY <2>1, <2>3, LooserAddsNoAlert
  <2>5. /\ NoAlertAdded.min_evaluated = 1
        /\ \A b \in Budgets : NoAlertAdded.max[b] = IF b = "alert_added" THEN 0 ELSE None
    BY DEF NoAlertAdded
  <2>6. 0 # None /\ "alert_added" \in Budgets
    BY NoneAssumption DEF Budgets
  <2> HIDE DEF summary
  <2>7. GatePasses(summary, NoAlertAdded) <=> archive # {}
    BY <2>4, <2>5, <2>6 DEF GatePasses
  <2>. QED
    BY <2>7 DEF summary
<1>. QED
  BY <1>1, OwnTimes, PTL
=============================================================================
