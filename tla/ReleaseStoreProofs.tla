------------------------- MODULE ReleaseStoreProofs -------------------------
(***************************************************************************)
(* Proofs about ReleaseStore, for any operators, vintages and comparison   *)
(* results, and any number of decisions, faults and damaged files.         *)
(***************************************************************************)
EXTENDS ReleaseStore, SequenceTheorems, TLAPS

Writing == {"planned", "linked", "recorded"}

\* The decision an operator is about to publish.
Last(h) == h[Len(h)]

\* What the lock holder writes extends the pointer's chain by one decision the
\* abstract history allows; nobody else has anything to write.
ChainsFollow ==
  \A o \in Operators :
    /\ pc[o] \in Writing =>
         /\ chain[o] = Append(head, Last(chain[o]))
         /\ Last(chain[o]) \in Entry
         /\ Ledger!Follows(Last(chain[o]), head)
         /\ request[o].expected = Len(head)
    /\ pc[o] = "recorded" => chain[o] \in safe
    /\ pc[o] = "linked" => chain[o] \in events
    /\ pc[o] = "replaced" => chain[o] = head
    /\ pc[o] \in {"idle", "waiting", "locked"} => chain[o] = <<>>

\* Every event behind the pointer is valid and survives a power loss.
HeadSound ==
  /\ durable <= Len(head)
  /\ \A i \in 1 .. Len(head) : SubSeq(head, 1, i) \in safe /\ ValidLink(head, i)

\* The inductive invariant behind the theorems.
IInv ==
  /\ TypeOK
  /\ OneWriter
  /\ ChainsFollow
  /\ HeadSound
  /\ AppliedSurvives

-----------------------------------------------------------------------------
\* Prefixes of a chain.
LEMMA Prefixes ==
  ASSUME NEW h \in Seq(Entry), NEW n \in 0 .. Len(h)
  PROVE  /\ SubSeq(h, 1, n) \in Seq(Entry)
         /\ Len(SubSeq(h, 1, n)) = n
         /\ \A i \in 1 .. n : SubSeq(h, 1, n)[i] = h[i]
         /\ \A m \in 0 .. n : SubSeq(SubSeq(h, 1, n), 1, m) = SubSeq(h, 1, m)
<1>1. /\ SubSeq(h, 1, n) \in Seq(Entry)
      /\ Len(SubSeq(h, 1, n)) = n
      /\ \A i \in 1 .. n : SubSeq(h, 1, n)[i] = h[i]
  OBVIOUS
<1>2. ASSUME NEW m \in 0 .. n
      PROVE  SubSeq(SubSeq(h, 1, n), 1, m) = SubSeq(h, 1, m)
  <2> DEFINE p == SubSeq(SubSeq(h, 1, n), 1, m)
             q == SubSeq(h, 1, m)
  <2>1. p \in Seq(Entry) /\ q \in Seq(Entry) /\ Len(p) = m /\ Len(q) = m
    BY <1>1
  <2>2. \A i \in 1 .. m : p[i] = q[i]
    BY <1>1
  <2>. QED
    BY <2>1, <2>2, SeqEqual
<1>. QED
  BY <1>1, <1>2

\* The same for the chain with one more decision.
LEMMA PrefixesOfLonger ==
  ASSUME NEW h \in Seq(Entry), NEW d \in Entry, NEW n \in 0 .. Len(h)
  PROVE  /\ Append(h, d) \in Seq(Entry)
         /\ Len(Append(h, d)) = Len(h) + 1
         /\ Append(h, d)[Len(h) + 1] = d
         /\ \A i \in 1 .. Len(h) : Append(h, d)[i] = h[i]
         /\ SubSeq(Append(h, d), 1, n) = SubSeq(h, 1, n)
<1>1. /\ Append(h, d) \in Seq(Entry)
      /\ Len(Append(h, d)) = Len(h) + 1
      /\ Append(h, d)[Len(h) + 1] = d
      /\ \A i \in 1 .. Len(h) : Append(h, d)[i] = h[i]
  OBVIOUS
<1> DEFINE g == Append(h, d)
           p == SubSeq(g, 1, n)
           q == SubSeq(h, 1, n)
<1>2. /\ p \in Seq(Entry) /\ Len(p) = n
      /\ \A i \in 1 .. n : p[i] = g[i]
  BY <1>1, Prefixes
<1>3. /\ q \in Seq(Entry) /\ Len(q) = n
      /\ \A i \in 1 .. n : q[i] = h[i]
  BY Prefixes
<1>4. p = q
  <2>1. \A i \in 1 .. n : p[i] = q[i]
    BY <1>1, <1>2, <1>3
  <2> HIDE DEF p, q
  <2>. QED
    BY <2>1, <1>2, <1>3, SeqEqual
<1>. QED
  BY <1>1, <1>4

\* Whether a link is valid depends on the decision and on what precedes it.
LEMMA LinkDepends ==
  ASSUME NEW p, NEW h, NEW i \in Nat \ {0},
         \A j \in 1 .. i : p[j] = h[j],
         SubSeq(p, 1, i - 1) = SubSeq(h, 1, i - 1)
  PROVE  ValidLink(p, i) <=> ValidLink(h, i)
<1>1. p[i] = h[i]
  OBVIOUS
<1>2. p[i].from = Active(SubSeq(p, 1, i - 1))
        <=> h[i].from = Active(SubSeq(h, 1, i - 1))
  BY <1>1
<1>3. (p[i].action = "bootstrap" <=> i = 1)
        <=> (h[i].action = "bootstrap" <=> i = 1)
  BY <1>1
<1>4. (p[i].action = "promote" => <<p[i].from, p[i].vintage>> \in Passes)
        <=> (h[i].action = "promote" => <<h[i].from, h[i].vintage>> \in Passes)
  BY <1>1
<1>5. (\E j \in 1 .. i - 1 : p[j].vintage = p[i].vintage)
        <=> (\E j \in 1 .. i - 1 : h[j].vintage = h[i].vintage)
  BY <1>1
<1>6. (p[i].action = "rollback" =>
         \E j \in 1 .. i - 1 : p[j].vintage = p[i].vintage)
        <=> (h[i].action = "rollback" =>
               \E j \in 1 .. i - 1 : h[j].vintage = h[i].vintage)
  BY <1>1, <1>5
<1>. QED
  BY <1>2, <1>3, <1>4, <1>6, SMT DEF ValidLink

\* A link of a prefix is valid exactly when it is valid in the whole chain.
LEMMA LinkOfPrefix ==
  ASSUME NEW h \in Seq(Entry), NEW n \in 0 .. Len(h), NEW i \in 1 .. n
  PROVE  ValidLink(SubSeq(h, 1, n), i) <=> ValidLink(h, i)
<1> DEFINE p == SubSeq(h, 1, n)
<1>1. /\ i \in Nat \ {0}
      /\ \A j \in 1 .. i : p[j] = h[j]
      /\ SubSeq(p, 1, i - 1) = SubSeq(h, 1, i - 1)
  BY Prefixes
<1> HIDE DEF p
<1>2. ValidLink(p, i) <=> ValidLink(h, i)
  BY <1>1, LinkDepends
<1>. QED
  BY <1>2 DEF p

\* One more decision leaves the validity of the older ones alone.
LEMMA LinkOfLonger ==
  ASSUME NEW h \in Seq(Entry), NEW d \in Entry, NEW i \in 1 .. Len(h)
  PROVE  ValidLink(Append(h, d), i) <=> ValidLink(h, i)
<1> DEFINE g == Append(h, d)
<1>1. /\ i \in Nat \ {0}
      /\ \A j \in 1 .. i : g[j] = h[j]
      /\ SubSeq(g, 1, i - 1) = SubSeq(h, 1, i - 1)
  BY PrefixesOfLonger
<1> HIDE DEF g
<1>2. ValidLink(g, i) <=> ValidLink(h, i)
  BY <1>1, LinkDepends
<1>. QED
  BY <1>2 DEF g

\* What the abstract history allows is what _load accepts.
LEMMA LinkOfDecision ==
  ASSUME NEW h \in Seq(Entry), NEW d \in Entry, Ledger!Follows(d, h)
  PROVE  ValidLink(Append(h, d), Len(h) + 1)
<1> DEFINE g == Append(h, d)
           k == Len(h) + 1
<1>1. /\ g[k] = d
      /\ \A j \in 1 .. Len(h) : g[j] = h[j]
      /\ SubSeq(g, 1, k - 1) = h
      /\ k \in Nat /\ k - 1 = Len(h) /\ (k = 1 <=> h = <<>>)
  BY PrefixesOfLonger, SubSeqFull
<1> HIDE DEF g, k
<1>2. ValidLink(g, k)
  BY <1>1 DEF ValidLink, Active, Ledger!Follows, Ledger!ActiveAfter
<1>. QED
  BY <1>2 DEF g, k

-----------------------------------------------------------------------------
\* An empty release directory satisfies the invariant.
LEMMA InitInv == Init => IInv
<1> SUFFICES ASSUME Init PROVE IInv
  OBVIOUS
<1>1. TypeOK
  BY BoundsAssumption, NamesAssumption
  DEF Init, TypeOK, Stage, Locked
<1>2. OneWriter /\ ChainsFollow /\ HeadSound /\ AppliedSurvives
  BY NamesAssumption
  DEF Init, OneWriter, ChainsFollow, HeadSound, AppliedSurvives, Locked,
      Writing
<1>. QED
  BY <1>1, <1>2 DEF IInv

\* The decision composed under the lock is well formed and may follow.
LEMMA DecisionFollows ==
  ASSUME TypeOK, NEW r \in Request, Eligible(r), clock < MaxEvents
  PROVE  /\ Decision(r) \in Entry
         /\ Ledger!Follows(Decision(r), head)
         /\ r.expected = Len(head)
<1>1. Active(head) \in Vintages \cup {NoVintage}
  <2>1. CASE head = <<>>
    BY <2>1 DEF Active
  <2>2. CASE head # <<>>
    <3>1. head \in Seq(Entry) /\ Len(head) \in 1 .. Len(head)
      BY <2>2 DEF TypeOK
    <3>2. head[Len(head)] \in Entry
      BY <3>1
    <3>. QED
      BY <2>2, <3>2 DEF Active, Entry
  <2>. QED
    BY <2>1, <2>2
<1>2. Decision(r) \in Entry
  BY <1>1, BoundsAssumption DEF Decision, Entry, Request, TypeOK
<1>3. r.vintage # Active(head)
  BY NamesAssumption DEF Eligible, Request, Active
<1>4. r.action = "bootstrap" <=> head = <<>>
  BY DEF Eligible, Generation
<1>5. r.action = "promote" => <<Active(head), r.vintage>> \in Passes
  BY DEF Eligible
<1>6. r.action = "rollback" =>
        \E n \in 1 .. Len(head) : head[n].vintage = r.vintage
  BY DEF Eligible, Generation, TypeOK
<1>7. Ledger!ActiveAfter(head) = Active(head)
  BY DEF Ledger!ActiveAfter, Active
<1>8. Ledger!Follows(Decision(r), head)
  BY <1>3, <1>4, <1>5, <1>6, <1>7 DEF Decision, Ledger!Follows
<1>. QED
  BY <1>2, <1>8 DEF Eligible, Generation

\* Every step keeps every variable in its type.
LEMMA TypeStep == TypeOK /\ [Next]_vars => TypeOK'
<1> SUFFICES ASSUME TypeOK, [Next]_vars PROVE TypeOK'
  OBVIOUS
<1> USE BoundsAssumption
    DEF TypeOK, Stage, Locked, Goto, Leave, Fault, files, budget
<1>1. ASSUME NEW o \in Operators, NEW r \in Request, Preflight(o, r)
      PROVE  TypeOK'
  BY <1>1 DEF Preflight
<1>2. ASSUME NEW o \in Operators, Lock(o) PROVE TypeOK'
  BY <1>2 DEF Lock
<1>3. ASSUME NEW o \in Operators, Recheck(o) PROVE TypeOK'
  <2>1. request[o] \in Request /\ Eligible(request[o]) /\ clock < MaxEvents
    BY <1>3 DEF Recheck
  <2>2. Append(head, Decision(request[o])) \in Seq(Entry)
    BY <2>1, DecisionFollows
  <2>. QED
    BY <1>3, <2>2 DEF Recheck
<1>4. ASSUME NEW o \in Operators, Refuse(o) PROVE TypeOK'
  BY <1>4 DEF Refuse
<1>5. ASSUME NEW o \in Operators, LinkEvent(o) PROVE TypeOK'
  BY <1>5 DEF LinkEvent
<1>6. ASSUME NEW o \in Operators, SyncEvents(o) PROVE TypeOK'
  BY <1>6 DEF SyncEvents
<1>7. ASSUME NEW o \in Operators, ReplaceHead(o) PROVE TypeOK'
  BY <1>7 DEF ReplaceHead
<1>8. ASSUME NEW o \in Operators, SyncHead(o) PROVE TypeOK'
  BY <1>8 DEF SyncHead
<1>9. ASSUME NEW o \in Operators, Interrupt(o) PROVE TypeOK'
  BY <1>9 DEF Interrupt
<1>10. CASE PowerLoss
  <2>1. PICK n \in durable .. Len(head), kept \in SUBSET (events \ safe) :
          /\ head' = SubSeq(head, 1, n)
          /\ durable' = n
          /\ events' = safe \cup kept
          /\ safe' = safe \cup kept
    BY <1>10 DEF PowerLoss
  <2>2. head' \in Seq(Entry) /\ durable' \in Nat
    BY <2>1 
  <2>. QED
    BY <1>10, <2>1, <2>2 DEF PowerLoss
<1>11. ASSUME NEW v \in Vintages, Damage(v) \/ Restore(v) PROVE TypeOK'
  BY <1>11 DEF Damage, Restore
<1>12. CASE UNCHANGED vars
  BY <1>12 DEF vars
<1>. QED
  BY <1>1, <1>2, <1>3, <1>4, <1>5, <1>6, <1>7, <1>8, <1>9, <1>10, <1>11,
     <1>12 DEF Next, Step

\* An operator that is past flock is alone there, so that nobody else has a
\* chain to publish.
LEMMA OthersAreOutside ==
  ASSUME IInv, NEW o \in Operators, pc[o] \in Locked,
         NEW p \in Operators, p # o
  PROVE  pc[p] \in {"idle", "waiting"} /\ chain[p] = <<>>
<1>1. pc[p] \notin Locked
  BY DEF IInv, OneWriter
<1>2. pc[p] \in {"idle", "waiting"}
  BY <1>1 DEF IInv, TypeOK, Stage
<1>. QED
  BY <1>2 DEF IInv, ChainsFollow

\* The lock follows the operators in and out.
LEMMA WriterStep == IInv /\ [Next]_vars => OneWriter'
<1> SUFFICES ASSUME IInv, [Next]_vars PROVE OneWriter'
  OBVIOUS
<1>1. pc \in [Operators -> Stage] /\ OneWriter
  BY DEF IInv, TypeOK
<1> USE <1>1, NamesAssumption
    DEF OneWriter, Stage, Locked, Goto, Leave, files, budget
<1>2. ASSUME NEW o \in Operators, Step(o) \/ Interrupt(o) PROVE OneWriter'
  BY <1>2 DEF Step, Lock, Recheck, Refuse, LinkEvent, SyncEvents, ReplaceHead,
              SyncHead, Interrupt
<1>3. ASSUME NEW o \in Operators, NEW r \in Request, Preflight(o, r)
      PROVE  OneWriter'
  BY <1>3 DEF Preflight
<1>4. CASE PowerLoss
  BY <1>4 DEF PowerLoss
<1>5. ASSUME NEW v \in Vintages, Damage(v) \/ Restore(v) PROVE OneWriter'
  BY <1>5 DEF Damage, Restore
<1>6. CASE UNCHANGED vars
  BY <1>6 DEF vars
<1>. QED
  BY <1>2, <1>3, <1>4, <1>5, <1>6 DEF Next

\* What replacing the pointer puts in its place.
LEMMA ReplacedHead ==
  ASSUME IInv, NEW o \in Operators, ReplaceHead(o)
  PROVE  /\ Last(chain[o]) \in Entry
         /\ Ledger!Follows(Last(chain[o]), head)
         /\ head' = Append(head, Last(chain[o]))
         /\ head' = chain[o] /\ chain[o] \in safe
         /\ head \in Seq(Entry) /\ head' \in Seq(Entry)
         /\ Len(head') = Len(head) + 1
<1>1. pc[o] = "recorded" /\ head' = chain[o]
  BY DEF ReplaceHead
<1>2. /\ Last(chain[o]) \in Entry
      /\ Ledger!Follows(Last(chain[o]), head)
      /\ chain[o] = Append(head, Last(chain[o]))
      /\ chain[o] \in safe
  BY <1>1 DEF IInv, ChainsFollow, Writing
<1>3. head \in Seq(Entry)
  BY DEF IInv, TypeOK
<1>. QED
  BY <1>1, <1>2, <1>3, PrefixesOfLonger

\* What a power failure leaves of the pointer and the events.
LEMMA AfterPowerLoss ==
  ASSUME IInv, PowerLoss
  PROVE  \E n \in durable .. Len(head) :
           /\ n \in 0 .. Len(head)
           /\ head' = SubSeq(head, 1, n) /\ durable' = n
           /\ head \in Seq(Entry) /\ head' \in Seq(Entry) /\ Len(head') = n
           /\ safe \subseteq safe'
<1>1. PICK n \in durable .. Len(head), kept \in SUBSET (events \ safe) :
        head' = SubSeq(head, 1, n) /\ durable' = n /\ safe' = safe \cup kept
  BY DEF PowerLoss
<1>2. n \in 0 .. Len(head) /\ head \in Seq(Entry)
  BY DEF IInv, TypeOK
<1>3. head' \in Seq(Entry) /\ Len(head') = n
  BY <1>1, <1>2, Prefixes
<1>. QED
  BY <1>1, <1>2, <1>3

\* The other steps leave the pointer alone, or sync what it already selects.
LEMMA OtherSteps ==
  ASSUME IInv, [Next]_vars, ~PowerLoss,
         \A o \in Operators : ~ReplaceHead(o)
  PROVE  /\ head' = head
         /\ safe \subseteq safe'
         /\ events \subseteq events'
         /\ \/ durable' = durable /\ applied' = applied
            \/ \E o \in Operators : SyncHead(o)
<1> USE DEF IInv, TypeOK, files, budget
<1>1. ASSUME NEW o \in Operators, Step(o) \/ Interrupt(o)
      PROVE  /\ head' = head
             /\ safe \subseteq safe'
             /\ events \subseteq events'
             /\ \/ durable' = durable /\ applied' = applied
                \/ SyncHead(o)
  BY <1>1 DEF Step, Lock, Recheck, Refuse, LinkEvent, SyncEvents, SyncHead,
              Interrupt
<1>2. CASE \/ \E o \in Operators, r \in Request : Preflight(o, r)
           \/ \E v \in Vintages : Damage(v) \/ Restore(v)
           \/ UNCHANGED vars
  BY <1>2 DEF Preflight, Damage, Restore, vars
<1>. QED
  BY <1>1, <1>2 DEF Next

\* The pointer stays valid and safe on disk.
LEMMA HeadStep == IInv /\ [Next]_vars => HeadSound'
<1> SUFFICES ASSUME IInv, [Next]_vars PROVE HeadSound'
  OBVIOUS
<1>1. ASSUME NEW o \in Operators, ReplaceHead(o) PROVE HeadSound'
  <2> DEFINE d == Last(chain[o])
  <2>1. /\ d \in Entry /\ Ledger!Follows(d, head)
        /\ head' = Append(head, d) /\ head' \in safe
        /\ head \in Seq(Entry) /\ head' \in Seq(Entry)
        /\ Len(head') = Len(head) + 1
    BY <1>1, ReplacedHead
  <2>2. safe' = safe /\ durable' = durable
    BY <1>1 DEF ReplaceHead, files, budget
  <2> HIDE DEF d
  <2>3. ASSUME NEW i \in 1 .. Len(head)
        PROVE  SubSeq(head', 1, i) \in safe' /\ ValidLink(head', i)
    <3>1. SubSeq(head', 1, i) = SubSeq(head, 1, i)
      BY <2>1, PrefixesOfLonger
    <3>2. ValidLink(head', i) <=> ValidLink(head, i)
      BY <2>1, LinkOfLonger
    <3>. QED
      BY <2>2, <3>1, <3>2 DEF IInv, HeadSound
  <2>4. /\ SubSeq(head', 1, Len(head) + 1) \in safe'
        /\ ValidLink(head', Len(head) + 1)
    BY <2>1, <2>2, SubSeqFull, LinkOfDecision
  <2>5. durable' <= Len(head')
    BY <2>1, <2>2 DEF IInv, TypeOK, HeadSound
  <2>6. \A i \in 1 .. Len(head') : i = Len(head) + 1 \/ i \in 1 .. Len(head)
    BY <2>1
  <2>7. \A i \in 1 .. Len(head') :
          SubSeq(head', 1, i) \in safe' /\ ValidLink(head', i)
    BY <2>3, <2>4, <2>6
  <2>. QED
    BY <2>5, <2>7 DEF HeadSound, ValidLink, Active
<1>2. CASE PowerLoss
  <2>1. PICK n \in 0 .. Len(head) :
          /\ head' = SubSeq(head, 1, n) /\ durable' = n
          /\ head \in Seq(Entry) /\ Len(head') = n /\ safe \subseteq safe'
    BY <1>2, AfterPowerLoss
  <2>2. ASSUME NEW i \in 1 .. n
        PROVE  SubSeq(head', 1, i) \in safe' /\ ValidLink(head', i)
    <3>1. SubSeq(head', 1, i) = SubSeq(head, 1, i)
      BY <2>1, Prefixes
    <3>2. ValidLink(head', i) <=> ValidLink(head, i)
      BY <2>1, LinkOfPrefix
    <3>3. i \in 1 .. Len(head)
      BY <2>1
    <3>4. SubSeq(head, 1, i) \in safe /\ ValidLink(head, i)
      BY <3>3 DEF IInv, HeadSound
    <3>. QED
      BY <2>1, <3>1, <3>2, <3>4
  <2>3. durable' <= Len(head')
    BY <2>1
  <2>. QED
    BY <2>1, <2>2, <2>3 DEF HeadSound, ValidLink, Active
<1>3. CASE ~PowerLoss /\ \A o \in Operators : ~ReplaceHead(o)
  <2>1. /\ head' = head /\ safe \subseteq safe'
        /\ durable' = durable \/ durable' = Len(head)
    BY <1>3, OtherSteps DEF SyncHead
  <2>2. durable' <= Len(head')
    BY <2>1 DEF IInv, TypeOK, HeadSound
  <2>3. \A i \in 1 .. Len(head') :
          SubSeq(head', 1, i) \in safe' /\ ValidLink(head', i)
    BY <2>1 DEF IInv, HeadSound
  <2>. QED
    BY <2>2, <2>3 DEF HeadSound, ValidLink, Active
<1>. QED
  BY <1>1, <1>2, <1>3

\* What was reported as applied stays where it is in the pointer's chain.
LEMMA AppliedStep == IInv /\ [Next]_vars => AppliedSurvives'
<1> SUFFICES ASSUME IInv, [Next]_vars PROVE AppliedSurvives'
  OBVIOUS
<1>0. /\ head \in Seq(Entry) /\ durable \in 0 .. Len(head)
      /\ applied \subseteq Seq(Entry)
      /\ \A c \in applied : Len(c) <= durable /\ SubSeq(head, 1, Len(c)) = c
  BY DEF IInv, TypeOK, HeadSound, AppliedSurvives
<1>1. ASSUME NEW o \in Operators, ReplaceHead(o) PROVE AppliedSurvives'
  <2>1. head' = Append(head, Last(chain[o])) /\ Last(chain[o]) \in Entry
    BY <1>1, ReplacedHead
  <2>2. applied' = applied /\ durable' = durable
    BY <1>1 DEF ReplaceHead, budget
  <2>3. ASSUME NEW c \in applied PROVE SubSeq(head', 1, Len(c)) = c
    <3>1. Len(c) \in 0 .. Len(head)
      BY <1>0
    <3>. QED
      BY <1>0, <2>1, <3>1, PrefixesOfLonger
  <2>. QED
    BY <1>0, <2>2, <2>3 DEF AppliedSurvives
<1>2. CASE PowerLoss
  <2>1. PICK n \in durable .. Len(head) :
          n \in 0 .. Len(head) /\ head' = SubSeq(head, 1, n) /\ durable' = n
    BY <1>2, AfterPowerLoss
  <2>2. applied' = applied
    BY <1>2 DEF PowerLoss
  <2>3. ASSUME NEW c \in applied
        PROVE  Len(c) <= durable' /\ SubSeq(head', 1, Len(c)) = c
    <3>1. Len(c) \in 0 .. n
      BY <1>0, <2>1
    <3>. QED
      BY <1>0, <2>1, <3>1, Prefixes
  <2>. QED
    BY <2>2, <2>3 DEF AppliedSurvives
<1>3. ASSUME NEW o \in Operators, SyncHead(o) PROVE AppliedSurvives'
  <2>1. chain[o] = head
    BY <1>3 DEF SyncHead, IInv, ChainsFollow
  <2>2. /\ head' = head /\ durable' = Len(head)
        /\ applied' = applied \cup {head}
    BY <1>3, <2>1 DEF SyncHead
  <2>3. SubSeq(head, 1, Len(head)) = head /\ Len(head) \in Nat
    BY <1>0, SubSeqFull
  <2>. QED
    BY <1>0, <2>2, <2>3 DEF AppliedSurvives
<1>4. CASE head' = head /\ durable' = durable /\ applied' = applied
  BY <1>0, <1>4 DEF AppliedSurvives
<1>. QED
  BY <1>1, <1>2, <1>3, <1>4, OtherSteps

\* A chain about to be published extends the pointer, which nobody else moves.
LEMMA ChainsStep == IInv /\ [Next]_vars => ChainsFollow'
<1> SUFFICES ASSUME IInv, [Next]_vars, NEW p \in Operators
             PROVE  /\ pc'[p] \in Writing =>
                         /\ chain'[p] = Append(head', Last(chain'[p]))
                         /\ Last(chain'[p]) \in Entry
                         /\ Ledger!Follows(Last(chain'[p]), head')
                         /\ request'[p].expected = Len(head')
                    /\ pc'[p] = "recorded" => chain'[p] \in safe'
                    /\ pc'[p] = "linked" => chain'[p] \in events'
                    /\ pc'[p] = "replaced" => chain'[p] = head'
                    /\ pc'[p] \in {"idle", "waiting", "locked"} =>
                         chain'[p] = <<>>
  BY DEF ChainsFollow, Last, Ledger!Follows, Ledger!ActiveAfter
<1> USE DEF Writing, Goto, Leave, files, budget
<1>0. /\ pc \in [Operators -> Stage] /\ chain \in [Operators -> Seq(Entry)]
      /\ request \in [Operators -> Request \cup {NoRequest}]
      /\ head \in Seq(Entry) /\ safe \subseteq events
      /\ \A o \in Operators : pc[o] # "idle" => request[o] \in Request
  BY DEF IInv, TypeOK
<1>1. /\ pc[p] \in Writing =>
           /\ chain[p] = Append(head, Last(chain[p]))
           /\ Last(chain[p]) \in Entry
           /\ Ledger!Follows(Last(chain[p]), head)
           /\ request[p].expected = Len(head)
      /\ pc[p] = "recorded" => chain[p] \in safe
      /\ pc[p] = "linked" => chain[p] \in events
      /\ pc[p] = "replaced" => chain[p] = head
      /\ pc[p] \in {"idle", "waiting", "locked"} => chain[p] = <<>>
  BY DEF IInv, ChainsFollow
<1>2. CASE PowerLoss
  BY <1>2 DEF PowerLoss
<1>3. ASSUME NEW o \in Operators, o # p, Step(o) \/ Interrupt(o)
      PROVE  /\ pc'[p] = pc[p] /\ chain'[p] = chain[p]
             /\ request'[p] = request[p]
             /\ head' = head \/ pc[p] \in {"idle", "waiting"}
             /\ safe \subseteq safe' /\ events \subseteq events'
  <2>1. head' = head \/ pc[o] \in Locked
    BY <1>3 DEF Step, Lock, Recheck, Refuse, LinkEvent, SyncEvents,
                ReplaceHead, SyncHead, Interrupt, Locked
  <2>2. /\ pc'[p] = pc[p] /\ chain'[p] = chain[p] /\ request'[p] = request[p]
        /\ safe \subseteq safe' /\ events \subseteq events'
    BY <1>0, <1>3 DEF Step, Lock, Recheck, Refuse, LinkEvent, SyncEvents,
                      ReplaceHead, SyncHead, Interrupt
  <2>. QED
    BY <1>3, <2>1, <2>2, OthersAreOutside
<1>4. CASE Recheck(p)
  <2>1. request[p] \in Request /\ Eligible(request[p]) /\ clock < MaxEvents
    BY <1>0, <1>4 DEF Recheck
  <2> DEFINE d == Decision(request[p])
  <2>2. /\ d \in Entry /\ Ledger!Follows(d, head)
        /\ request[p].expected = Len(head)
    BY <2>1, DecisionFollows DEF IInv
  <2>3. /\ pc'[p] = "planned" /\ chain'[p] = Append(head, d)
        /\ head' = head /\ request' = request
    BY <1>0, <1>4 DEF Recheck
  <2> HIDE DEF d
  <2>4. Last(chain'[p]) = d
    BY <1>0, <2>2, <2>3 DEF Last
  <2>. QED
    BY <2>2, <2>3, <2>4
<1>5. CASE Lock(p) \/ Refuse(p) \/ Interrupt(p) \/ SyncHead(p)
  BY <1>0, <1>1, <1>5 DEF Lock, Refuse, Interrupt, SyncHead
<1>6. CASE LinkEvent(p)
  BY <1>0, <1>1, <1>6 DEF LinkEvent
<1>7. CASE SyncEvents(p)
  BY <1>0, <1>1, <1>7 DEF SyncEvents
<1>8. CASE ReplaceHead(p)
  BY <1>0, <1>1, <1>8 DEF ReplaceHead
<1>9. ASSUME NEW o \in Operators, NEW r \in Request, Preflight(o, r)
      PROVE  /\ head' = head /\ safe' = safe /\ events' = events
             /\ chain' = chain
             /\ \/ pc'[p] = pc[p] /\ request'[p] = request[p]
                \/ pc[p] = "idle" /\ pc'[p] = "waiting"
  BY <1>0, <1>9 DEF Preflight
<1>10. CASE \/ \E v \in Vintages : Damage(v) \/ Restore(v)
            \/ UNCHANGED vars
  BY <1>1, <1>10 DEF Damage, Restore, vars
<1>11. ASSUME NEW o \in Operators, o # p, Step(o) \/ Interrupt(o),
              pc[p] \in {"idle", "waiting"}
       PROVE  pc'[p] \in {"idle", "waiting"} /\ chain'[p] = <<>>
  BY <1>1, <1>3, <1>11
<1>. QED
  BY <1>1, <1>2, <1>3, <1>4, <1>5, <1>6, <1>7, <1>8, <1>9, <1>10, <1>11
  DEF Next, Step

\* Every step keeps the inductive invariant, so that it always holds.
LEMMA Invariance == Spec => []IInv
<1>1. IInv /\ [Next]_vars => IInv'
  BY TypeStep, WriterStep, ChainsStep, HeadStep, AppliedStep DEF IInv
<1>. QED
  BY InitInv, <1>1, PTL DEF Spec

-----------------------------------------------------------------------------
\* Every reachable state of the store, its files and its operators is
\* well formed.
THEOREM TypeCorrect == Spec => []TypeOK
<1>1. IInv => TypeOK
  BY DEF IInv
<1>. QED
  BY Invariance, <1>1, PTL

\* flock excludes: whoever checks, writes or syncs does so alone.
THEOREM WriterAlone == Spec => []OneWriter
<1>1. IInv => OneWriter
  BY DEF IInv
<1>. QED
  BY Invariance, <1>1, PTL

\* _load never meets a missing event or an invalid link behind the pointer,
\* whatever write was cut short and whatever the power failure kept.
THEOREM HistoryAlwaysReadable == Spec => []HistoryReadable
<1>1. IInv => HistoryReadable
  BY DEF IInv, TypeOK, HeadSound, HistoryReadable, Readable
<1>. QED
  BY Invariance, <1>1, PTL

\* An operator told "applied" is never contradicted by a later history.
THEOREM AppliedIsKept == Spec => []AppliedSurvives
<1>1. IInv => AppliedSurvives
  BY DEF IInv
<1>. QED
  BY Invariance, <1>1, PTL

\* The pointer only moves on from the generation its operator previewed.
THEOREM ForwardFromExpected == Spec => MovesFromExpected
<1> DEFINE Move == \A o \in Operators :
             Len(head') > Len(head) /\ head' = chain[o] =>
               request[o].expected = Len(head) /\ Len(head') = Len(head) + 1
<1>1. IInv /\ [Next]_vars => [Move]_vars
  <2> SUFFICES ASSUME IInv, [Next]_vars, NEW o \in Operators,
                      Len(head') > Len(head), head' = chain[o]
               PROVE  /\ request[o].expected = Len(head)
                      /\ Len(head') = Len(head) + 1
    OBVIOUS
  <2>1. PICK p \in Operators : ReplaceHead(p)
    <3>1. CASE PowerLoss
      BY <3>1, AfterPowerLoss
    <3>2. CASE head' = head
      BY <3>2 DEF IInv, TypeOK
    <3>. QED
      BY <3>1, <3>2, OtherSteps
  <2>2. Len(head') = Len(head) + 1 /\ head' \in Seq(Entry) /\ Len(head) \in Nat
    BY <2>1, ReplacedHead
  <2>3. p = o
    <3> SUFFICES ASSUME p # o PROVE FALSE
      OBVIOUS
    <3>1. chain[o] = <<>>
      BY <2>1, OthersAreOutside DEF ReplaceHead, Locked
    <3>. QED
      BY <3>1, <2>2
  <2>4. request[o].expected = Len(head)
    BY <2>1, <2>3 DEF ReplaceHead, IInv, ChainsFollow, Writing
  <2>. QED
    BY <2>2, <2>4
<1>. QED
  BY Invariance, <1>1, PTL DEF Spec, MovesFromExpected

\* Seen from outside, the operators, the lock, the files and every failure
\* amount to one history that grows by one allowed decision at a time and whose
\* synced part is never taken back.
THEOREM LedgerImplemented == Spec => ImplementsLedger
<1>1. Init => Ledger!Init
  BY DEF Init, Ledger!Init
<1>2. IInv /\ [Next]_vars => [Ledger!Next]_<<head, durable>>
  <2> SUFFICES ASSUME IInv, [Next]_vars
               PROVE  [Ledger!Next]_<<head, durable>>
    OBVIOUS
  <2>1. ASSUME NEW o \in Operators, ReplaceHead(o) PROVE Ledger!Next
    <3> DEFINE d == Last(chain[o])
    <3>1. /\ d \in Entry /\ Ledger!Follows(d, head)
          /\ head' = Append(head, d) /\ durable' = durable
      BY <2>1, ReplacedHead DEF ReplaceHead
    <3>2. d \in Ledger!Decision
      BY <3>1 DEF Ledger!Decision, Entry, Actions
    <3>. QED
      BY <3>1, <3>2 DEF Ledger!Next, Ledger!Decide
  <2>2. CASE PowerLoss
    BY <2>2, AfterPowerLoss DEF Ledger!Next, Ledger!PowerLoss
  <2>3. CASE head' = head /\ durable' = durable
    BY <2>3
  <2>4. ASSUME NEW o \in Operators, SyncHead(o) PROVE Ledger!Next
    BY <2>4 DEF SyncHead, Ledger!Next, Ledger!Settle
  <2>. QED
    BY <2>1, <2>2, <2>3, <2>4, OtherSteps
<1>. QED
  BY Invariance, <1>1, <1>2, PTL DEF Spec, ImplementsLedger, Ledger!Spec
=============================================================================
