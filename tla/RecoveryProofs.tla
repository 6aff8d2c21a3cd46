--------------------------- MODULE RecoveryProofs ---------------------------
(***************************************************************************)
(* Proofs about Recovery, for any set of workers, any log, any number of   *)
(* faults and lost sessions.                                               *)
(***************************************************************************)
EXTENDS Recovery, FiniteSetTheorems, TLAPS

\* The claim table and the live sessions inside process() agree.
ClaimsAgree ==
  /\ \A w \in Workers : pc[w] \in Holding /\ session[w] => claim[at[w]] = w
  /\ \A o \in Offsets : claim[o] \in Workers =>
       /\ session[claim[o]]
       /\ pc[claim[o]] \in Holding
       /\ at[claim[o]] = o

\* A worker whose session lives has read a run that is not yet successful, and
\* nobody else can have completed it since.
ReadIsCurrent ==
  \A w \in Workers :
    pc[w] \in Trying \cup {"starting", "failing"} /\ session[w] =>
      runs[at[w]] # "success"

\* What each stage of process() has already achieved.
StageReached ==
  \A w \in Workers :
    /\ pc[w] \in {"decoding", "scanning", "appending", "finishing"} =>
         at[w] \in raw
    /\ pc[w] \in {"scanning", "appending", "finishing"} => at[w] \notin Poison
    /\ pc[w] = "finishing" => rows[at[w]] > 0
    /\ pc[w] = "acking" => runs[at[w]] = "success"

\* Everything before the message a worker processes, and before the committed
\* position, has succeeded.
PrefixSucceeded ==
  /\ \A o \in Offsets : o < committed => runs[o] = "success"
  /\ \A w \in Workers : pc[w] # "idle" =>
       \A o \in Offsets : o < at[w] => runs[o] = "success"

PoisonNeverLands == \A o \in Poison : rows[o] = 0

\* As long as no session was lost, a scan that found nothing is still right
\* when the append comes.
ScanIsCurrent ==
  lost = 0 =>
    /\ \A w \in Workers : session[w]
    /\ \A o \in Offsets : rows[o] <= 1
    /\ \A w \in Workers : pc[w] = "appending" => rows[at[w]] = 0

\* The inductive invariant behind the safety theorems.
IInv ==
  /\ TypeOK
  /\ ClaimsAgree
  /\ ReadIsCurrent
  /\ StageReached
  /\ PrefixSucceeded
  /\ SuccessIsDurable
  /\ PoisonNeverLands
  /\ ScanIsCurrent

-----------------------------------------------------------------------------
\* Before anything is published the invariant holds.
LEMMA InitInv == Init => IInv
BY WorkersAssumption, LogAssumption
DEF Init, IInv, TypeOK, ClaimsAgree, ReadIsCurrent, StageReached,
    PrefixSucceeded, SuccessIsDurable, PoisonNeverLands, ScanIsCurrent,
    Offsets, Status, Stage, Holding, Trying

\* Every step keeps every variable in its type.
LEMMA TypeStep == TypeOK /\ [Next]_vars => TypeOK'
<1> SUFFICES ASSUME TypeOK, [Next]_vars PROVE TypeOK'
  OBVIOUS
<1> USE LogAssumption
    DEF TypeOK, Offsets, Status, Stage, Holding, Trying, Goto, Fault,
        NoFault, kafka, postgres, budget, Unclaimed, AppendRow
<1>1. CASE Publish
  BY <1>1 DEF Publish
<1>2. ASSUME NEW w \in Workers, ConsumeOne(w) PROVE TypeOK'
  BY <1>2 DEF ConsumeOne
<1>3. ASSUME NEW w \in Workers, AcquireClaim(w) PROVE TypeOK'
  BY <1>3 DEF AcquireClaim
<1>4. ASSUME NEW w \in Workers, ClaimRefused(w) PROVE TypeOK'
  BY <1>4 DEF ClaimRefused
<1>5. ASSUME NEW w \in Workers, ReadPrevious(w) PROVE TypeOK'
  BY <1>5 DEF ReadPrevious
<1>6. ASSUME NEW w \in Workers, SaveRunning(w) PROVE TypeOK'
  BY <1>6 DEF SaveRunning
<1>7. ASSUME NEW w \in Workers, StoreRaw(w) PROVE TypeOK'
  BY <1>7 DEF StoreRaw
<1>8. ASSUME NEW w \in Workers, Decode(w) PROVE TypeOK'
  BY <1>8 DEF Decode
<1>9. ASSUME NEW w \in Workers, Scan(w) PROVE TypeOK'
  BY <1>9 DEF Scan
<1>10. ASSUME NEW w \in Workers, Append(w) PROVE TypeOK'
  BY <1>10 DEF Append
<1>11. ASSUME NEW w \in Workers, SaveSuccess(w) PROVE TypeOK'
  BY <1>11 DEF SaveSuccess
<1>12. ASSUME NEW w \in Workers, SaveFailed(w) PROVE TypeOK'
  BY <1>12 DEF SaveFailed
<1>13. ASSUME NEW w \in Workers, Acknowledge(w) PROVE TypeOK'
  BY <1>13 DEF Acknowledge
<1>14. ASSUME NEW w \in Workers, ReleaseClaim(w) PROVE TypeOK'
  BY <1>14 DEF ReleaseClaim
<1>15. ASSUME NEW w \in Workers, Restart(w) PROVE TypeOK'
  BY <1>15 DEF Restart
<1>16. ASSUME NEW w \in Workers, AppendThenFail(w) PROVE TypeOK'
  BY <1>16 DEF AppendThenFail
<1>17. ASSUME NEW w \in Workers, CallFails(w) PROVE TypeOK'
  BY <1>17 DEF CallFails
<1>18. ASSUME NEW w \in Workers, DatabaseFails(w) PROVE TypeOK'
  BY <1>18 DEF DatabaseFails
<1>19. ASSUME NEW w \in Workers, Crash(w) PROVE TypeOK'
  BY <1>19 DEF Crash
<1>20. ASSUME NEW w \in Workers, LoseSession(w) PROVE TypeOK'
  BY <1>20 DEF LoseSession
<1>21. ASSUME NEW w \in Workers, Evict(w) PROVE TypeOK'
  BY <1>21 DEF Evict
<1>22. CASE UNCHANGED vars
  BY <1>22 DEF vars
<1>. QED
  BY <1>1, <1>2, <1>3, <1>4, <1>5, <1>6, <1>7, <1>8, <1>9, <1>10, <1>11,
     <1>12, <1>13, <1>14, <1>15, <1>16, <1>17, <1>18, <1>19, <1>20, <1>21,
     <1>22
  DEF Next, Process, Disturb

\* Every step keeps the inductive invariant.
LEMMA InvStep == IInv /\ [Next]_vars => IInv'
<1> SUFFICES ASSUME IInv, [Next]_vars PROVE IInv'
  OBVIOUS
<1>0. TypeOK'
  BY TypeStep DEF IInv
<1> USE <1>0, WorkersAssumption, LogAssumption
    DEF IInv, TypeOK, ClaimsAgree, ReadIsCurrent, StageReached,
        PrefixSucceeded, SuccessIsDurable, PoisonNeverLands, ScanIsCurrent,
        Offsets, Status, Stage, Holding, Trying, Goto, Fault, NoFault, kafka,
        postgres, budget, Unclaimed, AppendRow
<1>1. CASE Publish
  BY <1>1 DEF Publish
<1>2. ASSUME NEW w \in Workers, ConsumeOne(w) PROVE IInv'
  <2>1. ClaimsAgree'
    BY <1>2 DEF ConsumeOne
  <2>2. ReadIsCurrent' /\ StageReached'
    BY <1>2 DEF ConsumeOne
  <2>3. PrefixSucceeded' /\ SuccessIsDurable' /\ PoisonNeverLands'
    BY <1>2 DEF ConsumeOne
  <2>4. ScanIsCurrent'
    BY <1>2 DEF ConsumeOne
  <2>. QED
    BY <2>1, <2>2, <2>3, <2>4
<1>3. ASSUME NEW w \in Workers, AcquireClaim(w) PROVE IInv'
  BY <1>3 DEF AcquireClaim
<1>4. ASSUME NEW w \in Workers, ClaimRefused(w) PROVE IInv'
  BY <1>4 DEF ClaimRefused
<1>5. ASSUME NEW w \in Workers, ReadPrevious(w) PROVE IInv'
  BY <1>5 DEF ReadPrevious
<1>6. ASSUME NEW w \in Workers, SaveRunning(w) PROVE IInv'
  \* The saver holds the claim, so no other worker with a live session is
  \* past its read of this run, and the run it overwrites is not a success.
  <2>1. runs[at[w]] # "success"
    BY <1>6 DEF SaveRunning
  <2>. QED
    BY <1>6, <2>1 DEF SaveRunning
<1>7. ASSUME NEW w \in Workers, StoreRaw(w) PROVE IInv'
  BY <1>7 DEF StoreRaw
<1>8. ASSUME NEW w \in Workers, Decode(w) PROVE IInv'
  BY <1>8 DEF Decode
<1>9. ASSUME NEW w \in Workers, Scan(w) PROVE IInv'
  BY <1>9 DEF Scan
<1>10. ASSUME NEW w \in Workers, Append(w) PROVE IInv'
  BY <1>10 DEF Append
<1>11. ASSUME NEW w \in Workers, SaveSuccess(w) PROVE IInv'
  \* Any other worker that still believes the run unfinished has no session.
  <2>1. \A v \in Workers : v # w /\ session[v] /\ pc[v] \in Holding =>
          at[v] # at[w]
    BY <1>11 DEF SaveSuccess
  <2>2. at[w] \in raw /\ rows[at[w]] > 0
    BY <1>11 DEF SaveSuccess
  <2>. QED
    BY <1>11, <2>1, <2>2 DEF SaveSuccess
<1>12. ASSUME NEW w \in Workers, SaveFailed(w) PROVE IInv'
  <2>1. ClaimsAgree'
    BY <1>12 DEF SaveFailed
  <2>2. ReadIsCurrent' /\ StageReached'
    BY <1>12 DEF SaveFailed
  <2>3. PrefixSucceeded' /\ SuccessIsDurable' /\ PoisonNeverLands'
    BY <1>12 DEF SaveFailed
  <2>4. ScanIsCurrent'
    BY <1>12 DEF SaveFailed
  <2>. QED
    BY <2>1, <2>2, <2>3, <2>4
<1>13. ASSUME NEW w \in Workers, Acknowledge(w) PROVE IInv'
  \* The commit may move the position back, but only to a message whose
  \* whole prefix has succeeded.
  <2>1. PrefixSucceeded'
    <3>1. committed' = committed \/ committed' = at[w] + 1
      BY <1>13 DEF Acknowledge
    <3>2. runs[at[w]] = "success" /\ at[w] \in Offsets
      BY <1>13 DEF Acknowledge
    <3>3. \A o \in Offsets : o < at[w] => runs[o] = "success"
      BY <1>13 DEF Acknowledge
    <3>4. \A o \in Offsets : o < at[w] + 1 => runs[o] = "success"
      BY <3>2, <3>3
    <3>. QED
      BY <1>13, <3>1, <3>4 DEF Acknowledge
  <2>2. ClaimsAgree' /\ ReadIsCurrent' /\ StageReached'
    BY <1>13 DEF Acknowledge
  <2>3. SuccessIsDurable' /\ PoisonNeverLands' /\ ScanIsCurrent'
    BY <1>13 DEF Acknowledge
  <2>. QED
    BY <2>1, <2>2, <2>3
<1>14. ASSUME NEW w \in Workers, ReleaseClaim(w) PROVE IInv'
  BY <1>14 DEF ReleaseClaim
<1>15. ASSUME NEW w \in Workers, Restart(w) PROVE IInv'
  BY <1>15 DEF Restart
<1>16. ASSUME NEW w \in Workers, AppendThenFail(w) PROVE IInv'
  <2>1. ClaimsAgree'
    BY <1>16 DEF AppendThenFail
  <2>2. ReadIsCurrent' /\ StageReached'
    BY <1>16 DEF AppendThenFail
  <2>3. PrefixSucceeded' /\ SuccessIsDurable' /\ PoisonNeverLands'
    BY <1>16 DEF AppendThenFail
  <2>4. ScanIsCurrent'
    BY <1>16 DEF AppendThenFail
  <2>. QED
    BY <2>1, <2>2, <2>3, <2>4
<1>17. ASSUME NEW w \in Workers, CallFails(w) PROVE IInv'
  BY <1>17 DEF CallFails
<1>18. ASSUME NEW w \in Workers, DatabaseFails(w) PROVE IInv'
  BY <1>18 DEF DatabaseFails
<1>19. ASSUME NEW w \in Workers, Crash(w) PROVE IInv'
  BY <1>19 DEF Crash
<1>20. ASSUME NEW w \in Workers, LoseSession(w) PROVE IInv'
  BY <1>20 DEF LoseSession
<1>21. ASSUME NEW w \in Workers, Evict(w) PROVE IInv'
  BY <1>21 DEF Evict
<1>22. CASE UNCHANGED vars
  BY <1>22 DEF vars
<1>. QED
  BY <1>1, <1>2, <1>3, <1>4, <1>5, <1>6, <1>7, <1>8, <1>9, <1>10, <1>11,
     <1>12, <1>13, <1>14, <1>15, <1>16, <1>17, <1>18, <1>19, <1>20, <1>21,
     <1>22
  DEF Next, Process, Disturb

\* So it holds in every reachable state.
LEMMA Invariance == Spec => []IInv
<1>1. QED
  BY InitInv, InvStep, PTL DEF Spec

-----------------------------------------------------------------------------
\* Types are respected; at[w] is a real offset whenever process() runs.
THEOREM TypeCorrect == Spec => []TypeOK
<1>1. IInv => TypeOK
  BY DEF IInv
<1>. QED
  BY Invariance, <1>1, PTL

\* process(): acknowledgement comes last, so whatever lies behind the group's
\* position is finished in PostgreSQL, S3 and Iceberg.
THEOREM AcknowledgedDurable == Spec => []AcknowledgedIsDurable
<1>1. IInv => AcknowledgedIsDurable
  BY DEF IInv, AcknowledgedIsDurable, PrefixSucceeded, SuccessIsDurable
<1>. QED
  BY Invariance, <1>1, PTL

\* process(): a run saved as successful has its raw object and its row.
THEOREM SuccessDurable == Spec => []SuccessIsDurable
<1>1. IInv => SuccessIsDurable
  BY DEF IInv
<1>. QED
  BY Invariance, <1>1, PTL

\* acquire_claim/release_claim: live sessions exclude each other per offset.
THEOREM ClaimExclusive == Spec => []ClaimIsExclusive
<1>1. IInv => ClaimIsExclusive
  BY DEF IInv, ClaimIsExclusive, ClaimsAgree
<1>. QED
  BY Invariance, <1>1, PTL

\* _decode_event: a malformed message never lands and is never passed.
THEOREM PoisonStays == Spec => []PoisonBlocks
<1>1. IInv => PoisonBlocks
  BY LogAssumption
  DEF IInv, TypeOK, PoisonBlocks, PoisonNeverLands, SuccessIsDurable,
      PrefixSucceeded, Offsets
<1>. QED
  BY Invariance, <1>1, PTL

\* save() replaces a snapshot unconditionally, yet no step of any worker
\* replaces a successful one by another status.
THEOREM SuccessFinal == Spec => SuccessIsFinal
<1>1. IInv /\ [Next]_vars =>
        [\A o \in Offsets : runs[o] = "success" => runs'[o] = "success"]_vars
  <2> SUFFICES ASSUME IInv, [Next]_vars, NEW o \in Offsets,
                      runs[o] = "success"
               PROVE  runs'[o] = "success"
    OBVIOUS
  <2>1. ASSUME NEW w \in Workers,
               SaveRunning(w) \/ SaveSuccess(w) \/ SaveFailed(w)
        PROVE  runs'[o] = "success"
    BY <2>1
    DEF SaveRunning, SaveSuccess, SaveFailed, IInv, TypeOK, ReadIsCurrent,
        Trying
  <2>2. (\E w \in Workers :
           SaveRunning(w) \/ SaveSuccess(w) \/ SaveFailed(w))
        \/ UNCHANGED runs
    BY DEF Next, vars, Process, Disturb, Publish, ConsumeOne, AcquireClaim,
           ClaimRefused, ReadPrevious, StoreRaw, Decode, Scan, Append,
           Acknowledge, ReleaseClaim, Restart, AppendThenFail, CallFails,
           DatabaseFails, Crash, LoseSession, Evict, postgres
  <2>. QED
    BY <2>1, <2>2
<1>. QED
  BY Invariance, <1>1, PTL DEF Spec, SuccessIsFinal
-----------------------------------------------------------------------------
(***************************************************************************)
(* Duplicates.  Every row of an offset, and every worker about to append   *)
(* one, beyond the first is matched by a session that was lost: a worker   *)
(* starts to append only if its scan found no row, and at most one worker  *)
(* per offset does so while its session lives (ClaimsAgree).               *)
(***************************************************************************)
Stale == {w \in Workers : ~session[w]}

Appending(o) == {w \in Workers : pc[w] = "appending" /\ at[w] = o}

LossesCounted ==
  /\ Cardinality(Stale) <= lost
  /\ \A o \in Offsets : rows[o] + Cardinality(Appending(o)) <= 1 + lost

\* Nothing is lost and nothing is about to be appended at first.
LEMMA CountedInit == Init => LossesCounted
<1> SUFFICES ASSUME Init PROVE LossesCounted
  OBVIOUS
<1>1. Stale = {}
  BY DEF Init, Stale
<1>2. \A o \in Offsets : Appending(o) = {}
  BY DEF Init, Appending
<1>3. Cardinality({}) = 0
  BY FS_EmptySet
<1>. QED
  BY <1>1, <1>2, <1>3 DEF Init, LossesCounted

\* The sets being counted are finite sets of workers.
LEMMA CountedFinite ==
  /\ \A S \in SUBSET Workers : IsFiniteSet(S) /\ Cardinality(S) \in Nat
  /\ \A S, T \in SUBSET Workers : S \subseteq T =>
       Cardinality(S) <= Cardinality(T)
  /\ \A S \in SUBSET Workers : \A w \in Workers :
       Cardinality(S \cup {w}) <= Cardinality(S) + 1
<1>1. \A S \in SUBSET Workers : IsFiniteSet(S) /\ Cardinality(S) \in Nat
  BY WorkersAssumption, FS_Subset, FS_CardinalityType
<1>2. \A S, T \in SUBSET Workers : S \subseteq T =>
        Cardinality(S) <= Cardinality(T)
  BY <1>1, FS_Subset
<1>3. \A S \in SUBSET Workers : \A w \in Workers :
        Cardinality(S \cup {w}) <= Cardinality(S) + 1
  <2> SUFFICES ASSUME NEW S \in SUBSET Workers, NEW w \in Workers
               PROVE  Cardinality(S \cup {w}) <= Cardinality(S) + 1
    OBVIOUS
  <2>1. IsFiniteSet(S) /\ Cardinality(S) \in Nat
    BY <1>1
  <2>2. Cardinality(S \cup {w}) =
          IF w \in S THEN Cardinality(S) ELSE Cardinality(S) + 1
    BY <2>1, FS_AddElement
  <2>. QED
    BY <2>1, <2>2
<1>. QED
  BY <1>1, <1>2, <1>3

\* A step that neither adds a row, nor a worker about to append, nor a stale
\* session keeps the count.
LEMMA CountedSame ==
  ASSUME TypeOK, LossesCounted, rows' = rows, lost' = lost,
         Stale' \subseteq Stale,
         \A o \in Offsets : Appending(o)' \subseteq Appending(o)
  PROVE  LossesCounted'
<1>1. Stale \in SUBSET Workers /\ Stale' \in SUBSET Workers
  BY DEF Stale
<1>2. \A o \in Offsets :
        Appending(o) \in SUBSET Workers /\ Appending(o)' \in SUBSET Workers
  BY DEF Appending
<1>3. Cardinality(Stale') <= lost
  BY <1>1, CountedFinite DEF LossesCounted, TypeOK
<1>4. \A o \in Offsets : rows[o] + Cardinality(Appending(o)') <= 1 + lost
  BY <1>2, CountedFinite DEF LossesCounted, TypeOK
<1>. QED
  BY <1>3, <1>4 DEF LossesCounted

\* Appending turns one worker about to append into one row.
LEMMA CountedAppend ==
  ASSUME TypeOK, LossesCounted, NEW w \in Workers, pc[w] = "appending",
         AppendRow(w), lost' = lost, session' = session, at' = at,
         \E stage \in Stage \ {"appending"} : Goto(w, stage)
  PROVE  LossesCounted'
<1>1. Stale' = Stale
  BY DEF Stale
<1>2. at[w] \in Offsets
  BY DEF TypeOK
<1>3. ASSUME NEW o \in Offsets
      PROVE  rows'[o] + Cardinality(Appending(o)') <= 1 + lost'
  <2>1. Appending(o) \in SUBSET Workers
    BY DEF Appending
  <2>2. CASE o = at[w]
    <3>1. w \in Appending(o) /\ Appending(o)' = Appending(o) \ {w}
      BY <2>2 DEF Appending, Goto, TypeOK
    <3>2. Cardinality(Appending(o)') = Cardinality(Appending(o)) - 1
      BY <2>1, <3>1, CountedFinite, FS_RemoveElement
    <3>3. rows'[o] = rows[o] + 1
      BY <2>2 DEF AppendRow, TypeOK
    <3>. QED
      BY <2>1, <3>2, <3>3, CountedFinite DEF LossesCounted, TypeOK
  <2>3. CASE o # at[w]
    <3>1. Appending(o)' = Appending(o)
      BY <2>3 DEF Appending, Goto, TypeOK
    <3>2. rows'[o] = rows[o]
      BY <2>3, <1>2 DEF AppendRow, TypeOK
    <3>. QED
      BY <3>1, <3>2 DEF LossesCounted
  <2>. QED
    BY <2>2, <2>3
<1>. QED
  BY <1>1, <1>3 DEF LossesCounted

\* The scan that finds nothing: whoever else is about to append the same
\* offset has lost its session.
LEMMA CountedScan ==
  ASSUME IInv, LossesCounted, NEW w \in Workers, Scan(w)
  PROVE  LossesCounted'
<1>1. Stale' = Stale /\ rows' = rows /\ lost' = lost
  BY DEF Scan, Stale, postgres, budget
<1>2. at[w] \in Offsets
  BY DEF Scan, IInv, TypeOK
<1>3. ASSUME NEW o \in Offsets
      PROVE  rows'[o] + Cardinality(Appending(o)') <= 1 + lost'
  <2>1. /\ Appending(o) \in SUBSET Workers
        /\ Stale \in SUBSET Workers
        /\ Appending(o)' \in SUBSET Workers
    BY DEF Appending, Stale
  <2>2. CASE o = at[w] /\ rows[o] = 0
    <3>1. \A v \in Appending(o)' : v \in Stale \cup {w} \/ ~session[w]
      BY <2>2 DEF Appending, Stale, Scan, Goto, IInv, TypeOK, ClaimsAgree,
                  Holding, Trying
    <3>2. PICK v \in Workers : Appending(o)' \subseteq Stale \cup {v}
      <4>1. CASE session[w]
        BY <3>1, <4>1
      <4>2. CASE ~session[w]
        <5>1. w \in Stale
          BY <4>2 DEF Stale
        <5>2. \A u, v \in Appending(o)' : u \notin Stale /\ v \notin Stale =>
                u = v
          BY <2>2, <5>1 DEF Appending, Stale, Scan, Goto, IInv, TypeOK,
                  ClaimsAgree, Holding, Trying
        <5>. QED
          BY <2>1, <5>2
      <4>. QED
        BY <4>1, <4>2
    <3>3. Stale \cup {v} \in SUBSET Workers
      BY <2>1
    <3>4. Cardinality(Appending(o)') <= Cardinality(Stale \cup {v})
      BY <2>1, <3>2, <3>3, CountedFinite
    <3>5. Cardinality(Stale \cup {v}) <= Cardinality(Stale) + 1
      BY <2>1, CountedFinite
    <3>6. /\ Cardinality(Stale) \in Nat
          /\ Cardinality(Stale \cup {v}) \in Nat
          /\ Cardinality(Appending(o)') \in Nat
      BY <2>1, <3>3, CountedFinite
    <3>. QED
      BY <1>1, <2>2, <3>4, <3>5, <3>6
      DEF LossesCounted, IInv, TypeOK
  <2>3. CASE ~(o = at[w] /\ rows[o] = 0)
    <3>1. Appending(o)' \subseteq Appending(o)
      BY <1>2, <2>3 DEF Appending, Scan, Goto, IInv, TypeOK
    <3>. QED
      BY <1>1, <2>1, <3>1, CountedFinite DEF LossesCounted, IInv, TypeOK
  <2>. QED
    BY <2>2, <2>3
<1>4. Cardinality(Stale') <= lost'
  BY <1>1 DEF LossesCounted
<1>. QED
  BY <1>3, <1>4 DEF LossesCounted

\* A lost session makes its worker stale and is counted itself.
LEMMA CountedLoss ==
  ASSUME TypeOK, LossesCounted, NEW w \in Workers, LoseSession(w)
  PROVE  LossesCounted'
<1>1. Stale' = Stale \cup {w} /\ rows' = rows /\ lost' = lost + 1
  BY DEF LoseSession, Stale, TypeOK
<1>2. \A o \in Offsets : Appending(o)' = Appending(o)
  BY DEF LoseSession, Appending
<1>3. Stale \in SUBSET Workers /\ \A o \in Offsets : Appending(o) \in SUBSET Workers
  BY DEF Stale, Appending
<1>4. Cardinality(Stale') <= lost'
  BY <1>1, <1>3, CountedFinite DEF LossesCounted, TypeOK
<1>5. \A o \in Offsets : rows'[o] + Cardinality(Appending(o)') <= 1 + lost'
  BY <1>1, <1>2, <1>3, CountedFinite DEF LossesCounted, TypeOK
<1>. QED
  BY <1>4, <1>5 DEF LossesCounted

\* Every step keeps the count.
LEMMA CountedStep == IInv /\ LossesCounted /\ [Next]_vars => LossesCounted'
<1> SUFFICES ASSUME IInv, LossesCounted, [Next]_vars PROVE LossesCounted'
  OBVIOUS
<1>1. TypeOK
  BY DEF IInv
<1>2. ASSUME NEW w \in Workers, Append(w) \/ AppendThenFail(w)
      PROVE  LossesCounted'
  BY <1>1, <1>2, CountedAppend
  DEF Append, AppendThenFail, Stage, Holding, Trying, postgres, budget
<1>3. ASSUME NEW w \in Workers, Scan(w) PROVE LossesCounted'
  BY <1>3, CountedScan
<1>4. ASSUME NEW w \in Workers, LoseSession(w) PROVE LossesCounted'
  BY <1>1, <1>4, CountedLoss
<1>5. ASSUME NEW w \in Workers,
             \/ Process(w) \/ Disturb(w)
             \/ Publish \/ UNCHANGED vars,
             ~Append(w), ~AppendThenFail(w), ~Scan(w), ~LoseSession(w)
      PROVE  LossesCounted'
  <2> USE <1>1, <1>5
      DEF Process, Disturb, Publish, vars, ConsumeOne, AcquireClaim,
          ClaimRefused, ReadPrevious, SaveRunning, StoreRaw, Decode,
          SaveSuccess, SaveFailed, Acknowledge, ReleaseClaim, Restart,
          CallFails, DatabaseFails, Crash, Evict, kafka, postgres, budget,
          Goto, TypeOK, Fault, NoFault
  <2>1. rows' = rows /\ lost' = lost
    OBVIOUS
  <2>2. Stale' \subseteq Stale
    BY DEF Stale
  <2>3. \A o \in Offsets : Appending(o)' \subseteq Appending(o)
    BY DEF Appending
  <2>. QED
    BY <2>1, <2>2, <2>3, CountedSame
<1>6. CASE Publish \/ UNCHANGED vars
  <2>1. rows' = rows /\ lost' = lost /\ Stale' = Stale
    BY <1>6 DEF Publish, vars, postgres, budget, Stale
  <2>2. \A o \in Offsets : Appending(o)' = Appending(o)
    BY <1>6 DEF Publish, vars, Appending
  <2>. QED
    BY <1>1, <2>1, <2>2, CountedSame
<1>. QED
  BY <1>2, <1>3, <1>4, <1>5, <1>6 DEF Next

\* append() never looks at the claim or at the scan again: a row beyond the
\* first costs one database session lost under a worker, and nothing else.
THEOREM DuplicatesBounded == Spec => []DuplicatesNeedLostSessions
<1>1. Spec => []LossesCounted
  BY Invariance, CountedInit, CountedStep, PTL DEF Spec
<1>2. IInv /\ LossesCounted => DuplicatesNeedLostSessions
  <2> SUFFICES ASSUME IInv, LossesCounted, NEW o \in Offsets
               PROVE  rows[o] <= 1 + lost
    BY DEF DuplicatesNeedLostSessions
  <2>1. Cardinality(Appending(o)) \in Nat
    BY CountedFinite DEF Appending
  <2>. QED
    BY <2>1 DEF LossesCounted, IInv, TypeOK
<1>. QED
  BY Invariance, <1>1, <1>2, PTL

-----------------------------------------------------------------------------
Unbroken == lost = 0

\* While no session can be lost, every step of the workers is a step of the
\* abstract ledger or leaves it alone.
THEOREM LedgerImplemented ==
  ASSUME MaxSessionLoss = 0 PROVE Spec => ImplementsLedger
<1>1. Init => Ledger!Init
  BY DEF Init, Ledger!Init, Ledger!Positions, Offsets
<1>2. Init => Unbroken
  BY DEF Init, Unbroken
<1>3. IInv /\ Unbroken /\ [Next]_vars => Unbroken'
  BY DEF Unbroken, Next, vars, Process, Disturb, Publish, ConsumeOne, AcquireClaim,
         ClaimRefused, ReadPrevious, SaveRunning, StoreRaw, Decode, Scan,
         Append, SaveSuccess, SaveFailed, Acknowledge, ReleaseClaim, Restart,
         AppendThenFail, CallFails, DatabaseFails, Crash, LoseSession, Evict,
         budget, NoFault
<1>4. IInv /\ Unbroken /\ [Next]_vars => [Ledger!Next]_<<rows, committed>>
  <2> SUFFICES ASSUME IInv, lost = 0, [Next]_vars
               PROVE  [Ledger!Next]_<<rows, committed>>
    BY DEF Unbroken
  <2>1. ASSUME NEW w \in Workers, Append(w) \/ AppendThenFail(w)
        PROVE  Ledger!Land(at[w]) /\ at[w] \in Ledger!Positions
    <3>1. at[w] \in Offsets /\ rows[at[w]] = 0 /\ at[w] \notin Poison
      BY <2>1
      DEF Append, AppendThenFail, IInv, TypeOK, StageReached, ScanIsCurrent
    <3>2. \A o \in Offsets : o < at[w] => runs[o] = "success"
      BY <2>1 DEF Append, AppendThenFail, IInv, PrefixSucceeded
    <3>3. \A o \in Offsets : o < at[w] => rows[o] = 1
      BY <3>2 DEF IInv, TypeOK, SuccessIsDurable, ScanIsCurrent
    <3>4. rows' = [rows EXCEPT ![at[w]] = 1] /\ committed' = committed
      BY <2>1, <3>1
      DEF Append, AppendThenFail, AppendRow, kafka, IInv, TypeOK
    <3>. QED
      BY <3>1, <3>3, <3>4
      DEF Ledger!Land, Ledger!LandedBefore, Ledger!Positions, Offsets
  <2>2. ASSUME NEW w \in Workers, Acknowledge(w), committed' # committed
        PROVE  Ledger!Settle(at[w] + 1) /\ at[w] + 1 \in 0 .. LogLength
    <3>1. at[w] \in Offsets /\ committed' = at[w] + 1 /\ rows' = rows
      BY <2>2 DEF Acknowledge, IInv, TypeOK
    <3>2. \A o \in Offsets : o < at[w] + 1 => runs[o] = "success"
      BY <2>2, <3>1
      DEF Acknowledge, IInv, StageReached, PrefixSucceeded, Offsets
    <3>3. \A o \in Offsets : o < at[w] + 1 => rows[o] = 1
      BY <3>2 DEF IInv, TypeOK, SuccessIsDurable, ScanIsCurrent
    <3>. QED
      BY <3>1, <3>3, LogAssumption
      DEF Ledger!Settle, Ledger!LandedBefore, Ledger!Positions, Offsets
  <2>3. \/ \E w \in Workers : Append(w) \/ AppendThenFail(w)
        \/ \E w \in Workers : Acknowledge(w)
        \/ UNCHANGED <<rows, committed>>
    BY DEF Next, vars, Process, Disturb, Publish, ConsumeOne, AcquireClaim,
        ClaimRefused, ReadPrevious, SaveRunning, StoreRaw, Decode, Scan,
        SaveSuccess, SaveFailed, ReleaseClaim, Restart, CallFails,
        DatabaseFails, Crash, LoseSession, Evict, kafka
  <2>4. \A w \in Workers : Acknowledge(w) => rows' = rows
    BY DEF Acknowledge
  <2>. QED
    BY <2>1, <2>2, <2>3, <2>4 DEF Ledger!Next
<1>. QED
  BY Invariance, <1>1, <1>2, <1>3, <1>4, PTL
  DEF Spec, ImplementsLedger, Ledger!Spec
=============================================================================
