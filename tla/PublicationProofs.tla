-------------------------- MODULE PublicationProofs --------------------------
(***************************************************************************)
(* Proofs about Publication, for any publishers, attempts and record ids,  *)
(* and any number of faults and of changes by other writers.               *)
(***************************************************************************)
EXTENDS Publication, TLAPS

\* A failure that stops the execution, as opposed to a rejection by the gate.
Broken(e) ==
  e.failure \in {"source_validation_failed", "database_error",
                 "reconciliation_failed"}

\* Evidence that is complete: the execution broke, or it ended in a verdict.
Judged(e) ==
  \/ Broken(e)
  \/ e.receipt /\ e.report = "drift" /\ e.failure = "acceptance_rejected"
  \/ e.receipt /\ e.report = "pass" /\ e.failure = "none"

\* What a process has gathered at each stage of _execute; once linked, the
\* record it builds is in the archive.
AtStage(p) ==
  /\ pc[p] \in {"idle", "opening", "writing"} => evidence[p] = NoEvidence
  /\ pc[p] = "reading" =>
       /\ evidence[p].receipt
       /\ evidence[p].report = "none"
       /\ evidence[p].failure = "none"
  /\ pc[p] \in {"closing", "recording", "linked"} => Judged(evidence[p])
  /\ pc[p] = "linked" => Build(p) \in archive

EvidenceByStage == \A p \in Publishers : AtStage(p)

\* The sink holds the plan and nothing else.
Whole(s) == sink[s] = [i \in RecordIds |-> IF i \in Ids THEN "good" ELSE "absent"]

\* Between the read-back and the record, too, what was found matching stays.
PassStays ==
  \A p \in Publishers :
    evidence[p].report = "pass" /\ request[p].sink \notin touched =>
      Whole(request[p].sink)

-----------------------------------------------------------------------------
\* A process notes one field of its own evidence.
LEMMA FailureNoted ==
  ASSUME TypeOK, NEW p \in Publishers, NEW c \in Failure, Note(p, "failure", c)
  PROVE  /\ evidence' \in [Publishers -> Evidence]
         /\ evidence'[p].failure = c
         /\ evidence'[p].receipt = evidence[p].receipt
         /\ evidence'[p].report = evidence[p].report
         /\ \A q \in Publishers : q # p => evidence'[q] = evidence[q]
<1> DEFINE e == [evidence[p] EXCEPT !["failure"] = c]
<1>1. evidence' = [evidence EXCEPT ![p] = e]
  BY DEF Note
<1>2. /\ e \in Evidence
      /\ e.failure = c
      /\ e.receipt = evidence[p].receipt /\ e.report = evidence[p].report
  BY DEF TypeOK, Evidence
<1>3. /\ evidence' \in [Publishers -> Evidence]
      /\ evidence'[p] = e
      /\ \A q \in Publishers : q # p => evidence'[q] = evidence[q]
  <2> HIDE DEF e
  <2>. QED
    BY <1>1, <1>2 DEF TypeOK
<1> HIDE DEF e
<1>. QED
  BY <1>2, <1>3

LEMMA ReceiptNoted ==
  ASSUME TypeOK, NEW p \in Publishers, Note(p, "receipt", TRUE)
  PROVE  /\ evidence' \in [Publishers -> Evidence]
         /\ evidence'[p].receipt
         /\ evidence'[p].report = evidence[p].report
         /\ evidence'[p].failure = evidence[p].failure
         /\ \A q \in Publishers : q # p => evidence'[q] = evidence[q]
<1> DEFINE e == [evidence[p] EXCEPT !["receipt"] = TRUE]
<1>1. evidence' = [evidence EXCEPT ![p] = e]
  BY DEF Note
<1>2. /\ e \in Evidence
      /\ e.receipt
      /\ e.report = evidence[p].report /\ e.failure = evidence[p].failure
  BY DEF TypeOK, Evidence
<1>3. /\ evidence' \in [Publishers -> Evidence]
      /\ evidence'[p] = e
      /\ \A q \in Publishers : q # p => evidence'[q] = evidence[q]
  <2> HIDE DEF e
  <2>. QED
    BY <1>1, <1>2 DEF TypeOK
<1> HIDE DEF e
<1>. QED
  BY <1>2, <1>3

\* The read-back adds its verdict, and a pass settles the sink.
LEMMA Reconciled ==
  ASSUME TypeOK, NEW p \in Publishers, Reconcile(p)
  PROVE  /\ evidence' \in [Publishers -> Evidence]
         /\ evidence'[p].receipt = evidence[p].receipt
         /\ \A q \in Publishers : q # p => evidence'[q] = evidence[q]
         /\ \/ /\ Passes(request[p].sink)
               /\ evidence'[p].report = "pass"
               /\ evidence'[p].failure = evidence[p].failure
               /\ touched' = touched \ {request[p].sink}
            \/ /\ evidence'[p].report = "drift"
               /\ evidence'[p].failure = "acceptance_rejected"
               /\ touched' = touched
<1>1. CASE Passes(request[p].sink)
  <2> DEFINE e == [evidence[p] EXCEPT !.report = "pass"]
  <2>1. evidence' = [evidence EXCEPT ![p] = e] /\ touched' = touched \ {request[p].sink}
    BY <1>1 DEF Reconcile
  <2>2. /\ e \in Evidence /\ e.report = "pass"
        /\ e.receipt = evidence[p].receipt /\ e.failure = evidence[p].failure
    BY DEF TypeOK, Evidence
  <2> HIDE DEF e
  <2>. QED
    BY <1>1, <2>1, <2>2 DEF TypeOK
<1>2. CASE ~Passes(request[p].sink)
  <2> DEFINE e == [evidence[p] EXCEPT !.report = "drift",
                                     !.failure = "acceptance_rejected"]
  <2>1. evidence' = [evidence EXCEPT ![p] = e] /\ touched' = touched
    BY <1>2 DEF Reconcile, TypeOK
  <2>2. /\ e \in Evidence /\ e.receipt = evidence[p].receipt
        /\ e.report = "drift" /\ e.failure = "acceptance_rejected"
    BY DEF TypeOK, Evidence, Failure
  <2> HIDE DEF e
  <2>. QED
    BY <2>1, <2>2 DEF TypeOK
<1>. QED
  BY <1>1, <1>2

\* Writing records of the plan keeps the type of the sinks, and leaves a whole
\* sink whole.
LEMMA WrittenKeeps ==
  ASSUME TypeOK, NEW s \in Sinks, NEW ids \in SUBSET Ids,
         sink' \in {sink, Written(s, ids)}
  PROVE  /\ sink' \in [Sinks -> [RecordIds -> Value]]
         /\ \A t \in Sinks : Whole(t) => Whole(t)'
<1>1. CASE sink' = sink
  BY <1>1 DEF TypeOK, Whole
<1>2. CASE sink' = Written(s, ids)
  <2>1. sink' \in [Sinks -> [RecordIds -> Value]]
    BY <1>2 DEF TypeOK, Written, Value
  <2>2. ASSUME NEW t \in Sinks, Whole(t) PROVE Whole(t)'
    <3>1. CASE t = s
      BY <1>2, <2>2, <3>1, IdsAssumption DEF TypeOK, Written, Whole, RecordIds
    <3>2. CASE t # s
      BY <1>2, <2>2, <3>2 DEF TypeOK, Written, Whole
    <3>. QED
      BY <3>1, <3>2
  <2>. QED
    BY <2>1, <2>2
<1>. QED
  BY <1>1, <1>2

\* What a process builds is a record, if it was asked for one.
LEMMA BuiltIsRecord ==
  ASSUME TypeOK, NEW p \in Publishers, request[p].attempt # NoAttempt
  PROVE  /\ Build(p) \in Record
         /\ Build(p).attempt = request[p].attempt
         /\ Build(p).sink = request[p].sink
         /\ Build(p).outcome \in Outcome
         /\ Build(p).outcome = "accepted" => evidence[p].report = "pass"
<1>1. /\ request[p].attempt \in Attempts /\ request[p].sink \in Sinks
      /\ evidence[p] \in Evidence
  BY DEF TypeOK, Request
<1>2. FailureCode(evidence[p]) \in Failure
  BY <1>1 DEF FailureCode, Evidence, Failure
<1>. QED
  BY <1>1, <1>2 DEF Build, Record, Outcome, Evidence, Failure

\* Complete evidence makes a record that _validate accepts.
LEMMA JudgedComposes ==
  ASSUME TypeOK, NEW p \in Publishers, Judged(evidence[p])
  PROVE  Consistent(Build(p))
  BY DEF TypeOK, Judged, Broken, Consistent, Build, FailureCode, Evidence

\* Only a process that links its record adds to the archive, and only a power
\* loss takes from it.
LEMMA ArchiveSteps ==
  ASSUME [Next]_vars
  PROVE  \/ archive' = archive
         \/ \E p \in Publishers : LinkRecord(p)
         \/ PowerLoss
<1> USE DEF files
<1>1. ASSUME NEW p \in Publishers, Step(p), ~LinkRecord(p)
      PROVE  archive' = archive
  BY <1>1 DEF Step, Open, Commit, Replace, AllReplaced, Reconcile,
              ReconcileFails, Close, Finish, SyncRecord, RecordRefused
<1>2. ASSUME NEW p \in Publishers, Disturb(p) PROVE archive' = archive
  BY <1>2 DEF Disturb, OpenFails, SourceChanged, CommitFails, ReplaceFails,
              CloseFails, SyncFails, Kill
<1>3. ASSUME NEW p \in Publishers, NEW r \in Request, Prepare(p, r) \/ Replay(p, r)
      PROVE  archive' = archive
  BY <1>3 DEF Prepare, Replay
<1>4. CASE \/ \E s \in Sinks, i \in RecordIds, v \in Value : Tamper(s, i, v)
           \/ UNCHANGED vars
  BY <1>4 DEF Tamper, vars
<1>. QED
  BY <1>1, <1>2, <1>3, <1>4 DEF Next

-----------------------------------------------------------------------------
\* A process that exits leaves typed work behind.
LEMMA ExitKeepsType ==
  ASSUME TypeOK, NEW p \in Publishers, Exit(p)
  PROVE  /\ pc' \in [Publishers -> Stage]
         /\ request' \in [Publishers -> Request]
         /\ left' \in [Publishers -> SUBSET Ids]
         /\ evidence' \in [Publishers -> Evidence]
  BY DEF TypeOK, Exit, Goto, Stage, Request, NoRequest, Sinks, Evidence,
         NoEvidence, Failure

LEMMA TypeInit == Init => TypeOK
  BY BoundsAssumption
  DEF Init, TypeOK, Value, Stage, Request, NoRequest, Sinks, Evidence,
      NoEvidence, Failure

LEMMA TypeStep == TypeOK /\ EvidenceByStage /\ [Next]_vars => TypeOK'
<1> SUFFICES ASSUME TypeOK, EvidenceByStage, [Next]_vars PROVE TypeOK'
  OBVIOUS
<1> USE DEF files, budget
<1>1. ASSUME NEW p \in Publishers, Step(p) PROVE TypeOK'
  <2>1. CASE Open(p)
    BY <2>1 DEF Open, Goto, TypeOK, Stage
  <2>2. CASE Commit(p)
    <3>1. sink' \in [Sinks -> [RecordIds -> Value]]
      BY <2>2, WrittenKeeps DEF Commit, TypeOK, Sinks
    <3>2. evidence' \in [Publishers -> Evidence]
      BY <2>2, ReceiptNoted DEF Commit
    <3>. QED
      BY <2>2, <3>1, <3>2 DEF Commit, Goto, TypeOK, Stage
  <2>3. ASSUME NEW i \in Ids, Replace(p, i) PROVE TypeOK'
    <3>1. sink' \in [Sinks -> [RecordIds -> Value]]
      BY <2>3, WrittenKeeps DEF Replace, Sinks
    <3>. QED
      BY <2>3, <3>1 DEF Replace, TypeOK
  <2>4. CASE AllReplaced(p)
    <3>1. evidence' \in [Publishers -> Evidence]
      BY <2>4, ReceiptNoted DEF AllReplaced
    <3>. QED
      BY <2>4, <3>1 DEF AllReplaced, Goto, TypeOK, Stage
  <2>5. CASE Reconcile(p)
    <3>1. evidence' \in [Publishers -> Evidence] /\ touched' \subseteq Sinks
      BY <2>5, Reconciled DEF TypeOK
    <3>. QED
      BY <2>5, <3>1 DEF Reconcile, Goto, TypeOK, Stage
  <2>6. CASE ReconcileFails(p)
    <3>1. evidence' \in [Publishers -> Evidence]
      BY <2>6, FailureNoted DEF ReconcileFails, Failure
    <3>2. faults' \in Nat /\ tampers' \in Nat
      BY <2>6 DEF ReconcileFails, Fault, TypeOK
    <3>. QED
      BY <2>6, <3>1, <3>2 DEF ReconcileFails, Goto, TypeOK, Stage
  <2>7. CASE Close(p)
    BY <2>7 DEF Close, Goto, TypeOK, Stage
  <2>8. CASE Finish(p)
    BY <2>8, ExitKeepsType DEF Finish, TypeOK
  <2>9. CASE LinkRecord(p)
    BY <2>9, BuiltIsRecord DEF LinkRecord, Goto, TypeOK, Stage
  <2>10. CASE SyncRecord(p)
    <3>1. Build(p) \in Record
      BY <2>10 DEF SyncRecord, EvidenceByStage, AtStage, TypeOK
    <3>2. request[p].attempt \in Attempts /\ Build(p).outcome \in Outcome
      BY <3>1 DEF Record, Build
    <3>3. told' \subseteq Attempts \X Outcome
      BY <2>10, <3>2 DEF SyncRecord, TypeOK
    <3>. QED
      BY <2>10, <3>3, ExitKeepsType DEF SyncRecord, TypeOK
  <2>11. CASE RecordRefused(p)
    BY <2>11, ExitKeepsType DEF RecordRefused, Fault, TypeOK
  <2>. QED
    BY <1>1, <2>1, <2>2, <2>3, <2>4, <2>5, <2>6, <2>7, <2>8, <2>9, <2>10, <2>11
    DEF Step
<1>2. ASSUME NEW p \in Publishers, Disturb(p) PROVE TypeOK'
  <2>1. CASE OpenFails(p) \/ SourceChanged(p) \/ CloseFails(p)
    <3>1. evidence' \in [Publishers -> Evidence]
      BY <2>1, FailureNoted DEF OpenFails, SourceChanged, CloseFails, Failure
    <3>. QED
      BY <2>1, <3>1
      DEF OpenFails, SourceChanged, CloseFails, Fault, Goto, TypeOK, Stage
  <2>2. CASE CommitFails(p)
    <3>1. sink' \in [Sinks -> [RecordIds -> Value]]
      BY <2>2, WrittenKeeps DEF CommitFails, TypeOK, Sinks
    <3>2. evidence' \in [Publishers -> Evidence]
      BY <2>2, FailureNoted DEF CommitFails, Failure
    <3>3. faults' \in Nat /\ pc' \in [Publishers -> Stage]
      BY <2>2 DEF CommitFails, Fault, Goto, TypeOK, Stage
    <3>. QED
      BY <2>2, <3>1, <3>2, <3>3 DEF CommitFails, Fault, TypeOK
  <2>3. ASSUME NEW i \in Ids, ReplaceFails(p, i) PROVE TypeOK'
    <3>1. sink' \in [Sinks -> [RecordIds -> Value]]
      BY <2>3, WrittenKeeps DEF ReplaceFails, Sinks
    <3>2. evidence' \in [Publishers -> Evidence]
      BY <2>3, FailureNoted DEF ReplaceFails, Failure
    <3>3. faults' \in Nat /\ pc' \in [Publishers -> Stage]
      BY <2>3 DEF ReplaceFails, Fault, Goto, TypeOK, Stage
    <3>. QED
      BY <2>3, <3>1, <3>2, <3>3 DEF ReplaceFails, Fault, TypeOK
  <2>4. CASE SyncFails(p)
    BY <2>4, ExitKeepsType DEF SyncFails, Fault, TypeOK
  <2>5. CASE Kill(p)
    BY <2>5, ExitKeepsType DEF Kill, Fault, TypeOK
  <2>. QED
    BY <1>2, <2>1, <2>2, <2>3, <2>4, <2>5 DEF Disturb
<1>3. ASSUME NEW p \in Publishers, NEW r \in Request, Prepare(p, r) PROVE TypeOK'
  BY <1>3 DEF Prepare, Goto, TypeOK, Stage
<1>4. ASSUME NEW p \in Publishers, NEW r \in Request, Replay(p, r) PROVE TypeOK'
  BY <1>4 DEF Replay, RecordsOf, TypeOK, Record
<1>5. CASE PowerLoss
  BY <1>5 DEF PowerLoss, Fault, TypeOK, Stage, Request, NoRequest, Sinks,
              Evidence, NoEvidence, Failure
<1>6. ASSUME NEW s \in Sinks, NEW i \in RecordIds, NEW v \in Value, Tamper(s, i, v)
      PROVE  TypeOK'
  BY <1>6 DEF Tamper, TypeOK
<1>7. CASE UNCHANGED vars
  BY <1>7 DEF vars, TypeOK
<1>. QED
  BY <1>1, <1>2, <1>3, <1>4, <1>5, <1>6, <1>7 DEF Next

-----------------------------------------------------------------------------
\* A step of one process concerns nobody else's stage.
LEMMA OthersStay ==
  ASSUME TypeOK, EvidenceByStage, NEW p \in Publishers,
         archive \subseteq archive',
         \A q \in Publishers : q # p =>
           /\ pc'[q] = pc[q]
           /\ evidence'[q] = evidence[q]
           /\ request'[q] = request[q],
         AtStage(p)'
  PROVE  EvidenceByStage'
<1>1. ASSUME NEW q \in Publishers, q # p PROVE AtStage(q)'
  <2>1. Build(q)' = Build(q)
    BY <1>1 DEF Build, FailureCode
  <2>2. AtStage(q)
    BY DEF EvidenceByStage
  <2>. QED
    BY <1>1, <2>1, <2>2 DEF AtStage, Judged, Broken
<1>. QED
  BY <1>1 DEF EvidenceByStage

\* A process that exits has nothing.
LEMMA ExitKeepsStages ==
  ASSUME TypeOK, EvidenceByStage, NEW p \in Publishers, Exit(p),
         archive' = archive
  PROVE  EvidenceByStage'
<1>1. AtStage(p)'
  BY DEF Exit, Goto, AtStage, TypeOK
<1>. QED
  BY <1>1, OthersStay DEF Exit, Goto, TypeOK

\* A process that fails goes on with broken evidence.
LEMMA FailureKeepsStages ==
  ASSUME TypeOK, EvidenceByStage, NEW p \in Publishers,
         NEW c \in {"source_validation_failed", "database_error",
                    "reconciliation_failed"},
         NEW stage \in {"closing", "recording"},
         Note(p, "failure", c), Goto(p, stage),
         archive' = archive, request' = request
  PROVE  EvidenceByStage'
<1>1. /\ evidence'[p].failure = c
      /\ \A q \in Publishers : q # p => evidence'[q] = evidence[q]
  BY FailureNoted DEF Failure
<1>2. AtStage(p)'
  BY <1>1 DEF Goto, AtStage, TypeOK, Judged, Broken
<1>. QED
  BY <1>1, <1>2, OthersStay DEF Goto, TypeOK

LEMMA StageInit == Init => EvidenceByStage
  BY DEF Init, EvidenceByStage, AtStage

LEMMA StageStep == TypeOK /\ EvidenceByStage /\ [Next]_vars => EvidenceByStage'
<1> SUFFICES ASSUME TypeOK, EvidenceByStage, [Next]_vars PROVE EvidenceByStage'
  OBVIOUS
<1> USE DEF files, budget
<1>0. \A p \in Publishers : AtStage(p)
  BY DEF EvidenceByStage
<1>1. ASSUME NEW p \in Publishers, Step(p) PROVE EvidenceByStage'
  <2>1. CASE Open(p)
    <3>1. AtStage(p)'
      BY <1>0, <2>1 DEF Open, Goto, AtStage, TypeOK
    <3>. QED
      BY <2>1, <3>1, OthersStay DEF Open, Goto, TypeOK
  <2>2. CASE Commit(p) \/ AllReplaced(p)
    <3>1. /\ evidence'[p].receipt
          /\ evidence'[p].report = evidence[p].report
          /\ evidence'[p].failure = evidence[p].failure
          /\ \A q \in Publishers : q # p => evidence'[q] = evidence[q]
      BY <2>2, ReceiptNoted DEF Commit, AllReplaced
    <3>2. evidence[p] = NoEvidence
      BY <1>0, <2>2 DEF Commit, AllReplaced, AtStage
    <3>3. pc'[p] = "reading"
      BY <2>2 DEF Commit, AllReplaced, Goto, TypeOK
    <3>4. AtStage(p)'
      BY <3>1, <3>2, <3>3 DEF AtStage, NoEvidence
    <3>. QED
      BY <2>2, <3>1, <3>4, OthersStay DEF Commit, AllReplaced, Goto, TypeOK
  <2>3. ASSUME NEW i \in Ids, Replace(p, i) PROVE EvidenceByStage'
    <3>1. AtStage(p)'
      BY <1>0, <2>3 DEF Replace, AtStage
    <3>. QED
      BY <2>3, <3>1, OthersStay DEF Replace
  <2>4. CASE Reconcile(p)
    <3>1. /\ evidence[p].receipt /\ evidence[p].failure = "none"
      BY <1>0, <2>4 DEF Reconcile, AtStage
    <3>2. Judged(evidence'[p])
      BY <2>4, <3>1, Reconciled DEF Judged
    <3>3. AtStage(p)'
      BY <2>4, <3>2 DEF Reconcile, Goto, AtStage, TypeOK, Judged, Broken
    <3>. QED
      BY <2>4, <3>3, Reconciled, OthersStay DEF Reconcile, Goto, TypeOK
  <2>5. CASE ReconcileFails(p)
    BY <2>5, FailureKeepsStages DEF ReconcileFails
  <2>6. CASE Close(p)
    <3>1. AtStage(p)'
      BY <1>0, <2>6 DEF Close, Goto, AtStage, TypeOK, Judged, Broken
    <3>. QED
      BY <2>6, <3>1, OthersStay DEF Close, Goto, TypeOK
  <2>7. CASE LinkRecord(p)
    <3>1. Build(p)' = Build(p)
      BY <2>7 DEF LinkRecord, Build, FailureCode
    <3>2. AtStage(p)'
      BY <1>0, <2>7, <3>1 DEF LinkRecord, Goto, AtStage, TypeOK, Judged, Broken
    <3>. QED
      BY <2>7, <3>2, OthersStay DEF LinkRecord, Goto, TypeOK
  <2>8. CASE Finish(p) \/ SyncRecord(p) \/ RecordRefused(p)
    BY <2>8, ExitKeepsStages DEF Finish, SyncRecord, RecordRefused
  <2>. QED
    BY <1>1, <2>1, <2>2, <2>3, <2>4, <2>5, <2>6, <2>7, <2>8 DEF Step
<1>2. ASSUME NEW p \in Publishers, Disturb(p) PROVE EvidenceByStage'
  <2>1. CASE \/ OpenFails(p) \/ SourceChanged(p) \/ CommitFails(p)
             \/ CloseFails(p) \/ \E i \in Ids : ReplaceFails(p, i)
    BY <2>1, FailureKeepsStages
    DEF OpenFails, SourceChanged, CommitFails, CloseFails, ReplaceFails
  <2>2. CASE SyncFails(p) \/ Kill(p)
    BY <2>2, ExitKeepsStages DEF SyncFails, Kill
  <2>. QED
    BY <1>2, <2>1, <2>2 DEF Disturb
<1>3. ASSUME NEW p \in Publishers, NEW r \in Request, Prepare(p, r)
      PROVE  EvidenceByStage'
  <2>1. AtStage(p)'
    BY <1>0, <1>3 DEF Prepare, Goto, AtStage, TypeOK
  <2>. QED
    BY <1>3, <2>1, OthersStay DEF Prepare, Goto, TypeOK
<1>4. CASE \/ \E p \in Publishers, r \in Request : Replay(p, r)
           \/ \E s \in Sinks, i \in RecordIds, v \in Value : Tamper(s, i, v)
           \/ UNCHANGED vars
  BY <1>0, <1>4
  DEF Replay, Tamper, vars, EvidenceByStage, AtStage, Judged, Broken, Build,
      FailureCode
<1>5. CASE PowerLoss
  BY <1>5 DEF PowerLoss, EvidenceByStage, AtStage
<1>. QED
  BY <1>1, <1>2, <1>3, <1>4, <1>5 DEF Next

LEMMA Gathered == Spec => [](TypeOK /\ EvidenceByStage)
<1>1. Init => TypeOK /\ EvidenceByStage
  BY TypeInit, StageInit
<1>2. TypeOK /\ EvidenceByStage /\ [Next]_vars => (TypeOK /\ EvidenceByStage)'
  BY TypeStep, StageStep
<1>. QED
  BY <1>1, <1>2, PTL DEF Spec

\* Every variable keeps its type, synced records exist, and only attempts that
\* somebody asked to record are recorded or reported.
THEOREM TypeCorrect == Spec => []TypeOK
  BY Gathered, PTL

-----------------------------------------------------------------------------
\* Two processes started with one attempt id never both record an outcome:
\* record() searches the archive under the lock before it links.
THEOREM OneOutcomeEach == Spec => []OneOutcome
<1>1. Init => OneOutcome
  BY DEF Init, OneOutcome
<1>2. TypeOK /\ OneOutcome /\ [Next]_vars => OneOutcome'
  <2> SUFFICES ASSUME TypeOK, OneOutcome, [Next]_vars PROVE OneOutcome'
    OBVIOUS
  <2>1. ASSUME NEW p \in Publishers, LinkRecord(p) PROVE OneOutcome'
    <3>1. \A r \in archive : r.attempt # Build(p).attempt
      BY <2>1, BuiltIsRecord DEF LinkRecord, RecordsOf
    <3>2. archive' = archive \cup {Build(p)}
      BY <2>1 DEF LinkRecord
    <3>. QED
      BY <3>1, <3>2 DEF OneOutcome
  <2>2. CASE PowerLoss
    <3>1. archive' \subseteq archive
      BY <2>2 DEF PowerLoss, TypeOK
    <3>. QED
      BY <3>1 DEF OneOutcome
  <2>3. CASE archive' = archive
    BY <2>3 DEF OneOutcome
  <2>. QED
    BY <2>1, <2>2, <2>3, ArchiveSteps
<1>. QED
  BY <1>1, <1>2, TypeCorrect, PTL DEF Spec

\* An outcome told to an operator is in the synced archive and stays there:
\* record() and prepare() sync the directory before they answer.
THEOREM ToldStays == Spec => []ToldIsKept
<1> DEFINE Inv == TypeOK /\ EvidenceByStage
<1>1. Init => ToldIsKept
  BY DEF Init, ToldIsKept
<1>2. Inv /\ ToldIsKept /\ [Next]_vars => ToldIsKept'
  <2> SUFFICES ASSUME Inv, ToldIsKept, [Next]_vars PROVE ToldIsKept'
    OBVIOUS
  <2> USE DEF files, budget
  <2>1. ASSUME NEW p \in Publishers, SyncRecord(p) PROVE ToldIsKept'
    <3>1. Build(p) \in archive /\ Build(p).attempt = request[p].attempt
      BY <2>1 DEF SyncRecord, EvidenceByStage, AtStage, Build
    <3>2. /\ synced' = archive /\ synced \subseteq archive
          /\ told' = told \cup {<<request[p].attempt, Build(p).outcome>>}
      BY <2>1 DEF SyncRecord, TypeOK
    <3>. QED
      BY <3>1, <3>2 DEF ToldIsKept
  <2>2. ASSUME NEW p \in Publishers, NEW r \in Request, Replay(p, r)
        PROVE  ToldIsKept'
    <3>1. PICK rec \in RecordsOf(r.attempt) :
            told' = told \cup {<<rec.attempt, rec.outcome>>}
      BY <2>2 DEF Replay
    <3>2. rec \in archive /\ synced' = archive /\ synced \subseteq archive
      BY <2>2 DEF Replay, RecordsOf, TypeOK
    <3>. QED
      BY <3>1, <3>2 DEF ToldIsKept
  <2>3. CASE PowerLoss
    <3>1. synced \subseteq synced' /\ told' = told
      BY <2>3 DEF PowerLoss
    <3>. QED
      BY <3>1 DEF ToldIsKept
  <2>4. CASE synced' = synced /\ told' = told
    BY <2>4 DEF ToldIsKept
  <2>5. ASSUME NEW p \in Publishers, Step(p), ~SyncRecord(p)
        PROVE  synced' = synced /\ told' = told
    BY <2>5 DEF Step, Open, Commit, Replace, AllReplaced, Reconcile,
                ReconcileFails, Close, Finish, LinkRecord, RecordRefused
  <2>6. ASSUME NEW p \in Publishers, Disturb(p)
        PROVE  synced' = synced /\ told' = told
    BY <2>6 DEF Disturb, OpenFails, SourceChanged, CommitFails, ReplaceFails,
                CloseFails, SyncFails, Kill
  <2>7. ASSUME NEW p \in Publishers, NEW r \in Request, Prepare(p, r)
        PROVE  synced' = synced /\ told' = told
    BY <2>7 DEF Prepare
  <2>8. ASSUME \/ \E s \in Sinks, i \in RecordIds, v \in Value : Tamper(s, i, v)
               \/ UNCHANGED vars
        PROVE  synced' = synced /\ told' = told
    BY <2>8 DEF Tamper, vars
  <2>. QED
    BY <2>1, <2>2, <2>3, <2>4, <2>5, <2>6, <2>7, <2>8 DEF Next
<1>. QED
  BY <1>1, <1>2, Gathered, PTL DEF Spec

\* However an execution ended, its evidence makes a record that _validate
\* accepts.
THEOREM EvidenceAlwaysComposes == Spec => []EvidenceComposes
<1>1. TypeOK /\ EvidenceByStage => EvidenceComposes
  BY JudgedComposes DEF EvidenceByStage, AtStage, EvidenceComposes
<1>. QED
  BY <1>1, Gathered, PTL

-----------------------------------------------------------------------------
\* What no other writer has touched is whole if it was found whole: for the
\* records in the archive and for the processes about to record.
Kept == AcceptedStays /\ PassStays

\* A sink that passes the comparison is whole.
LEMMA PassIsWhole ==
  ASSUME TypeOK, NEW s \in Sinks, Passes(s)
  PROVE  Whole(s)
  BY DEF TypeOK, Passes, Whole, RecordIds

\* Kept survives a step that only takes records away or verdicts back, and
\* leaves the whole sinks whole and the touched ones touched.
LEMMA KeptOn ==
  ASSUME TypeOK, Kept,
         archive' \subseteq archive,
         \A t \in Sinks \ touched' : t \notin touched /\ (Whole(t) => Whole(t)'),
         \A q \in Publishers :
           evidence'[q].report = "pass" =>
             evidence[q].report = "pass" /\ request'[q].sink = request[q].sink
  PROVE  Kept'
<1>1. AcceptedStays'
  BY DEF Kept, AcceptedStays, Whole, TypeOK, Record
<1>2. PassStays'
  BY DEF Kept, PassStays, TypeOK, Request
<1>. QED
  BY <1>1, <1>2 DEF Kept

LEMMA KeptStep == TypeOK /\ EvidenceByStage /\ Kept /\ [Next]_vars => Kept'
<1> SUFFICES ASSUME TypeOK, EvidenceByStage, Kept, [Next]_vars PROVE Kept'
  OBVIOUS
<1> USE DEF files, budget
<1> DEFINE Quiet ==
      \A q \in Publishers :
        evidence'[q].report = "pass" =>
          evidence[q].report = "pass" /\ request'[q].sink = request[q].sink
<1>1. ASSUME NEW p \in Publishers, LinkRecord(p) PROVE Kept'
  <2>1. archive' = archive \cup {Build(p)} /\ sink' = sink /\ touched' = touched
        /\ evidence' = evidence /\ request' = request
    BY <1>1 DEF LinkRecord
  <2>2. Build(p).outcome = "accepted" => evidence[p].report = "pass"
    BY <1>1, BuiltIsRecord DEF LinkRecord
  <2>3. Build(p).sink = request[p].sink
    BY DEF Build
  <2>4. AcceptedStays'
    BY <2>1, <2>2, <2>3 DEF Kept, AcceptedStays, PassStays, Whole
  <2>5. PassStays'
    BY <2>1 DEF Kept, PassStays, Whole
  <2>. QED
    BY <2>4, <2>5 DEF Kept
<1>2. ASSUME NEW p \in Publishers, Reconcile(p) PROVE Kept'
  <2> DEFINE s == request[p].sink
  <2>1. s \in Sinks /\ sink' = sink /\ archive' = archive /\ request' = request
    BY <1>2 DEF Reconcile, TypeOK, Request
  <2>2. CASE Passes(s) /\ touched' = touched \ {s}
    <3>1. Whole(s)
      BY <2>1, <2>2, PassIsWhole
    <3>2. \A q \in Publishers : q # p => evidence'[q] = evidence[q]
      BY <1>2, Reconciled
    <3>3. AcceptedStays'
      BY <2>1, <2>2, <3>1 DEF Kept, AcceptedStays, Whole
    <3>4. PassStays'
      BY <2>1, <2>2, <3>1, <3>2 DEF Kept, PassStays, Whole
    <3>. QED
      BY <3>3, <3>4 DEF Kept
  <2>3. CASE evidence'[p].report = "drift" /\ touched' = touched
    <3>1. Quiet
      BY <1>2, <2>1, <2>3, Reconciled
    <3>. QED
      BY <2>1, <2>3, <3>1, KeptOn DEF Whole
  <2>. QED
    BY <1>2, <2>2, <2>3, Reconciled
<1>3. ASSUME NEW p \in Publishers,
             Commit(p) \/ AllReplaced(p) \/ \E i \in Ids : Replace(p, i)
      PROVE  Kept'
  <2>1. Quiet
    BY <1>3, ReceiptNoted DEF Commit, AllReplaced, Replace
  <2>2. \A t \in Sinks : Whole(t) => Whole(t)'
    <3>1. CASE Commit(p)
      BY <3>1, WrittenKeeps DEF Commit, TypeOK, Sinks
    <3>2. CASE AllReplaced(p)
      BY <3>2 DEF AllReplaced, Whole
    <3>3. ASSUME NEW i \in Ids, Replace(p, i)
          PROVE  \A t \in Sinks : Whole(t) => Whole(t)'
      BY <3>3, WrittenKeeps DEF Replace, Sinks
    <3>. QED
      BY <1>3, <3>1, <3>2, <3>3
  <2>3. archive' = archive /\ touched' = touched
    BY <1>3 DEF Commit, AllReplaced, Replace
  <2>. QED
    BY <2>1, <2>2, <2>3, KeptOn
<1>4. ASSUME NEW p \in Publishers,
             CommitFails(p) \/ \E i \in Ids : ReplaceFails(p, i)
      PROVE  Kept'
  <2>1. Quiet
    BY <1>4, FailureNoted DEF CommitFails, ReplaceFails, Failure
  <2>2. \A t \in Sinks : Whole(t) => Whole(t)'
    <3>1. CASE CommitFails(p)
      BY <3>1, WrittenKeeps DEF CommitFails, TypeOK, Sinks
    <3>2. ASSUME NEW i \in Ids, ReplaceFails(p, i)
          PROVE  \A t \in Sinks : Whole(t) => Whole(t)'
      BY <3>2, WrittenKeeps DEF ReplaceFails, Sinks
    <3>. QED
      BY <1>4, <3>1, <3>2
  <2>3. archive' = archive /\ touched' = touched
    BY <1>4 DEF CommitFails, ReplaceFails
  <2>. QED
    BY <2>1, <2>2, <2>3, KeptOn
<1>5. ASSUME NEW p \in Publishers,
             OpenFails(p) \/ SourceChanged(p) \/ ReconcileFails(p) \/ CloseFails(p)
      PROVE  Kept'
  <2>1. Quiet
    BY <1>5, FailureNoted
    DEF OpenFails, SourceChanged, ReconcileFails, CloseFails, Failure
  <2>2. sink' = sink /\ archive' = archive /\ touched' = touched
    BY <1>5 DEF OpenFails, SourceChanged, ReconcileFails, CloseFails
  <2>. QED
    BY <2>1, <2>2, KeptOn DEF Whole
<1>6. ASSUME NEW p \in Publishers,
             Finish(p) \/ SyncRecord(p) \/ RecordRefused(p) \/ SyncFails(p) \/ Kill(p)
      PROVE  Kept'
  <2>1. Exit(p) /\ sink' = sink /\ archive' = archive /\ touched' = touched
    BY <1>6 DEF Finish, SyncRecord, RecordRefused, SyncFails, Kill
  <2>2. Quiet
    BY <2>1 DEF Exit, NoEvidence, TypeOK
  <2>. QED
    BY <2>1, <2>2, KeptOn DEF Whole
<1>7. ASSUME NEW p \in Publishers, NEW r \in Request, Prepare(p, r) PROVE Kept'
  <2>1. evidence[p].report # "pass"
    BY <1>7 DEF Prepare, EvidenceByStage, AtStage, NoEvidence
  <2>2. Quiet
    BY <1>7, <2>1 DEF Prepare, TypeOK
  <2>3. sink' = sink /\ archive' = archive /\ touched' = touched
    BY <1>7 DEF Prepare
  <2>. QED
    BY <2>2, <2>3, KeptOn DEF Whole
<1>8. ASSUME \/ \E p \in Publishers : Open(p) \/ Close(p)
             \/ \E p \in Publishers, r \in Request : Replay(p, r)
             \/ UNCHANGED vars
      PROVE  Kept'
  <2>1. /\ sink' = sink /\ archive' = archive /\ touched' = touched
        /\ evidence' = evidence /\ request' = request
    BY <1>8 DEF Open, Close, Replay, vars
  <2>. QED
    BY <2>1, KeptOn DEF Whole
<1>9. CASE PowerLoss
  <2>1. archive' \subseteq archive /\ sink' = sink /\ touched' = touched
    BY <1>9 DEF PowerLoss, TypeOK
  <2>2. Quiet
    BY <1>9 DEF PowerLoss, NoEvidence
  <2>. QED
    BY <2>1, <2>2, KeptOn DEF Whole
<1>10. ASSUME NEW s \in Sinks, NEW i \in RecordIds, NEW v \in Value, Tamper(s, i, v)
       PROVE  Kept'
  <2>1. archive' = archive /\ touched' = touched \cup {s} /\ Quiet
    BY <1>10 DEF Tamper
  <2>2. \A t \in Sinks : t # s => (Whole(t) => Whole(t)')
    BY <1>10 DEF Tamper, Whole, TypeOK
  <2>. QED
    BY <2>1, <2>2, KeptOn
<1>. QED
  BY <1>1, <1>2, <1>3, <1>4, <1>5, <1>6, <1>7, <1>8, <1>9, <1>10
  DEF Next, Step, Disturb

\* An accepted publication stays whole in its sink through every other attempt,
\* partial write, killed process and power loss, as long as nobody outside the
\* program writes to the sink.
THEOREM AcceptedIsKept == Spec => []AcceptedStays
<1>1. Init => Kept
  BY DEF Init, Kept, AcceptedStays, PassStays, NoEvidence
<1>2. Kept => AcceptedStays
  BY DEF Kept
<1>. QED
  BY <1>1, <1>2, Gathered, KeptStep, PTL DEF Spec
=============================================================================
