---------------------------- MODULE Publication ----------------------------
(***************************************************************************)
(* serving/publish_*.py: operators publish one pinned Gold vintage to      *)
(* PostgreSQL or MongoDB, read it back, pass the acceptance gate and       *)
(* record one immutable outcome per attempt in a local archive.            *)
(*                                                                         *)
(* The sinks are remote and shared; what they hold of the vintage is a     *)
(* value per record id.  The plan is what the source says: its ids, each   *)
(* "good".  Other writers may change a sink at any time.                   *)
(***************************************************************************)
EXTENDS Naturals, FiniteSets

CONSTANTS
  Publishers,   \* processes running the publishing CLI with --apply
  NoPublisher,  \* "nobody holds the archive lock"
  Attempts,     \* attempt ids given with --record-evidence
  NoAttempt,    \* publishing without evidence
  Ids,          \* record ids of the plan
  Foreign,      \* record ids of the vintage that are not in the plan
  MaxFaults,    \* bound: failed calls, killed processes, power losses
  MaxTampers    \* bound: changes other writers make to the sinks

ASSUME NamesAssumption ==
  NoPublisher \notin Publishers /\ NoAttempt \notin Attempts
ASSUME IdsAssumption ==
  Ids # {} /\ Ids \cap Foreign = {} /\ IsFiniteSet(Ids \cup Foreign)
ASSUME BoundsAssumption == MaxFaults \in Nat /\ MaxTampers \in Nat

VARIABLES
  sink,      \* what each sink holds under each record id of the vintage
  archive,   \* publication records linked in the archive directory
  synced,    \* those whose directory entry is synced
  lock,      \* the process holding .publication.lock
  pc,        \* where each process is in _execute
  request,   \* the attempt and the sink each process works for
  left,      \* ids not yet sent by publish_mongodb
  evidence,  \* write receipt, read-back verdict and failure of each process
  told,      \* outcomes reported to operators
  touched,   \* sinks changed by others since they were last found matching
  faults,    \* faults so far
  tampers    \* changes by other writers so far

files == <<archive, synced, lock>>
budget == <<faults, tampers>>
vars == <<sink, archive, synced, lock, pc, request, left, evidence, told,
          touched, faults, tampers>>

Sinks == {"postgresql", "mongodb"}
RecordIds == Ids \cup Foreign

\* "unsafe" is what _by_id and _normalized_flat refuse to compare.
Value == {"absent", "good", "changed", "unsafe"}

Request == [attempt : Attempts \cup {NoAttempt}, sink : Sinks]

Failure == {"none", "source_validation_failed", "database_error",
            "reconciliation_failed", "acceptance_rejected"}

Evidence == [receipt : BOOLEAN, report : {"none", "pass", "drift"},
             failure : Failure]

Outcome == {"accepted", "rejected", "failed"}

Record == [attempt : Attempts, sink : Sinks, outcome : Outcome,
           receipt : BOOLEAN, report : {"none", "pass", "drift"},
           failure : Failure]

Stage == {"idle", "opening", "writing", "reading", "closing", "recording",
          "linked"}

NoEvidence == [receipt |-> FALSE, report |-> "none", failure |-> "none"]
NoRequest == [attempt |-> NoAttempt, sink |-> "postgresql"]

\* The sink after the plan's records have been written; nothing is deleted.
Written(s, ids) ==
  [sink EXCEPT ![s] = [i \in RecordIds |->
                         IF i \in ids THEN "good" ELSE sink[s][i]]]

\* Mutant: unexpected records are not looked for.
PassesWithExtras(s) == \A i \in Ids : sink[s][i] = "good"

\* _report: nothing missing, nothing unexpected, nothing changed.
Passes(s) ==
  /\ \A i \in Ids : sink[s][i] = "good"
  /\ \A i \in Foreign : sink[s][i] = "absent"

Comparable(s) == \A i \in RecordIds : sink[s][i] # "unsafe"

\* Mutant: the rejection is passed on as a failure of the execution.
FailureCodeKept(e) == e.failure

\* The code of the failure that _execute hands to the archive; a rejection is
\* left to the archive's own run of the gate.
FailureCode(e) == IF e.failure = "acceptance_rejected" THEN "none" ELSE e.failure

\* _build: the outcome follows from receipt and report, and from them alone.
Build(p) ==
  LET e == evidence[p]
      code == FailureCode(e)
      accepted == e.receipt /\ e.report = "pass"
  IN [attempt |-> request[p].attempt, sink |-> request[p].sink,
      outcome |-> IF code # "none" THEN "failed"
                  ELSE IF accepted THEN "accepted" ELSE "rejected",
      receipt |-> e.receipt, report |-> e.report,
      failure |-> IF code = "none" /\ ~accepted
                  THEN "acceptance_rejected" ELSE code]

\* _validate: the relations it demands between outcome, receipt, report and
\* failure code.
Consistent(r) ==
  /\ r.outcome = "accepted" =>
       r.receipt /\ r.report = "pass" /\ r.failure = "none"
  /\ r.outcome = "rejected" =>
       r.receipt /\ r.report = "drift" /\ r.failure = "acceptance_rejected"
  /\ r.outcome = "failed" => r.failure \notin {"none", "acceptance_rejected"}

\* get_attempt: the record of an attempt, if there is one.
RecordsOf(a) == {r \in archive : r.attempt = a}

Goto(p, stage) == pc' = [pc EXCEPT ![p] = stage]

Fault == faults < MaxFaults /\ faults' = faults + 1 /\ UNCHANGED tampers

Note(p, field, value) == evidence' = [evidence EXCEPT ![p][field] = value]

\* The process returns its exit code.
Exit(p) ==
  /\ Goto(p, "idle")
  /\ request' = [request EXCEPT ![p] = NoRequest]
  /\ left' = [left EXCEPT ![p] = {}]
  /\ evidence' = [evidence EXCEPT ![p] = NoEvidence]

Init ==
  /\ sink = [s \in Sinks |-> [i \in RecordIds |-> "absent"]]
  /\ archive = {}
  /\ synced = {}
  /\ lock = NoPublisher
  /\ pc = [p \in Publishers |-> "idle"]
  /\ request = [p \in Publishers |-> NoRequest]
  /\ left = [p \in Publishers |-> {}]
  /\ evidence = [p \in Publishers |-> NoEvidence]
  /\ told = {}
  /\ touched = {}
  /\ faults = 0
  /\ tampers = 0

-----------------------------------------------------------------------------
\* PublicationArchive.prepare finds no record of the attempt, or no evidence
\* was asked for: the sink is opened next.
Prepare(p, r) ==
  /\ pc[p] = "idle"
  /\ r.attempt # NoAttempt => lock = NoPublisher /\ RecordsOf(r.attempt) = {}
  /\ request' = [request EXCEPT ![p] = r]
  /\ Goto(p, "opening")
  /\ UNCHANGED <<sink, files, left, evidence, told, touched, budget>>

\* Mutant: the directory is not synced again.
ReplayUnsynced(p, r) ==
  /\ pc[p] = "idle"
  /\ lock = NoPublisher
  /\ \E rec \in RecordsOf(r.attempt) :
       /\ rec.sink = r.sink
       /\ told' = told \cup {<<rec.attempt, rec.outcome>>}
  /\ UNCHANGED <<sink, files, pc, request, left, evidence, touched, budget>>

\* prepare finds the attempt's record for the same sink: the directory is
\* synced and the old outcome is reported again, without touching the sink.
Replay(p, r) ==
  /\ pc[p] = "idle"
  /\ lock = NoPublisher
  /\ \E rec \in RecordsOf(r.attempt) :
       /\ rec.sink = r.sink
       /\ told' = told \cup {<<rec.attempt, rec.outcome>>}
  /\ synced' = archive
  /\ UNCHANGED <<sink, archive, lock, pc, request, left, evidence, touched,
                 budget>>

\* _open_sink connects, and the source still gives the same plan.
Open(p) ==
  /\ pc[p] = "opening"
  /\ left' = [left EXCEPT ![p] = Ids]
  /\ Goto(p, "writing")
  /\ UNCHANGED <<sink, files, request, evidence, told, touched, budget>>

\* The connection cannot be opened: there is no client to close.
OpenFails(p) ==
  /\ pc[p] = "opening"
  /\ Fault
  /\ Note(p, "failure", "database_error")
  /\ Goto(p, "recording")
  /\ UNCHANGED <<sink, files, request, left, told, touched>>

\* The source no longer gives the plan it gave at first.
SourceChanged(p) ==
  /\ pc[p] = "opening"
  /\ Fault
  /\ Note(p, "failure", "source_validation_failed")
  /\ Goto(p, "closing")
  /\ UNCHANGED <<sink, files, request, left, told, touched>>

\* publish_postgres: all upserts commit at once.
Commit(p) ==
  /\ pc[p] = "writing"
  /\ request[p].sink = "postgresql"
  /\ sink' = Written("postgresql", left[p])
  /\ left' = [left EXCEPT ![p] = {}]
  /\ Note(p, "receipt", TRUE)
  /\ Goto(p, "reading")
  /\ UNCHANGED <<files, request, told, touched, budget>>

\* A statement or the commit raises; the answer of a commit that took effect
\* may be what is lost.
CommitFails(p) ==
  /\ pc[p] = "writing"
  /\ request[p].sink = "postgresql"
  /\ Fault
  /\ sink' \in {sink, Written("postgresql", left[p])}
  /\ Note(p, "failure", "database_error")
  /\ Goto(p, "closing")
  /\ UNCHANGED <<files, request, left, told, touched>>

\* publish_mongodb: one document after the other, each by itself.
Replace(p, i) ==
  /\ pc[p] = "writing"
  /\ request[p].sink = "mongodb"
  /\ i \in left[p]
  /\ sink' = Written("mongodb", {i})
  /\ left' = [left EXCEPT ![p] = @ \ {i}]
  /\ UNCHANGED <<files, pc, request, evidence, told, touched, budget>>

AllReplaced(p) ==
  /\ pc[p] = "writing"
  /\ request[p].sink = "mongodb"
  /\ left[p] = {}
  /\ Note(p, "receipt", TRUE)
  /\ Goto(p, "reading")
  /\ UNCHANGED <<sink, files, request, left, told, touched, budget>>

\* A replacement raises or is not acknowledged, with or without effect.
ReplaceFails(p, i) ==
  /\ pc[p] = "writing"
  /\ request[p].sink = "mongodb"
  /\ i \in left[p]
  /\ Fault
  /\ sink' \in {sink, Written("mongodb", {i})}
  /\ Note(p, "failure", "database_error")
  /\ Goto(p, "closing")
  /\ UNCHANGED <<files, request, left, told, touched>>

\* The read-back and, on the receipt and this report, the acceptance gate.
Reconcile(p) ==
  /\ pc[p] = "reading"
  /\ Comparable(request[p].sink)
  /\ IF Passes(request[p].sink)
     THEN /\ evidence' = [evidence EXCEPT ![p].report = "pass"]
          /\ touched' = touched \ {request[p].sink}
     ELSE /\ evidence' = [evidence EXCEPT ![p].report = "drift",
                                          ![p].failure = "acceptance_rejected"]
          /\ UNCHANGED touched
  /\ Goto(p, "closing")
  /\ UNCHANGED <<sink, files, request, left, told, budget>>

\* The read-back raises: on the connection, or on what it was given to compare.
ReconcileFails(p) ==
  /\ pc[p] = "reading"
  /\ \/ Fault /\ Note(p, "failure", "database_error")
     \/ /\ ~Comparable(request[p].sink)
        /\ Note(p, "failure", "reconciliation_failed")
        /\ UNCHANGED budget
  /\ Goto(p, "closing")
  /\ UNCHANGED <<sink, files, request, left, told, touched>>

\* The client is closed before anything is recorded.
Close(p) ==
  /\ pc[p] = "closing"
  /\ Goto(p, "recording")
  /\ UNCHANGED <<sink, files, request, left, evidence, told, touched, budget>>

\* An exception of close() replaces whatever failure came before.
CloseFails(p) ==
  /\ pc[p] = "closing"
  /\ Fault
  /\ Note(p, "failure", "database_error")
  /\ Goto(p, "recording")
  /\ UNCHANGED <<sink, files, request, left, told, touched>>

\* Without evidence the process exits here.
Finish(p) ==
  /\ pc[p] = "recording"
  /\ request[p].attempt = NoAttempt
  /\ Exit(p)
  /\ UNCHANGED <<sink, files, told, touched, budget>>

\* Mutant: the archive is not searched again for the attempt.
LinkUnsearched(p) ==
  /\ pc[p] = "recording"
  /\ request[p].attempt # NoAttempt
  /\ lock = NoPublisher
  /\ Consistent(Build(p))
  /\ archive' = archive \cup {Build(p)}
  /\ lock' = p
  /\ Goto(p, "linked")
  /\ UNCHANGED <<sink, synced, request, left, evidence, told, touched, budget>>

\* Mutant: evidence nobody asked for.
LinkUnasked(p) ==
  /\ pc[p] = "recording"
  /\ lock = NoPublisher
  /\ RecordsOf(request[p].attempt) = {}
  /\ Consistent(Build(p))
  /\ archive' = archive \cup {Build(p)}
  /\ lock' = p
  /\ Goto(p, "linked")
  /\ UNCHANGED <<sink, synced, request, left, evidence, told, touched, budget>>

\* PublicationArchive.record: under the lock, the record is linked ...
LinkRecord(p) ==
  /\ pc[p] = "recording"
  /\ request[p].attempt # NoAttempt
  /\ lock = NoPublisher
  /\ RecordsOf(request[p].attempt) = {}
  /\ Consistent(Build(p))
  /\ archive' = archive \cup {Build(p)}
  /\ lock' = p
  /\ Goto(p, "linked")
  /\ UNCHANGED <<sink, synced, request, left, evidence, told, touched, budget>>

\* ... the directory is synced, and the outcome is reported.
SyncRecord(p) ==
  /\ pc[p] = "linked"
  /\ synced' = archive
  /\ lock' = NoPublisher
  /\ told' = told \cup {<<request[p].attempt, Build(p).outcome>>}
  /\ Exit(p)
  /\ UNCHANGED <<sink, archive, touched, budget>>

\* evidence_error: the attempt has another outcome already (timestamps make
\* every payload distinct), the record cannot be built, or a write fails.
RecordRefused(p) ==
  /\ pc[p] = "recording"
  /\ request[p].attempt # NoAttempt
  /\ \/ lock = NoPublisher /\ RecordsOf(request[p].attempt) # {} /\ UNCHANGED budget
     \/ ~Consistent(Build(p)) /\ UNCHANGED budget
     \/ Fault
  /\ Exit(p)
  /\ UNCHANGED <<sink, files, told, touched>>

SyncFails(p) ==
  /\ pc[p] = "linked"
  /\ Fault
  /\ lock' = NoPublisher
  /\ Exit(p)
  /\ UNCHANGED <<sink, archive, synced, told, touched>>

-----------------------------------------------------------------------------
\* The process dies; an open transaction is rolled back by the server.
Kill(p) ==
  /\ pc[p] # "idle"
  /\ Fault
  /\ lock' = IF lock = p THEN NoPublisher ELSE lock
  /\ Exit(p)
  /\ UNCHANGED <<sink, archive, synced, told, touched>>

\* The operators' machine loses power; the sinks are elsewhere.
PowerLoss ==
  /\ Fault
  /\ \E kept \in SUBSET (archive \ synced) :
       archive' = synced \cup kept /\ synced' = archive'
  /\ lock' = NoPublisher
  /\ pc' = [p \in Publishers |-> "idle"]
  /\ request' = [p \in Publishers |-> NoRequest]
  /\ left' = [p \in Publishers |-> {}]
  /\ evidence' = [p \in Publishers |-> NoEvidence]
  /\ UNCHANGED <<sink, told, touched>>

\* Someone else changes the sink.
Tamper(s, i, v) ==
  /\ tampers < MaxTampers
  /\ sink[s][i] # v
  /\ sink' = [sink EXCEPT ![s][i] = v]
  /\ touched' = touched \cup {s}
  /\ tampers' = tampers + 1
  /\ UNCHANGED <<files, pc, request, left, evidence, told, faults>>

-----------------------------------------------------------------------------
\* What a started process does by itself.
Step(p) ==
  \/ Open(p) \/ Commit(p) \/ (\E i \in Ids : Replace(p, i)) \/ AllReplaced(p)
  \/ Reconcile(p) \/ ReconcileFails(p) \/ Close(p) \/ Finish(p)
  \/ LinkRecord(p) \/ SyncRecord(p) \/ RecordRefused(p)

Disturb(p) ==
  \/ OpenFails(p) \/ SourceChanged(p) \/ CommitFails(p)
  \/ (\E i \in Ids : ReplaceFails(p, i)) \/ CloseFails(p) \/ SyncFails(p)
  \/ Kill(p)

Next ==
  \/ \E p \in Publishers : Step(p) \/ Disturb(p)
  \/ \E p \in Publishers, r \in Request : Prepare(p, r) \/ Replay(p, r)
  \/ PowerLoss
  \/ \E s \in Sinks, i \in RecordIds, v \in Value : Tamper(s, i, v)

Spec == Init /\ [][Next]_vars

-----------------------------------------------------------------------------
\* Every variable has its type; a synced record exists, and records and reports
\* are only about attempts somebody asked to record.
TypeOK ==
  /\ sink \in [Sinks -> [RecordIds -> Value]]
  /\ archive \subseteq Record
  /\ synced \subseteq archive
  /\ lock \in Publishers \cup {NoPublisher}
  /\ pc \in [Publishers -> Stage]
  /\ request \in [Publishers -> Request]
  /\ left \in [Publishers -> SUBSET Ids]
  /\ evidence \in [Publishers -> Evidence]
  /\ told \subseteq Attempts \X Outcome
  /\ touched \subseteq Sinks
  /\ faults \in Nat
  /\ tampers \in Nat

\* An attempt has one outcome in the archive, however many processes were
\* started with its id; a second one would make the whole archive unreadable.
OneOutcome ==
  \A r1, r2 \in archive : r1.attempt = r2.attempt => r1 = r2

\* An outcome reported to an operator is in the archive and survives a power
\* loss, whether it was reported first hand or replayed after a failed sync.
ToldIsKept ==
  \A t \in told : \E r \in synced : r.attempt = t[1] /\ r.outcome = t[2]

\* As long as nobody else touches the sink, an accepted publication is still
\* there whole, whatever later or concurrent attempts do or leave undone.
AcceptedStays ==
  \A r \in archive : r.outcome = "accepted" /\ r.sink \notin touched =>
    sink[r.sink] = [i \in RecordIds |-> IF i \in Ids THEN "good" ELSE "absent"]

\* Whatever failed on the way, the archive can record the outcome: _build never
\* composes evidence that its own _validate refuses.
EvidenceComposes ==
  \A p \in Publishers : pc[p] = "recording" => Consistent(Build(p))
=============================================================================
