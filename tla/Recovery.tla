------------------------------ MODULE Recovery ------------------------------
(***************************************************************************)
(* The failure/replay ingestion path: RecoverableIngestionPipeline.process *)
(* (recovery/pipeline.py) run by several worker processes on one Kafka     *)
(* partition, with the four services it coordinates:                       *)
(*                                                                         *)
(*   Kafka       the log of one partition and the group's committed offset *)
(*   PostgreSQL  the run snapshots and the session-level advisory claims   *)
(*   S3          the raw objects, one deterministic key per offset         *)
(*   Iceberg     the analytical rows, counted per ingestion_id             *)
(*                                                                         *)
(* One topic, partition and group: the ingestion id is the offset.  Every  *)
(* call to a service is a step of its own, so that crashes, lost answers,  *)
(* lost database sessions and other workers fall between any two calls.    *)
(***************************************************************************)
EXTENDS Naturals, FiniteSets

CONSTANTS
  Workers,        \* processes running the pipeline in one consumer group
  NoWorker,       \* "nobody holds the claim"
  LogLength,      \* bound: messages ever published to the partition
  Poison,         \* offsets whose payload _decode_event refuses
  MaxFaults,      \* bound: crashes, failed calls, lost answers, evictions
  MaxSessionLoss  \* bound: PostgreSQL sessions that die under a worker

Offsets == 0 .. LogLength - 1

ASSUME WorkersAssumption == IsFiniteSet(Workers) /\ NoWorker \notin Workers
ASSUME LogAssumption == LogLength \in Nat /\ Poison \subseteq Offsets
ASSUME BoundsAssumption == MaxFaults \in Nat /\ MaxSessionLoss \in Nat

VARIABLES
  end,        \* Kafka: messages in the partition log
  committed,  \* Kafka: the group's committed position
  member,     \* Kafka: is the worker's consumer a live member of the group
  session,    \* PostgreSQL: is the worker's connection alive
  claim,      \* PostgreSQL: the worker whose session holds the advisory lock
  runs,       \* PostgreSQL: status of the run snapshot of each offset
  raw,        \* S3: offsets whose raw object is stored
  rows,       \* Iceberg: rows carrying each ingestion_id
  pc,         \* where each worker is in process()
  at,         \* the offset of the message each worker is processing
  faults,     \* faults injected so far
  lost        \* database sessions lost so far

kafka == <<end, committed, member>>
postgres == <<session, claim, runs>>
budget == <<faults, lost>>
vars == <<end, committed, member, session, claim, runs, raw, rows, pc, at,
          faults, lost>>

Status == {"none", "running", "success", "failed"}

\* Inside the inner try: what the except clause turns into a failed run.
Trying == {"storing", "decoding", "scanning", "appending", "finishing"}

\* Between acquire_claim and the finally clause.
Holding == Trying \cup {"claimed", "starting", "failing", "acking", "releasing"}

Stage == Holding \cup {"idle", "polled"}

Init ==
  /\ end = 0
  /\ committed = 0
  /\ member = [w \in Workers |-> FALSE]
  /\ session = [w \in Workers |-> TRUE]
  /\ claim = [o \in Offsets |-> NoWorker]
  /\ runs = [o \in Offsets |-> "none"]
  /\ raw = {}
  /\ rows = [o \in Offsets |-> 0]
  /\ pc = [w \in Workers |-> "idle"]
  /\ at = [w \in Workers |-> 0]
  /\ faults = 0
  /\ lost = 0

Goto(w, stage) == pc' = [pc EXCEPT ![w] = stage]

\* A service call fails, or a process is disturbed, within the bound.
Fault == faults < MaxFaults /\ faults' = faults + 1

NoFault == UNCHANGED budget

\* What the server does when the worker's session ends: its locks go.
Unclaimed(w) == [o \in Offsets |-> IF claim[o] = w THEN NoWorker ELSE claim[o]]

-----------------------------------------------------------------------------
\* KafkaEventBroker.publish: the message is in the log (whether or not the
\* delivery report reached the producer).
Publish ==
  /\ end < LogLength
  /\ end' = end + 1
  /\ UNCHANGED <<committed, member, postgres, raw, rows, pc, at, budget>>

\* Mutant: the message after the committed position.
ConsumeNext(w) ==
  /\ pc[w] = "idle"
  /\ committed < end
  /\ member' = [member EXCEPT ![w] = TRUE]
  /\ at' = [at EXCEPT ![w] = committed + 1]
  /\ Goto(w, "polled")
  /\ UNCHANGED <<end, committed, postgres, raw, rows, budget>>

\* KafkaEventBroker.consume_one: a new consumer joins the group and polls the
\* message at the committed position; nothing is committed.
ConsumeOne(w) ==
  /\ pc[w] = "idle"
  /\ committed < end
  /\ member' = [member EXCEPT ![w] = TRUE]
  /\ at' = [at EXCEPT ![w] = committed]
  /\ Goto(w, "polled")
  /\ UNCHANGED <<end, committed, postgres, raw, rows, budget>>

\* Mutant: the claim is not exclusive.
AcquireAnyway(w) ==
  /\ pc[w] = "polled"
  /\ session[w]
  /\ claim' = [claim EXCEPT ![at[w]] = w]
  /\ Goto(w, "claimed")
  /\ UNCHANGED <<kafka, session, runs, raw, rows, at, budget>>

\* PostgresRunStore.acquire_claim returns true.
AcquireClaim(w) ==
  /\ pc[w] = "polled"
  /\ session[w]
  /\ claim[at[w]] = NoWorker
  /\ claim' = [claim EXCEPT ![at[w]] = w]
  /\ Goto(w, "claimed")
  /\ UNCHANGED <<kafka, session, runs, raw, rows, at, budget>>

\* acquire_claim returns false, or raises on a dead session: process raises
\* before anything durable happens.
ClaimRefused(w) ==
  /\ pc[w] = "polled"
  /\ session[w] => claim[at[w]] # NoWorker
  /\ Goto(w, "idle")
  /\ UNCHANGED <<kafka, postgres, raw, rows, at, budget>>

\* Mutant: the previous run is not looked at.
ReadNothing(w) ==
  /\ pc[w] = "claimed"
  /\ session[w]
  /\ Goto(w, "starting")
  /\ UNCHANGED <<kafka, postgres, raw, rows, at, budget>>

\* The previous run is read: a success is only acknowledged again.
ReadPrevious(w) ==
  /\ pc[w] = "claimed"
  /\ session[w]
  /\ Goto(w, IF runs[at[w]] = "success" THEN "acking" ELSE "starting")
  /\ UNCHANGED <<kafka, postgres, raw, rows, at, budget>>

SaveRunning(w) ==
  /\ pc[w] = "starting"
  /\ session[w]
  /\ runs' = [runs EXCEPT ![at[w]] = "running"]
  /\ Goto(w, "storing")
  /\ UNCHANGED <<kafka, session, claim, raw, rows, at, budget>>

\* S3BlobStore.put_bytes replaces the object under the offset's key.
StoreRaw(w) ==
  /\ pc[w] = "storing"
  /\ raw' = raw \cup {at[w]}
  /\ Goto(w, "decoding")
  /\ UNCHANGED <<kafka, postgres, rows, at, budget>>

\* _decode_event raises on a malformed event; otherwise the table is ensured.
Decode(w) ==
  /\ pc[w] = "decoding"
  /\ Goto(w, IF at[w] \in Poison THEN "failing" ELSE "scanning")
  /\ UNCHANGED <<kafka, postgres, raw, rows, at, budget>>

\* Mutant: the scan's answer negated.
ScanInverted(w) ==
  /\ pc[w] = "scanning"
  /\ Goto(w, IF rows[at[w]] > 0 THEN "appending" ELSE "finishing")
  /\ UNCHANGED <<kafka, postgres, raw, rows, at, budget>>

\* Mutant: no scan.
ScanSkipped(w) ==
  /\ pc[w] = "scanning"
  /\ Goto(w, "appending")
  /\ UNCHANGED <<kafka, postgres, raw, rows, at, budget>>

\* IcebergTableStore.contains_value: the scan decides whether to append.
Scan(w) ==
  /\ pc[w] = "scanning"
  /\ Goto(w, IF rows[at[w]] > 0 THEN "finishing" ELSE "appending")
  /\ UNCHANGED <<kafka, postgres, raw, rows, at, budget>>

\* IcebergTableStore.append commits one row, without looking at the scan's
\* snapshot again.
AppendRow(w) == rows' = [rows EXCEPT ![at[w]] = @ + 1]

Append(w) ==
  /\ pc[w] = "appending"
  /\ AppendRow(w)
  /\ Goto(w, "finishing")
  /\ UNCHANGED <<kafka, postgres, raw, at, budget>>

\* The row is committed but the caller gets an exception: a lost answer of the
\* catalog, or fail_after_iceberg, the crash the acceptance test injects.
AppendThenFail(w) ==
  /\ pc[w] = "appending"
  /\ Fault
  /\ AppendRow(w)
  /\ Goto(w, "failing")
  /\ UNCHANGED <<kafka, postgres, raw, at, lost>>

SaveSuccess(w) ==
  /\ pc[w] = "finishing"
  /\ session[w]
  /\ runs' = [runs EXCEPT ![at[w]] = "success"]
  /\ Goto(w, "acking")
  /\ UNCHANGED <<kafka, session, claim, raw, rows, at, budget>>

\* A call inside the try raises: a service refuses it, Iceberg reports a
\* conflicting commit, or the database session is gone.
CallFails(w) ==
  /\ pc[w] \in Trying
  /\ \/ Fault /\ UNCHANGED lost
     \/ pc[w] = "finishing" /\ ~session[w] /\ NoFault
  /\ Goto(w, "failing")
  /\ UNCHANGED <<kafka, postgres, raw, rows, at>>

\* Mutant: a failed message is acknowledged.
SaveFailedAndSkip(w) ==
  /\ pc[w] = "failing"
  /\ session[w]
  /\ runs' = [runs EXCEPT ![at[w]] = "failed"]
  /\ Goto(w, "acking")
  /\ UNCHANGED <<kafka, session, claim, raw, rows, at, budget>>

\* The except clause stores the failed snapshot and re-raises.
SaveFailed(w) ==
  /\ pc[w] = "failing"
  /\ session[w]
  /\ runs' = [runs EXCEPT ![at[w]] = "failed"]
  /\ Goto(w, "releasing")
  /\ UNCHANGED <<kafka, session, claim, raw, rows, at, budget>>

\* A database call outside the inner try, or the save in the except clause,
\* raises: control goes straight to the finally clause.
DatabaseFails(w) ==
  /\ pc[w] \in {"claimed", "starting", "failing"}
  /\ \/ Fault /\ UNCHANGED lost
     \/ ~session[w] /\ NoFault
  /\ Goto(w, "releasing")
  /\ UNCHANGED <<kafka, postgres, raw, rows, at>>

\* KafkaEventBroker.acknowledge: commit offset + 1, which the group
\* coordinator accepts from any live member and refuses from an evicted one.
Acknowledge(w) ==
  /\ pc[w] = "acking"
  /\ committed' = IF member[w] THEN at[w] + 1 ELSE committed
  /\ Goto(w, "releasing")
  /\ UNCHANGED <<end, member, postgres, raw, rows, at, budget>>

\* Mutant: the claim is kept.
ReleaseNothing(w) ==
  /\ pc[w] = "releasing"
  /\ Goto(w, "idle")
  /\ UNCHANGED <<kafka, postgres, raw, rows, at, budget>>

\* PostgresRunStore.release_claim; on a dead session it raises, and the lock
\* is already gone.
ReleaseClaim(w) ==
  /\ pc[w] = "releasing"
  /\ claim' = IF session[w] THEN [claim EXCEPT ![at[w]] = NoWorker] ELSE claim
  /\ Goto(w, "idle")
  /\ UNCHANGED <<kafka, session, runs, raw, rows, at, budget>>

\* A new process opens a new connection.
Restart(w) ==
  /\ pc[w] = "idle"
  /\ ~session[w]
  /\ session' = [session EXCEPT ![w] = TRUE]
  /\ UNCHANGED <<kafka, claim, runs, raw, rows, pc, at, budget>>

-----------------------------------------------------------------------------
\* The process dies; its session and its consumer die with it, and it is
\* started again.
Crash(w) ==
  /\ pc[w] # "idle"
  /\ Fault
  /\ Goto(w, "idle")
  /\ claim' = Unclaimed(w)
  /\ session' = [session EXCEPT ![w] = TRUE]
  /\ member' = [member EXCEPT ![w] = FALSE]
  /\ UNCHANGED <<end, committed, runs, raw, rows, at, lost>>

\* The session dies while the worker lives on: the server frees its locks and
\* process() never looks at its claim again.
LoseSession(w) ==
  /\ pc[w] # "idle"
  /\ session[w]
  /\ lost < MaxSessionLoss
  /\ lost' = lost + 1
  /\ session' = [session EXCEPT ![w] = FALSE]
  /\ claim' = Unclaimed(w)
  /\ UNCHANGED <<kafka, runs, raw, rows, pc, at, faults>>

\* The group coordinator evicts the worker's consumer.
Evict(w) ==
  /\ member[w]
  /\ Fault
  /\ member' = [member EXCEPT ![w] = FALSE]
  /\ UNCHANGED <<end, committed, postgres, raw, rows, pc, at, lost>>

-----------------------------------------------------------------------------
\* What a running worker does by itself.
Process(w) ==
  \/ ConsumeOne(w) \/ AcquireClaim(w) \/ ClaimRefused(w) \/ ReadPrevious(w)
  \/ SaveRunning(w) \/ StoreRaw(w) \/ Decode(w) \/ Scan(w) \/ Append(w)
  \/ SaveSuccess(w) \/ SaveFailed(w) \/ Acknowledge(w) \/ ReleaseClaim(w)
  \/ Restart(w)

\* What the environment does to it; a call that fails for want of a session
\* is the worker's own step as well.
Disturb(w) ==
  \/ AppendThenFail(w) \/ CallFails(w) \/ DatabaseFails(w)
  \/ Crash(w) \/ LoseSession(w) \/ Evict(w)

Next == Publish \/ \E w \in Workers : Process(w) \/ Disturb(w)

Spec == Init /\ [][Next]_vars

SessionGone(w) == ~session[w] /\ (CallFails(w) \/ DatabaseFails(w))

\* Workers keep being run, and a worker that fails again and again for want of
\* a session is restarted.  Nothing obliges a message to be published or a
\* fault to come.
Fairness == \A w \in Workers :
  WF_vars(Process(w) \/ SessionGone(w)) /\ SF_vars(Restart(w))

FairSpec == Spec /\ Fairness

-----------------------------------------------------------------------------
\* Every variable has its type; a busy worker works on an offset of the log.
TypeOK ==
  /\ end \in 0 .. LogLength
  /\ committed \in 0 .. LogLength
  /\ member \in [Workers -> BOOLEAN]
  /\ session \in [Workers -> BOOLEAN]
  /\ claim \in [Offsets -> Workers \cup {NoWorker}]
  /\ runs \in [Offsets -> Status]
  /\ raw \subseteq Offsets
  /\ rows \in [Offsets -> Nat]
  /\ pc \in [Workers -> Stage]
  /\ at \in [Workers -> Nat]
  /\ \A w \in Workers : pc[w] # "idle" => at[w] \in Offsets
  /\ faults \in Nat
  /\ lost \in Nat

\* A position behind the committed offset is finished in all three stores:
\* acknowledgement comes last, whatever fails, is replayed or is evicted, and
\* even if a late commit of another worker rewinds the offset.
AcknowledgedIsDurable ==
  \A o \in Offsets : o < committed =>
    runs[o] = "success" /\ o \in raw /\ rows[o] > 0

\* A run recorded as successful has its raw object and its row, even when the
\* recording worker lost its claim on the way.
SuccessIsDurable ==
  \A o \in Offsets : runs[o] = "success" => o \in raw /\ rows[o] > 0

\* A malformed message never reaches the table and is never skipped: it blocks
\* the partition at its own offset.
PoisonBlocks ==
  \A o \in Poison : rows[o] = 0 /\ runs[o] # "success" /\ committed <= o

\* Every duplicate row is paid for by a database session that died under a
\* worker between its scan and its append; with no such loss a row is unique.
DuplicatesNeedLostSessions ==
  \A o \in Offsets : rows[o] <= 1 + lost

\* Two workers whose sessions live are never inside process() for one offset.
ClaimIsExclusive ==
  \A v, w \in Workers :
    /\ pc[v] \in Holding /\ pc[w] \in Holding
    /\ session[v] /\ session[w]
    /\ at[v] = at[w]
    => v = w

\* A successful run is final: no failing or restarted worker overwrites it,
\* although save() replaces the snapshot unconditionally.
SuccessIsFinal ==
  [][\A o \in Offsets : runs[o] = "success" => runs'[o] = "success"]_vars

\* No malformed message stands at or before the offset.
Processable(o) == \A p \in 0 .. o : p \notin Poison

\* Every published message with no malformed one before it is acknowledged in
\* the end, once the faults stop.
EventuallyAcknowledged ==
  \A o \in Offsets : Processable(o) => (o < end ~> committed > o)

\* While no database session is lost, the pipeline implements the abstract
\* ledger: rows land once, in log order, and the committed position follows.
Ledger == INSTANCE IngestionLedger
          WITH Length <- LogLength, Malformed <- Poison,
               copies <- rows, position <- committed

ImplementsLedger == Ledger!Spec

\* The walk-through of docs/platform-recovery.md promises that the scan keeps
\* a replay from appending a second row, with no exception.
ReplayNeverDuplicates == \A o \in Offsets : rows[o] <= 1
=============================================================================
