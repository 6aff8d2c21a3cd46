--------------------------- MODULE ReleaseHealth ---------------------------
(***************************************************************************)
(* observability/ons_pay_release_health.py, ons_pay_monitor.py,            *)
(* ons_pay_release_history.py and ons_pay_history_alerts.py over the       *)
(* release history: operators assess the active release without a lock,    *)
(* some record their assessment under the lock of the release writer, and  *)
(* an observer evaluates alerts over the archive, while releases move, the *)
(* curated data and the refresh log change, and the machine loses power.   *)
(*                                                                         *)
(* The releases are those of ReleaseLedger, which ReleaseStore implements; *)
(* here a decision keeps the lock until it is settled or its writer dies.  *)
(* The clock of the machine is taken to be monotonic: decisions and        *)
(* assessments each read a time of their own, a refresh that ends writes a *)
(* time no assessment under way has read, and alerts are evaluated at the  *)
(* newest time read.                                                       *)
(***************************************************************************)
EXTENDS AlertRules

CONSTANTS
  Vintages,     \* curated vintages that may be released
  NoVintage,    \* "no active release"
  Passes,       \* pairs <<baseline, candidate>> that pass the six policies
  Assessors,    \* processes running "assess"
  Writer,       \* whoever runs "activate" or "rollback"
  Nobody,       \* "nobody holds the lock"
  NoWork,       \* what an idle assessor works on
  MissingPay,   \* percentage of rows without pay of each vintage
  PayLimits,    \* --max-missing-pay-percent of an assessment
  SourceLimit,  \* --max-source-age-days; sources were retrieved at time 0
  RefreshLimit, \* --max-refresh-age-hours
  BasePolicy,   \* the alert policy file of the observer
  Overrides,    \* the options it may be given on top
  MaxClock,     \* bound: decisions and assessments made
  MaxEvents,    \* bound: decisions
  Outcomes,     \* what a refresh audit may say: [success, completed]
  MaxAudits,    \* bound: refresh audits
  MaxFaults     \* bound: interrupted assessors, power losses and damaged data

ASSUME ActorsAssumption ==
  /\ Nobody \notin Assessors \cup {Writer}
  /\ Writer \notin Assessors
  /\ NoVintage \notin Vintages
ASSUME LimitsAssumption ==
  /\ MissingPay \in [Vintages -> 0 .. 100]
  /\ PayLimits \subseteq (0 .. 100) \cup {None}
  /\ {SourceLimit, RefreshLimit} \subseteq Limit
  /\ BasePolicy \in Policy
  /\ \A given \in Overrides : WithOverrides(BasePolicy, given) \in Policy
  /\ Outcomes \subseteq [success : BOOLEAN, completed : SUBSET Vintages]
  /\ \A o \in Outcomes : o.success => o.completed # {}
ASSUME BoundsAssumption ==
  /\ {MaxClock, MaxEvents, MaxFaults, MaxAudits} \subseteq Nat

VARIABLES
  history,  \* the decisions, oldest first; the last one is active
  settled,  \* how many of them survive a power failure
  lock,     \* who holds .release.lock
  clock,    \* the last time read
  trusted,  \* the curated data matches its receipts
  audits,   \* the refresh audits written
  pc,       \* where each assessor is
  work,     \* the report each assessor composes
  archive,  \* health/assessments/: the records linked
  synced,   \* those whose directory entry is synced
  told,     \* records whose assessor was told record_sha256
  watch,    \* the observer: its time, and the release and archive it read
  reports,  \* what the alert reports it returned were made from
  lost,     \* chains a power loss took back
  faults    \* faults so far

ledger == <<history, settled>>
records == <<archive, synced, told>>
environment == <<trusted, audits, lost, faults>>
vars == <<history, settled, lock, clock, trusted, audits, pc, work, archive,
          synced, told, watch, reports, lost, faults>>

Ledger == INSTANCE ReleaseLedger WITH Times <- 1 .. MaxClock

\* The monitor's checks; a table that breaks its contract is one more reason to
\* investigate, as an old source is, and is left out.
Checks == {"curation_integrity", "source_freshness", "missing_pay_rate",
           "refresh_audit_integrity", "last_batch", "vintage_refresh_success",
           "refresh_recency"}

Audit == [time : 0 .. MaxClock + 1, success : BOOLEAN, completed : SUBSET Vintages]

Chain == Seq(Ledger!Decision)

ReviewedCandidate ==
  [gen : Nat, vintage : Vintages, status : {"healthy", "unhealthy", "unverifiable"},
   failed : SUBSET Checks]

\* ReleaseHealthReport, and while it is composed: next is the generation to
\* review next.
Report ==
  [chain : Chain, time : 1 .. MaxClock, limit : Limit, failed : SUBSET Checks,
   missing : Limit, advice : {"keep", "investigate", "review_rollback"},
   to : Nat, target : Vintages \cup {NoVintage}, reviewed : Seq(ReviewedCandidate),
   next : Nat]

Watch == [stage : {"idle", "started", "read"}, time : 0 .. MaxClock,
          chain : Chain, samples : SUBSET Report]

NoWatch == [stage |-> "idle", time |-> 0, chain |-> <<>>, samples |-> {}]

Stages == {"idle", "opened", "reviewing", "assessed", "linked"}

ActiveVintage == Ledger!ActiveAfter(history)

Goto(a, stage) == pc' = [pc EXCEPT ![a] = stage]

\* Mutant: the report of the last assessment is still there for the next.
IdleKeepsWork(a) == Goto(a, "idle") /\ UNCHANGED work

Idle(a) == Goto(a, "idle") /\ work' = [work EXCEPT ![a] = NoWork]

Fault == faults < MaxFaults /\ faults' = faults + 1

\* An act reads the clock.
ReadsClock == clock < MaxClock /\ clock' = clock + 1

AuditAt(outcome, t) ==
  [time |-> t, success |-> outcome.success, completed |-> outcome.completed]

Init ==
  /\ history = <<>> /\ settled = 0
  /\ lock = Nobody
  /\ clock = 0
  /\ trusted = TRUE
  /\ audits = {AuditAt([success |-> TRUE, completed |-> Vintages], 0)}
  /\ pc = [a \in Assessors |-> "idle"]
  /\ work = [a \in Assessors |-> NoWork]
  /\ archive = {} /\ synced = {} /\ told = {}
  /\ watch = NoWatch
  /\ reports = {}
  /\ lost = {}
  /\ faults = 0

-----------------------------------------------------------------------------
\* The release writer, under the lock: a decision whose pointer is replaced ...
Activate ==
  /\ lock = Nobody
  /\ trusted
  /\ Len(history) < MaxEvents
  /\ ReadsClock
  /\ \E d \in Ledger!Decision : d.time = clock' /\ Ledger!Decide(d)
  /\ lock' = Writer
  /\ UNCHANGED <<environment, pc, work, records, watch, reports>>

\* ... and synced.
FinishActivate ==
  /\ lock = Writer
  /\ Ledger!Settle
  /\ lock' = Nobody
  /\ UNCHANGED <<clock, environment, pc, work, records, watch, reports>>

\* The writer dies or fails between the two.
AbandonActivate ==
  /\ lock = Writer
  /\ lock' = Nobody
  /\ UNCHANGED <<ledger, clock, environment, pc, work, records, watch, reports>>

\* A refresh ends and writes its audit.
Refresh(outcome) ==
  /\ Cardinality(audits) < MaxAudits
  /\ audits' = audits \cup {AuditAt(outcome, clock + 1)}
  /\ UNCHANGED <<ledger, lock, clock, trusted, lost, faults, pc, work, records, watch,
                 reports>>

\* The curated data stops matching its receipts ...
Tamper ==
  /\ trusted
  /\ Fault
  /\ trusted' = FALSE
  /\ UNCHANGED <<ledger, lock, clock, audits, lost, pc, work, records, watch,
                 reports>>

\* ... and somebody repairs it.
Repair ==
  /\ ~trusted
  /\ trusted' = TRUE
  /\ UNCHANGED <<ledger, lock, clock, audits, lost, faults, pc, work, records,
                 watch, reports>>

-----------------------------------------------------------------------------
\* monitor_ons_pay over the curated data: which checks fail for vintage v at
\* time t.  Without a trusted receipt the other data checks are skipped.
DataFailures(v, t, limit) ==
  IF ~trusted THEN {"curation_integrity"}
  ELSE {c \in Checks :
          \/ c = "source_freshness" /\ SourceLimit # None /\ t > SourceLimit
          \/ c = "missing_pay_rate" /\ limit # None /\ MissingPay[v] > limit}

\* _read_audits refuses an audit written after the assessment began, and the
\* monitor an empty log.
AuditsTrusted(t) == audits # {} /\ \A x \in audits : x.time <= t

Successes(v) == {x \in audits : x.success /\ v \in x.completed}

\* monitor_ons_pay over the refresh log: an unreadable log leaves no success
\* to speak of.
AuditFailures(v, t) ==
  LET known == IF AuditsTrusted(t) THEN Successes(v) ELSE {}
  IN {c \in Checks :
        \/ c = "refresh_audit_integrity" /\ ~AuditsTrusted(t)
        \/ c = "last_batch" /\ AuditsTrusted(t) /\ ~Newest(audits).success
        \/ c = "vintage_refresh_success" /\ known = {}
        \/ /\ c = "refresh_recency" /\ RefreshLimit # None
           /\ known = {} \/ t - Newest(known).time > RefreshLimit}

Failures(v, t, limit) == DataFailures(v, t, limit) \cup AuditFailures(v, t)

-----------------------------------------------------------------------------
\* assess_ons_pay_release: the history is read, then the clock, and the monitor
\* re-hashes the curated trusted, which nothing reads or writes in between.
Begin(a, limit) ==
  /\ pc[a] = "idle"
  /\ history # <<>>
  /\ ReadsClock
  /\ work' = [work EXCEPT ![a] =
       [chain |-> history, time |-> clock', limit |-> limit,
        failed |-> DataFailures(ActiveVintage, clock', limit),
        missing |-> IF ~trusted THEN None ELSE MissingPay[ActiveVintage],
        advice |-> "investigate", to |-> 0, target |-> NoVintage,
        reviewed |-> <<>>, next |-> Len(history) - 1]]
  /\ Goto(a, "opened")
  /\ UNCHANGED <<ledger, lock, environment, records, watch, reports>>

\* The report w is complete when the history, read again, has not moved.
Finish(a, w) ==
  IF history = w.chain
  THEN /\ Goto(a, "assessed")
       /\ work' = [work EXCEPT ![a] = [w EXCEPT !.limit = None, !.next = 0]]
  ELSE Idle(a)

\* Then the monitor reads the refresh log.  Only a breach of the missing-pay
\* limit and nothing else starts the search for a rollback.
ReadAudits(a) ==
  /\ pc[a] = "opened"
  /\ LET failed == work[a].failed
                     \cup AuditFailures(Ledger!ActiveAfter(work[a].chain), work[a].time)
         w == [work[a] EXCEPT !.failed = failed,
                              !.advice = IF failed = {} THEN "keep" ELSE @]
     IN IF failed = {"missing_pay_rate"}
        THEN Goto(a, "reviewing") /\ work' = [work EXCEPT ![a] = w]
        ELSE Finish(a, w)
  /\ UNCHANGED <<ledger, lock, clock, environment, records, watch, reports>>

\* Prior generations with a pin not seen yet.
Remaining(w) ==
  {g \in 1 .. w.next :
     /\ w.chain[g].vintage # Ledger!ActiveAfter(w.chain)
     /\ \A i \in DOMAIN w.reviewed : w.reviewed[i].vintage # w.chain[g].vintage}

\* plan_rollback accepts generation g of chain now: nothing moved, and the
\* curated data of the active vintage and of the target is trusted.
Plannable(chain, g) ==
  /\ history = chain
  /\ trusted
  /\ chain[g].vintage # ActiveVintage

Candidate(w, g) ==
  LET v == w.chain[g].vintage
      failed == IF Plannable(w.chain, g) THEN Failures(v, w.time, w.limit) ELSE {}
  IN [gen |-> g, vintage |-> v, failed |-> failed,
      status |-> IF ~Plannable(w.chain, g) THEN "unverifiable"
                 ELSE IF failed = {} THEN "healthy" ELSE "unhealthy"]

\* The newest remaining candidate is planned and monitored; the first healthy
\* one is the advice, and without one the advice stays "investigate".
Review(a) ==
  /\ pc[a] = "reviewing"
  /\ LET g == Max(Remaining(work[a]))
         c == Candidate(work[a], g)
         w == [work[a] EXCEPT !.reviewed = Append(@, c), !.next = g - 1]
     IN IF Remaining(work[a]) = {} THEN Finish(a, work[a])
        ELSE IF c.status = "healthy"
        THEN Finish(a, [w EXCEPT !.advice = "review_rollback", !.to = g,
                                 !.target = c.vintage])
        ELSE work' = [work EXCEPT ![a] = w] /\ UNCHANGED pc
  /\ UNCHANGED <<ledger, lock, clock, environment, records, watch, reports>>

-----------------------------------------------------------------------------
\* _sample: the reviewed candidates are distinct prior pins, newest first, each
\* with a status its failed checks agree with.
CandidatesOk(r) ==
  \A i \in DOMAIN r.reviewed :
    LET c == r.reviewed[i]
    IN /\ c.gen \in 1 .. Len(r.chain) - 1
       /\ i > 1 => c.gen < r.reviewed[i - 1].gen
       /\ c.vintage = r.chain[c.gen].vintage
       /\ c.vintage # Ledger!ActiveAfter(r.chain)
       /\ \A j \in 1 .. i - 1 : r.reviewed[j].vintage # c.vintage
       /\ c.failed # {} <=> c.status = "unhealthy"

\* _sample: advice that the failed checks and the candidates bear out.
AdviceOk(r) ==
  LET healthy == {r.reviewed[i].gen :
                    i \in {j \in DOMAIN r.reviewed : r.reviewed[j].status = "healthy"}}
  IN /\ r.failed = {} <=> r.advice = "keep"
     /\ r.advice = "keep" => r.reviewed = <<>>
     /\ IF r.advice = "review_rollback"
        THEN /\ r.failed = {"missing_pay_rate"}
             /\ r.to \in healthy
             /\ r.target = r.chain[r.to].vintage
        ELSE r.to = 0 /\ r.target = NoVintage /\ healthy = {}

\* _sample: the record names a decision of the history as it is now, was made
\* while that was the newest one, and not in the future.
BoundTo(r, h) ==
  /\ Len(r.chain) \in 1 .. Len(h)
  /\ r.chain = SubSeq(h, 1, Len(r.chain))
  /\ r.time >= h[Len(r.chain)].time
  /\ r.time <= clock

SampleOk(r) == BoundTo(r, history) /\ CandidatesOk(r) /\ AdviceOk(r)

\* Mutant: the release is not compared under the lock.
RecordAnyRelease(a) ==
  /\ pc[a] = "assessed"
  /\ lock = Nobody
  /\ SampleOk(work[a])
  /\ lock' = a
  /\ archive' = archive \cup {work[a]}
  /\ Goto(a, "linked")
  /\ UNCHANGED <<ledger, clock, environment, work, synced, told, watch, reports>>

\* record, holding the lock of the release writer: the release is still the one
\* assessed, the report is one that trends will accept, and _publish links the
\* synced temporary file under its SHA-256; a record there already is the same.
Record(a) ==
  /\ pc[a] = "assessed"
  /\ lock = Nobody
  /\ history = work[a].chain
  /\ SampleOk(work[a])
  /\ lock' = a
  /\ archive' = archive \cup {work[a]}
  /\ Goto(a, "linked")
  /\ UNCHANGED <<ledger, clock, environment, work, synced, told, watch, reports>>

\* record refuses, or the report was only asked for, or the process ends early:
\* nothing is written before record.
Dismiss(a) ==
  /\ pc[a] \notin {"idle", "linked"}
  /\ Idle(a)
  /\ UNCHANGED <<ledger, lock, clock, environment, records, watch, reports>>

\* Mutant: told before the directory is synced.
TellUnsynced(a) ==
  /\ pc[a] = "linked"
  /\ told' = told \cup {work[a]}
  /\ lock' = Nobody
  /\ Idle(a)
  /\ UNCHANGED <<ledger, clock, environment, archive, synced, watch, reports>>

\* _publish: the directory is synced, the lock released, the SHA-256 returned.
Tell(a) ==
  /\ pc[a] = "linked"
  /\ synced' = archive
  /\ told' = told \cup {work[a]}
  /\ lock' = Nobody
  /\ Idle(a)
  /\ UNCHANGED <<ledger, clock, environment, archive, watch, reports>>

\* An assessor fails or is killed between the link and its sync.
Interrupt(a) ==
  /\ pc[a] = "linked"
  /\ Fault
  /\ Idle(a)
  /\ lock' = Nobody
  /\ UNCHANGED <<ledger, clock, trusted, audits, lost, records, watch, reports>>

-----------------------------------------------------------------------------
\* The policies the observer may be started with: a file and options on top.
Policies == {WithOverrides(BasePolicy, given) : given \in Overrides}

\* trends: every record is validated before any is selected.
TrendsOk == \A r \in archive : SampleOk(r)

\* evaluate_ons_pay_history_alerts: the clock is read ...
StartAlerts ==
  /\ watch.stage = "idle"
  /\ reports = {}
  /\ watch' = [NoWatch EXCEPT !.stage = "started", !.time = clock]
  /\ UNCHANGED <<ledger, lock, clock, environment, pc, work, records, reports>>

\* ... then the release and the archive; an archive that is refused ends it ...
ReadArchive ==
  /\ watch.stage = "started"
  /\ watch' = IF TrendsOk
              THEN [watch EXCEPT !.stage = "read", !.chain = history,
                                 !.samples = archive]
              ELSE NoWatch
  /\ UNCHANGED <<ledger, lock, clock, environment, pc, work, records, reports>>

\* ... and the release is read again: the report stands for it or is refused.
ReportAlerts ==
  /\ watch.stage = "read"
  /\ reports' = IF history = watch.chain THEN reports \cup {watch} ELSE reports
  /\ watch' = NoWatch
  /\ UNCHANGED <<ledger, lock, clock, environment, pc, work, records>>

\* What the report of w says under a policy.
Alerts(policy, w) ==
  Evaluate(policy, LastOf(w.samples, policy.last), w.time, w.chain)

-----------------------------------------------------------------------------
\* The machine loses power: processes die, unsynced decisions and directory
\* entries may be lost.
LosePower ==
  /\ Fault
  /\ \E n \in settled .. Len(history) :
       /\ Ledger!PowerLoss(n)
       /\ lost' = lost \cup {SubSeq(history, 1, k) : k \in n + 1 .. Len(history)}
  /\ \E kept \in SUBSET (archive \ synced) :
       archive' = synced \cup kept /\ synced' = synced \cup kept
  /\ lock' = Nobody
  /\ pc' = [a \in Assessors |-> "idle"]
  /\ work' = [a \in Assessors |-> NoWork]
  /\ watch' = NoWatch
  /\ UNCHANGED <<clock, trusted, audits, told, reports>>

Assess(a) ==
  \/ \E limit \in PayLimits : Begin(a, limit)
  \/ ReadAudits(a) \/ Review(a) \/ Record(a)
  \/ Dismiss(a) \/ Tell(a) \/ Interrupt(a)

Next ==
  \/ Activate \/ FinishActivate \/ AbandonActivate
  \/ \E outcome \in Outcomes : Refresh(outcome)
  \/ Tamper \/ Repair
  \/ \E a \in Assessors : Assess(a)
  \/ StartAlerts \/ ReadArchive \/ ReportAlerts
  \/ LosePower

Spec == Init /\ [][Next]_vars

-----------------------------------------------------------------------------
\* Every variable has its type; a report in progress was begun at a time the
\* clock has shown.
TypeOK ==
  /\ history \in Chain /\ settled \in 0 .. Len(history)
  /\ lock \in Assessors \cup {Writer, Nobody}
  /\ clock \in 0 .. MaxClock
  /\ trusted \in BOOLEAN
  /\ audits \subseteq Audit
  /\ pc \in [Assessors -> Stages]
  /\ \A a \in Assessors :
       IF pc[a] = "idle" THEN work[a] = NoWork
       ELSE work[a] \in Report /\ work[a].time <= clock
  /\ archive \subseteq Report
  /\ synced \subseteq archive
  /\ told \subseteq Report
  /\ watch \in Watch
  /\ reports \subseteq Watch
  /\ lost \subseteq Chain
  /\ faults \in 0 .. MaxFaults

\* The assessor and the validator of ons_pay_release_history.py agree: whatever
\* happened while it was composed, a report of the release that is still active
\* is one _sample accepts; and what trends accepted once it accepts for good,
\* and keeps when its SHA-256 was returned, except that a power loss may take
\* back the very decision that a record names.
ArchiveVerifies ==
  /\ \A a \in Assessors :
       pc[a] = "assessed" /\ history = work[a].chain => SampleOk(work[a])
  /\ \A r \in archive : SampleOk(r) \/ r.chain \in lost
  /\ told \subseteq archive

\* record shares the writer's lock "so an activation cannot switch the pointer
\* between evidence validation and publication": once alerts are reported for a
\* release, the assessments of earlier ones, the baseline of its drift, gain no
\* record; and what is recorded of one release is older than what is recorded
\* of the next.
BaselineIsFinal ==
  /\ \A w \in {x \in reports : x.chain \notin lost} :
       {r \in archive : Len(r.chain) < Len(w.chain) /\ r.chain \notin lost}
         \subseteq w.samples
  /\ \A r, s \in {x \in archive : x.chain \notin lost} :
       r.time < s.time => Len(r.chain) <= Len(s.chain)

\* evaluate_ons_pay_history_alerts: "ok" is never given to a release nobody
\* assessed, and, when one unhealthy assessment is to alert, never while the
\* newest of the assessments it read was unhealthy.
OkMeansAssessed ==
  \A w \in reports, policy \in Policies :
    LET mine == {s \in w.samples : s.chain = w.chain /\ s.time <= w.time}
    IN StatusOf(Alerts(policy, w)) = "ok" =>
         /\ mine # {}
         /\ policy.streak = 1 => ~Unhealthy(Newest(mine))

\* replay: "a later assessment cannot change an earlier checkpoint's result":
\* as long as no assessment from before its newest sample is recorded late,
\* every replay repeats, at that sample, what the observer reported live, the
\* age of the sample apart.
ReplayReproducesLive ==
  \A w \in reports, policy \in Policies :
    LET s == Newest(w.samples)
    IN ( /\ w.samples # {}
         /\ s.chain = w.chain /\ s.time <= w.time
         /\ w.samples = {x \in archive : x.time <= s.time} ) =>
       LET live == Alerts(policy, w)
           again == Replay(policy, archive, MaxClock)[s]
       IN \A n \in CheckNames \ {"assessment_age_hours"} : live[n] = again[n]

\* candidate raises or drops thresholds of baseline and keeps its window.
Looser(baseline, candidate) ==
  /\ baseline # candidate
  /\ candidate.last = baseline.last
  /\ \A f \in DOMAIN baseline \ {"last"} :
       \/ candidate[f] = None
       \/ baseline[f] # None /\ baseline[f] <= candidate[f]

NoAlertAdded ==
  [min_evaluated |-> 1, max |-> [b \in Budgets |-> IF b = "alert_added" THEN 0 ELSE None]]

\* The gate that allows no added alert passes a candidate policy that is only
\* looser, exactly when there is an assessment to judge it by, whatever the
\* archive: no threshold of the evaluator works against another.
LooseningAddsNoAlert ==
  TrendsOk =>
    \A p, q \in Policies :
      Looser(p, q) =>
        (GatePasses(Compare(p, q, archive, MaxClock), NoAlertAdded) <=> archive # {})
=============================================================================
