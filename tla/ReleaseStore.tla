---------------------------- MODULE ReleaseStore ----------------------------
(***************************************************************************)
(* serving/release_store.py: operators activate and roll back pinned ONS   *)
(* pay releases on one machine.  An operation is previewed without a lock, *)
(* re-checked under flock, written as a content-addressed event file, and  *)
(* becomes visible when the pointer file is atomically replaced.  Each     *)
(* write is followed by an fsync of its directory; a process may die or    *)
(* fail between any two of these steps, and the machine may lose power.    *)
(*                                                                         *)
(* An event file names the SHA-256 of its predecessor, so its own SHA-256  *)
(* stands for the whole chain behind it.  The model identifies an event    *)
(* with that chain, a sequence of decisions, and the pointer with the      *)
(* chain it selects.                                                       *)
(***************************************************************************)
EXTENDS Naturals, Sequences, FiniteSets

CONSTANTS
  Operators,    \* processes running the release CLI
  NoOperator,   \* "nobody holds the lock"
  Vintages,     \* curated vintages in the catalog
  NoVintage,    \* from_vintage of a bootstrap
  NoRequest,    \* what an idle operator asks for
  Passes,       \* pairs <<baseline, candidate>> whose comparison passes
  MaxEvents,    \* bound: decisions ever written
  MaxFaults,    \* bound: failed calls, killed processes, power losses
  MaxDamage     \* bound: curated vintages damaged

ASSUME NamesAssumption == NoOperator \notin Operators /\ NoVintage \notin Vintages
ASSUME PassesAssumption == Passes \subseteq Vintages \X Vintages
ASSUME BoundsAssumption ==
  MaxEvents \in Nat /\ MaxFaults \in Nat /\ MaxDamage \in Nat

VARIABLES
  head,      \* active.json: the chain it selects, <<>> when there is none
  durable,   \* how much of head survives a power loss: synced root directory
  events,    \* events/: the chains whose newest event file exists
  safe,      \* those whose directory entry is synced
  damaged,   \* curated vintages whose Parquet no longer matches its receipt
  lock,      \* the operator holding .release.lock
  pc,        \* where each operator is
  request,   \* what each operator asked for
  chain,     \* the chain each operator is about to publish
  applied,   \* chains whose operator was told "applied"
  clock,     \* decisions written so far: created_at_utc makes each distinct
  faults,    \* faults so far
  harm       \* damages so far

files == <<head, durable, events, safe>>
budget == <<clock, faults, harm>>
vars == <<head, durable, events, safe, damaged, lock, pc, request, chain,
          applied, clock, faults, harm>>

Actions == {"bootstrap", "promote", "rollback"}

Entry == [action : Actions, from : Vintages \cup {NoVintage},
          vintage : Vintages, time : 1 .. MaxEvents]

\* to is the generation a rollback names, 0 otherwise.
Request == [action : Actions, vintage : Vintages, to : 0 .. MaxEvents,
            expected : 0 .. MaxEvents]

Locked == {"locked", "planned", "linked", "recorded", "replaced"}
Stage == Locked \cup {"idle", "waiting"}

Generation == Len(head)

Active(h) == IF h = <<>> THEN NoVintage ELSE h[Len(h)].vintage

\* What _load accepts after event i - 1 of chain h: an unbroken chain of
\* generations and pins that starts with the only bootstrap, promotes with
\* passing evidence and rolls back to a pin that was active before.
ValidLink(h, i) ==
  /\ h[i].from = Active(SubSeq(h, 1, i - 1))
  /\ h[i].action = "bootstrap" <=> i = 1
  /\ h[i].action = "promote" => <<h[i].from, h[i].vintage>> \in Passes
  /\ h[i].action = "rollback" =>
       \E n \in 1 .. i - 1 : h[n].vintage = h[i].vintage

\* _load succeeds: every event behind the pointer is on disk and valid.
Readable(h) ==
  \A i \in 1 .. Len(h) : SubSeq(h, 1, i) \in events /\ ValidLink(h, i)

\* CuratedCatalog.get_vintage re-hashes every curated vintage, not only the one
\* it is asked for.
CatalogTrusted == damaged = {}

\* status(): the history, and the active vintage if there is one.
StatusOk == Readable(head) /\ (head # <<>> => CatalogTrusted)

\* Mutant: the verdict of the comparison is not asked for.
EligibleUncompared(r) ==
  /\ StatusOk
  /\ CatalogTrusted
  /\ r.expected = Generation
  /\ \/ r.action = "bootstrap" /\ head = <<>>
     \/ r.action = "promote" /\ head # <<>> /\ r.vintage # Active(head)
     \/ /\ r.action = "rollback"
        /\ r.to \in 1 .. Generation - 1
        /\ head[r.to].vintage = r.vintage
        /\ r.vintage # Active(head)

\* _plan_activate and _plan_rollback accept the request in the present state.
Eligible(r) ==
  /\ StatusOk
  /\ CatalogTrusted
  /\ r.expected = Generation
  /\ \/ r.action = "bootstrap" /\ head = <<>>
     \/ /\ r.action = "promote" /\ head # <<>>
        /\ r.vintage # Active(head)
        /\ <<Active(head), r.vintage>> \in Passes
     \/ /\ r.action = "rollback"
        /\ r.to \in 1 .. Generation - 1
        /\ head[r.to].vintage = r.vintage
        /\ r.vintage # Active(head)

Goto(o, stage) == pc' = [pc EXCEPT ![o] = stage]

Fault == faults < MaxFaults /\ faults' = faults + 1

Init ==
  /\ head = <<>>
  /\ durable = 0
  /\ events = {}
  /\ safe = {}
  /\ damaged = {}
  /\ lock = NoOperator
  /\ pc = [o \in Operators |-> "idle"]
  /\ request = [o \in Operators |-> NoRequest]
  /\ chain = [o \in Operators |-> <<>>]
  /\ applied = {}
  /\ clock = 0
  /\ faults = 0
  /\ harm = 0

-----------------------------------------------------------------------------
\* activate/rollback: the preflight without a lock passes.  A request that
\* fails it changes nothing.
Preflight(o, r) ==
  /\ pc[o] = "idle"
  /\ clock < MaxEvents
  /\ Eligible(r)
  /\ request' = [request EXCEPT ![o] = r]
  /\ Goto(o, "waiting")
  /\ UNCHANGED <<files, damaged, lock, chain, applied, budget>>

\* Mutant: a shared lock.
LockShared(o) ==
  /\ pc[o] = "waiting"
  /\ lock' = o
  /\ Goto(o, "locked")
  /\ UNCHANGED <<files, damaged, request, chain, applied, budget>>

\* _locked: flock on .release.lock.
Lock(o) ==
  /\ pc[o] = "waiting"
  /\ lock = NoOperator
  /\ lock' = o
  /\ Goto(o, "locked")
  /\ UNCHANGED <<files, damaged, request, chain, applied, budget>>

\* Mutant: the pins swapped.
DecisionSwapped(r) == [action |-> r.action, from |-> r.vintage,
                       vintage |-> Active(head), time |-> clock + 1]

Decision(r) == [action |-> r.action, from |-> Active(head),
                vintage |-> r.vintage, time |-> clock + 1]

\* Mutant: the plan of the preflight is applied.
RecheckSkipped(o) ==
  /\ pc[o] = "locked"
  /\ clock < MaxEvents
  /\ clock' = clock + 1
  /\ chain' = [chain EXCEPT ![o] = Append(head, Decision(request[o]))]
  /\ Goto(o, "planned")
  /\ UNCHANGED <<files, damaged, lock, request, applied, faults, harm>>

\* Under the lock the status, the plan and the comparison are made again, and
\* the event is composed.
Recheck(o) ==
  /\ pc[o] = "locked"
  /\ Eligible(request[o])
  /\ clock < MaxEvents
  /\ clock' = clock + 1
  /\ chain' = [chain EXCEPT ![o] = Append(head, Decision(request[o]))]
  /\ Goto(o, "planned")
  /\ UNCHANGED <<files, damaged, lock, request, applied, faults, harm>>

\* The lock is released and the operation is over.
Leave(o) ==
  /\ lock' = NoOperator
  /\ Goto(o, "idle")
  /\ request' = [request EXCEPT ![o] = NoRequest]
  /\ chain' = [chain EXCEPT ![o] = <<>>]

\* Mutant: a refusal keeps the lock.
RefuseLocked(o) ==
  /\ pc[o] = "locked"
  /\ ~(Eligible(request[o]) /\ clock < MaxEvents)
  /\ Goto(o, "idle")
  /\ UNCHANGED <<files, damaged, lock, request, chain, applied, budget>>

\* The second check refuses: another operator got there first, or data went
\* bad meanwhile.
Refuse(o) ==
  /\ pc[o] = "locked"
  /\ ~(Eligible(request[o]) /\ clock < MaxEvents)
  /\ Leave(o)
  /\ UNCHANGED <<files, damaged, applied, budget>>

\* _publish_event: the synced temporary file is linked under its SHA-256 ...
LinkEvent(o) ==
  /\ pc[o] = "planned"
  /\ events' = events \cup {chain[o]}
  /\ Goto(o, "linked")
  /\ UNCHANGED <<head, durable, safe, damaged, lock, request, chain, applied,
                 budget>>

\* Mutant: the directory is not synced.
SyncNoEvents(o) ==
  /\ pc[o] = "linked"
  /\ Goto(o, "recorded")
  /\ UNCHANGED <<files, damaged, lock, request, chain, applied, budget>>

\* ... and the directory is synced, with every entry in it.
SyncEvents(o) ==
  /\ pc[o] = "linked"
  /\ safe' = events
  /\ Goto(o, "recorded")
  /\ UNCHANGED <<head, durable, events, damaged, lock, request, chain, applied,
                 budget>>

\* _publish_head: os.replace makes the decision visible ...
ReplaceHead(o) ==
  /\ pc[o] = "recorded"
  /\ head' = chain[o]
  /\ Goto(o, "replaced")
  /\ UNCHANGED <<durable, events, safe, damaged, lock, request, chain, applied,
                 budget>>

\* Mutant: "applied" without the sync.
SyncNoHead(o) ==
  /\ pc[o] = "replaced"
  /\ applied' = applied \cup {chain[o]}
  /\ Leave(o)
  /\ UNCHANGED <<files, damaged, budget>>

\* ... the root directory is synced, and the operator is told "applied".
SyncHead(o) ==
  /\ pc[o] = "replaced"
  /\ durable' = Len(head)
  /\ applied' = applied \cup {chain[o]}
  /\ Leave(o)
  /\ UNCHANGED <<head, events, safe, damaged, budget>>

-----------------------------------------------------------------------------
\* A write or a sync raises, or the process is killed: the lock is released
\* and the files stay as they are.
Interrupt(o) ==
  /\ pc[o] \in Locked
  /\ Fault
  /\ Leave(o)
  /\ UNCHANGED <<files, damaged, applied, clock, harm>>

\* The machine loses power: all processes die, unsynced directory entries may
\* or may not have reached the disk.
PowerLoss ==
  /\ Fault
  /\ \E n \in durable .. Len(head), kept \in SUBSET (events \ safe) :
       /\ head' = SubSeq(head, 1, n)
       /\ durable' = n
       /\ events' = safe \cup kept
       /\ safe' = safe \cup kept
  /\ lock' = NoOperator
  /\ pc' = [o \in Operators |-> "idle"]
  /\ request' = [o \in Operators |-> NoRequest]
  /\ chain' = [o \in Operators |-> <<>>]
  /\ UNCHANGED <<damaged, applied, clock, harm>>

\* A curated Parquet file stops matching its receipt.
Damage(v) ==
  /\ harm < MaxDamage
  /\ damaged' = damaged \cup {v}
  /\ harm' = harm + 1
  /\ UNCHANGED <<files, lock, pc, request, chain, applied, clock, faults>>

\* The file is restored.
Restore(v) ==
  /\ v \in damaged
  /\ damaged' = damaged \ {v}
  /\ UNCHANGED <<files, lock, pc, request, chain, applied, budget>>

-----------------------------------------------------------------------------
Step(o) ==
  \/ Lock(o) \/ Recheck(o) \/ Refuse(o) \/ LinkEvent(o) \/ SyncEvents(o)
  \/ ReplaceHead(o) \/ SyncHead(o)

Next ==
  \/ \E o \in Operators : Step(o) \/ Interrupt(o)
  \/ \E o \in Operators, r \in Request : Preflight(o, r)
  \/ PowerLoss
  \/ \E v \in Vintages : Damage(v) \/ Restore(v)

Spec == Init /\ [][Next]_vars

\* A process that holds or waits for the lock runs on; flock is fair to a
\* waiter that is passed over again and again.
FairSpec == Spec /\ \A o \in Operators : WF_vars(Step(o)) /\ SF_vars(Lock(o))

-----------------------------------------------------------------------------
\* Every variable has its type; a synced event exists, and an operator that is
\* not idle has a request.
TypeOK ==
  /\ head \in Seq(Entry)
  /\ durable \in Nat
  /\ events \subseteq Seq(Entry)
  /\ safe \subseteq events
  /\ damaged \subseteq Vintages
  /\ lock \in Operators \cup {NoOperator}
  /\ pc \in [Operators -> Stage]
  /\ request \in [Operators -> Request \cup {NoRequest}]
  /\ \A o \in Operators : pc[o] # "idle" => request[o] \in Request
  /\ chain \in [Operators -> Seq(Entry)]
  /\ applied \subseteq Seq(Entry)
  /\ clock \in 0 .. MaxEvents
  /\ faults \in Nat
  /\ harm \in Nat

\* Whatever was interrupted or lost, the pointer selects a history that _load
\* accepts: all its events are on disk and form one valid chain.
HistoryReadable == Readable(head)

\* A decision reported as applied stays in the history for good, at its
\* generation, through later decisions, crashes and power losses.
AppliedSurvives ==
  \A c \in applied : Len(c) <= durable /\ SubSeq(head, 1, Len(c)) = c

\* The lock excludes: whoever is past flock is alone there.
OneWriter == \A o \in Operators : pc[o] \in Locked <=> lock = o

\* --expected-generation: the pointer only moves on from the generation the
\* operator previewed, however long it waited for the lock.
MovesFromExpected ==
  [][\A o \in Operators :
       Len(head') > Len(head) /\ head' = chain[o] =>
         request[o].expected = Len(head) /\ Len(head') = Len(head) + 1]_vars

\* The store implements the abstract history; a synced pointer is settled.
Ledger == INSTANCE ReleaseLedger
          WITH history <- head, settled <- durable, Times <- 1 .. MaxEvents

ImplementsLedger == Ledger!Spec

\* Whoever waits for the lock gets its answer.
WaiterAnswered ==
  \A o \in Operators : pc[o] = "waiting" ~> pc[o] = "idle"

\* docs/ons-pay-release-lifecycle.md: history reads "re-verify the currently
\* active Parquet", so damage to other vintages leaves status readable.
StatusNeedsOnlyActive ==
  Readable(head) /\ Active(head) \notin damaged => StatusOk
=============================================================================
