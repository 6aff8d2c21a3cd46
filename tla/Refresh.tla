------------------------------ MODULE Refresh ------------------------------
(***************************************************************************)
(* orchestration/ons_pay_refresh.py with what it drives: several refresh   *)
(* runs ingest pinned registry handoffs into one local object store        *)
(* (ingestion/registry_handoff.py, storage/local.py), curate them into     *)
(* immutable Parquet outputs (curation/ons_pay.py) and write receipts and  *)
(* an audit, which the serving catalog (serving/catalog.py) trusts.        *)
(*                                                                         *)
(* A handoff pins a vintage (registry commit and source SHA-256) and has a *)
(* text of its own (attribution, formatting); it may be generated again    *)
(* between any two steps of a run.  The source checkouts are what the pins *)
(* say, and curation is deterministic: an output is whole or not there.    *)
(***************************************************************************)
EXTENDS Naturals, Sequences, FiniteSets

CONSTANTS
  Runs,          \* refresh processes, each of which runs once
  NoRun,         \* nobody
  Pins,          \* vintages
  SourceOf,      \* the source SHA-256 of each vintage; it keys the object
  Texts,         \* handoff texts
  Files,         \* handoff files
  Batches,       \* sequences of files a run may be asked for
  Outputs,       \* Parquet outputs of a vintage
  MaxFaults,     \* bound: failed steps and killed processes
  MaxRewrites    \* bound: handoff files rewritten

Sources == {SourceOf[p] : p \in Pins}

ASSUME RunsAssumption == NoRun \notin Runs
ASSUME PinsAssumption == DOMAIN SourceOf = Pins
ASSUME BatchesAssumption == Batches \subseteq Seq(Files) \ {<<>>}
ASSUME BoundsAssumption == MaxFaults \in Nat /\ MaxRewrites \in Nat

VARIABLES
  handoff,    \* what each handoff file says now
  object,     \* the file under each source's storage key
  temp,       \* the file under its temporary name
  output,     \* Parquet outputs that exist, whole, as <<vintage, output>>
  ingested,   \* handoffs with an ingestion receipt
  curated,    \* handoffs with a curation receipt
  audits,     \* refresh audits
  pc,         \* where each run is
  batch,      \* files still to process, the current one first
  planned,    \* vintages its preflight found in them
  read,       \* the handoff it is ingesting, as <<h>>, or <<>>
  completed,  \* what the run has completed: <<planned vintage, handoff>>
  todo,       \* outputs still to publish
  collided,   \* have two runs used one temporary file at the same time?
  moved,      \* has a handoff file been made to pin another vintage?
  refusals,   \* failures for no outside reason
  faults,     \* faults so far
  rewrites    \* rewrites so far

store == <<object, temp>>
receipts == <<ingested, curated, audits, refusals>>
work == <<batch, planned, read, completed, todo>>
registry == <<handoff, moved, rewrites>>
vars == <<registry, store, output, receipts, pc, work, collided, faults>>

Handoff == [pin : Pins, text : Texts]

\* A file, the run that truncated it last and the runs still to write to it.
File == [there : BOOLEAN, whole : BOOLEAN, last : Runs \cup {NoRun},
         writers : SUBSET Runs]
NoFile == [there |-> FALSE, whole |-> FALSE, last |-> NoRun, writers |-> {}]

Ingesting == {"reading", "checking", "opening", "writing", "replacing",
              "verifying", "receipting"}
Curating == {"curating", "publishing", "recording"}
Stopped == {"idle", "ended"}
Stage == Ingesting \cup Curating \cup Stopped \cup {"auditing"}

Audit == [completed : Seq(Pins \X Handoff),
          phase : {"done", "preflight", "ingestion", "curation"},
          receipt : Seq(Handoff)]

Reading(r) == read[r][1]
Pin(r) == Reading(r).pin
Source(r) == SourceOf[Pin(r)]

Goto(r, stage) == pc' = [pc EXCEPT ![r] = stage]

Fault == faults < MaxFaults /\ faults' = faults + 1

Init ==
  /\ handoff \in [Files -> Handoff]
  /\ object = [s \in Sources |-> NoFile]
  /\ temp = [s \in Sources |-> NoFile]
  /\ output = {}
  /\ ingested = {}
  /\ curated = {}
  /\ audits = {}
  /\ pc = [r \in Runs |-> "idle"]
  /\ batch = [r \in Runs |-> <<>>]
  /\ planned = [r \in Runs |-> <<>>]
  /\ read = [r \in Runs |-> <<>>]
  /\ completed = [r \in Runs |-> <<>>]
  /\ todo = [r \in Runs |-> {}]
  /\ collided = FALSE
  /\ moved = FALSE
  /\ refusals = 0
  /\ faults = 0
  /\ rewrites = 0

-----------------------------------------------------------------------------
\* plan_ons_pay_refresh parses every file of the batch and refuses one that
\* pins a vintage twice, or any that is unfit for another reason.
PinsOf(b) == [i \in DOMAIN b |-> handoff[b[i]].pin]

Distinct(b) == \A i, j \in DOMAIN b : PinsOf(b)[i] = PinsOf(b)[j] => i = j

Start(r, b) ==
  /\ pc[r] = "idle"
  /\ Distinct(b)
  /\ batch' = [batch EXCEPT ![r] = b]
  /\ planned' = [planned EXCEPT ![r] = PinsOf(b)]
  /\ Goto(r, "reading")
  /\ UNCHANGED <<registry, store, output, receipts, read, completed, todo,
                 collided, faults>>

Refuse(r, b) ==
  /\ pc[r] = "idle"
  /\ ~Distinct(b)
  /\ audits' = audits \cup
       {[completed |-> <<>>, phase |-> "preflight", receipt |-> <<>>]}
  /\ Goto(r, "ended")
  /\ UNCHANGED <<registry, store, output, ingested, curated, refusals, work,
                 collided, faults>>

\* ingest_handoff reads and parses the file again.
ReadHandoff(r) ==
  /\ pc[r] = "reading"
  /\ read' = [read EXCEPT ![r] = <<handoff[Head(batch[r])]>>]
  /\ Goto(r, "checking")
  /\ UNCHANGED <<registry, store, output, receipts, batch, planned, completed,
                 todo, collided, faults>>

Continue(r, stage) ==
  /\ Goto(r, stage)
  /\ UNCHANGED <<registry, output, receipts, work, faults>>

\* store.exists: an object that is there is re-hashed and reused.
ReuseObject(r) ==
  /\ pc[r] = "checking"
  /\ object[Source(r)].there /\ object[Source(r)].whole
  /\ Continue(r, "receipting")
  /\ UNCHANGED <<store, collided>>

PutObject(r) ==
  /\ pc[r] = "checking"
  /\ ~object[Source(r)].there
  /\ Continue(r, "opening")
  /\ UNCHANGED <<store, collided>>

\* The run is between opening and replacing the temporary file of the source.
Putting(r, source) ==
  pc[r] \in {"writing", "replacing"} /\ Source(r) = source

\* Mutant: no temporary name.
OpenUnderKey(r) ==
  LET file == [there |-> TRUE, whole |-> FALSE, last |-> r, writers |-> {r}] IN
  /\ pc[r] = "opening"
  /\ temp' = [temp EXCEPT ![Source(r)] = file]
  /\ object' = [object EXCEPT ![Source(r)] = file]
  /\ collided' = (collided \/ \E x \in Runs \ {r} : Putting(x, Source(r)))
  /\ Continue(r, "writing")

\* LocalBlobStore.put_bytes: the temporary name is derived from the key alone,
\* so that opening it truncates whatever another run has there ...
OpenTemp(r) ==
  /\ pc[r] = "opening"
  /\ temp' = [temp EXCEPT ![Source(r)] =
       [there |-> TRUE, whole |-> FALSE, last |-> r,
        writers |-> @.writers \cup {r}]]
  /\ collided' = (collided \/ \E x \in Runs \ {r} : Putting(x, Source(r)))
  /\ Continue(r, "writing")
  /\ UNCHANGED object

\* What the write of the run does to a file, if it is the one it opened; if
\* another run has truncated it since, what was written before that is lost.
Filled(f, r, wrote) ==
  IF r \in f.writers
  THEN [f EXCEPT !.writers = @ \ {r},
                 !.whole = @ \/ f.last = r \/ wrote]
  ELSE f

\* ... the bytes go to the file that was opened, under whatever name it has by
\* now ...
WriteTemp(r) ==
  /\ pc[r] = "writing"
  /\ \E wrote \in BOOLEAN :
       /\ temp' = [temp EXCEPT ![Source(r)] = Filled(@, r, wrote)]
       /\ object' = [object EXCEPT ![Source(r)] = Filled(@, r, wrote)]
  /\ Continue(r, "replacing")
  /\ UNCHANGED collided

\* ... and the name is moved over the key.
ReplaceTemp(r) ==
  /\ pc[r] = "replacing"
  /\ temp[Source(r)].there
  /\ object' = [object EXCEPT ![Source(r)] = temp[Source(r)]]
  /\ temp' = [temp EXCEPT ![Source(r)] = NoFile]
  /\ Continue(r, "verifying")
  /\ UNCHANGED collided

\* The object is read back before a receipt may claim it.
VerifyObject(r) ==
  /\ pc[r] = "verifying"
  /\ object[Source(r)].whole
  /\ Continue(r, "receipting")
  /\ UNCHANGED <<store, collided>>

SaveIngestion(r) ==
  /\ pc[r] = "receipting"
  /\ ingested' = ingested \cup {Reading(r)}
  /\ Goto(r, "curating")
  /\ UNCHANGED <<registry, store, output, curated, audits, refusals, work,
                 collided, faults>>

\* curate_ons_pay: the object still matches its receipt; the outputs are staged
\* and those already published are the same.
Curate(r) ==
  /\ pc[r] = "curating"
  /\ object[Source(r)].whole
  /\ todo' = [todo EXCEPT ![r] = Outputs]
  /\ Goto(r, "publishing")
  /\ UNCHANGED <<registry, store, output, receipts, batch, planned, read,
                 completed, collided, faults>>

\* Mutant: the receipt follows the first output.
PublishFirst(r, o) ==
  /\ pc[r] = "publishing"
  /\ o \in todo[r]
  /\ output' = output \cup {<<Pin(r), o>>}
  /\ todo' = [todo EXCEPT ![r] = @ \ {o}]
  /\ Goto(r, "recording")
  /\ UNCHANGED <<registry, store, receipts, batch, planned, read, completed,
                 collided, faults>>

\* One staged output is moved to its place, or found there.
PublishOutput(r, o) ==
  /\ pc[r] = "publishing"
  /\ o \in todo[r]
  /\ output' = output \cup {<<Pin(r), o>>}
  /\ todo' = [todo EXCEPT ![r] = @ \ {o}]
  /\ Goto(r, IF todo[r] = {o} THEN "recording" ELSE "publishing")
  /\ UNCHANGED <<registry, store, receipts, batch, planned, read, completed,
                 collided, faults>>

\* The run is over.
End(r) ==
  /\ batch' = [batch EXCEPT ![r] = <<>>]
  /\ planned' = [planned EXCEPT ![r] = <<>>]
  /\ read' = [read EXCEPT ![r] = <<>>]
  /\ completed' = [completed EXCEPT ![r] = <<>>]
  /\ todo' = [todo EXCEPT ![r] = {}]
  /\ Goto(r, "ended")

\* The vintage counts as completed under the pin the preflight found.
Done(r) == Append(completed[r], <<Head(planned[r]), Reading(r)>>)

\* Mutant: the plan does not advance with the files.
NextFileSamePlan(r) ==
  /\ batch' = [batch EXCEPT ![r] = Tail(@)]
  /\ UNCHANGED planned

NextFile(r) ==
  /\ batch' = [batch EXCEPT ![r] = Tail(@)]
  /\ planned' = [planned EXCEPT ![r] = Tail(@)]

\* The curation receipt is saved, and the run turns to the next file.
SaveCuration(r) ==
  /\ pc[r] = "recording"
  /\ curated' = curated \cup {Reading(r)}
  /\ completed' = [completed EXCEPT ![r] = Done(r)]
  /\ read' = [read EXCEPT ![r] = <<>>]
  /\ NextFile(r)
  /\ Goto(r, IF Len(batch[r]) = 1 THEN "auditing" ELSE "reading")
  /\ UNCHANGED <<registry, store, output, ingested, audits, refusals, todo,
                 collided, faults>>

\* After the last file the audit of a success is written.
WriteAudit(r) ==
  /\ pc[r] = "auditing"
  /\ audits' = audits \cup
       {[completed |-> completed[r], phase |-> "done", receipt |-> <<>>]}
  /\ End(r)
  /\ UNCHANGED <<registry, store, output, ingested, curated, refusals, collided,
                 faults>>

-----------------------------------------------------------------------------
\* A step raises: because the object is not whole or the temporary file has
\* gone, or for an outside reason.  The batch ends in a failed audit.
Refused(r) ==
  \/ /\ pc[r] \in {"verifying", "curating"}
     /\ ~object[Source(r)].whole
  \/ /\ pc[r] = "checking"
     /\ object[Source(r)].there /\ ~object[Source(r)].whole
  \/ /\ pc[r] = "replacing"
     /\ ~temp[Source(r)].there

\* A run that stops closes its file; what it left there stays.
Close(r) ==
  /\ object' = [s \in Sources |-> [object[s] EXCEPT !.writers = @ \ {r}]]
  /\ temp' = [s \in Sources |-> [temp[s] EXCEPT !.writers = @ \ {r}]]

\* Mutant: a failed ingestion names a receipt.
FailureReceiptKept(r) ==
  [completed |-> completed[r],
   phase |-> IF pc[r] \in Curating THEN "curation" ELSE "ingestion",
   receipt |-> read[r]]

\* The audit of a failure: what was completed, and the ingestion receipt if the
\* ingestion of the current file succeeded.
Failure(r) ==
  [completed |-> completed[r],
   phase |-> IF pc[r] \in Curating THEN "curation" ELSE "ingestion",
   receipt |-> IF pc[r] \in Curating THEN read[r] ELSE <<>>]

Fail(r) ==
  /\ pc[r] \notin Stopped \cup {"auditing"}
  /\ \/ Refused(r) /\ refusals' = refusals + 1 /\ UNCHANGED faults
     \/ Fault /\ UNCHANGED refusals
  /\ audits' = audits \cup {Failure(r)}
  /\ Close(r)
  /\ End(r)
  /\ UNCHANGED <<registry, output, ingested, curated, collided>>

\* The process is killed, or its audit cannot be written.
Kill(r) ==
  /\ pc[r] \notin Stopped
  /\ Fault
  /\ Close(r)
  /\ End(r)
  /\ UNCHANGED <<registry, output, receipts, collided>>

\* A handoff file is generated again.
Rewrite(f, h) ==
  /\ rewrites < MaxRewrites
  /\ handoff[f] # h
  /\ handoff' = [handoff EXCEPT ![f] = h]
  /\ moved' = (moved \/ handoff[f].pin # h.pin)
  /\ rewrites' = rewrites + 1
  /\ UNCHANGED <<store, output, receipts, pc, work, collided, faults>>

-----------------------------------------------------------------------------
Step(r) ==
  \/ ReadHandoff(r) \/ ReuseObject(r) \/ PutObject(r) \/ OpenTemp(r)
  \/ WriteTemp(r) \/ ReplaceTemp(r) \/ VerifyObject(r) \/ SaveIngestion(r)
  \/ Curate(r) \/ (\E o \in Outputs : PublishOutput(r, o)) \/ SaveCuration(r)
  \/ WriteAudit(r) \/ Fail(r)

Next ==
  \/ \E r \in Runs : Step(r) \/ Kill(r)
  \/ \E r \in Runs, b \in Batches : Start(r, b) \/ Refuse(r, b)
  \/ \E f \in Files, h \in Handoff : Rewrite(f, h)

Spec == Init /\ [][Next]_vars

-----------------------------------------------------------------------------
\* Every variable has its type; a run that works has a file and a plan for it.
TypeOK ==
  /\ handoff \in [Files -> Handoff]
  /\ object \in [Sources -> File]
  /\ temp \in [Sources -> File]
  /\ output \subseteq Pins \X Outputs
  /\ ingested \subseteq Handoff
  /\ curated \subseteq Handoff
  /\ audits \subseteq Audit
  /\ pc \in [Runs -> Stage]
  /\ batch \in [Runs -> Seq(Files)]
  /\ planned \in [Runs -> Seq(Pins)]
  /\ read \in [Runs -> Seq(Handoff)]
  /\ completed \in [Runs -> Seq(Pins \X Handoff)]
  /\ todo \in [Runs -> SUBSET Outputs]
  /\ \A r \in Runs : Len(planned[r]) = Len(batch[r])
  /\ \A r \in Runs : pc[r] \in Ingesting \cup Curating => batch[r] # <<>>
  /\ \A r \in Runs :
       Len(read[r]) = IF pc[r] \in (Ingesting \cup Curating) \ {"reading"} THEN 1 ELSE 0
  /\ collided \in BOOLEAN
  /\ moved \in BOOLEAN
  /\ refusals \in Nat
  /\ faults \in Nat
  /\ rewrites \in Nat

\* An ingestion receipt goes on telling the truth when other runs, live or
\* dead, put the same source: its object is there and whole.  Two runs that use
\* the temporary file at the same time are the one exception.
ReceiptMeansStored ==
  ~collided => \A h \in ingested : /\ object[SourceOf[h.pin]].there
                                   /\ object[SourceOf[h.pin]].whole

\* list_vintages: the receipts that name a vintage agree, and its outputs match.
CatalogReadable ==
  /\ \A g, h \in curated : g.pin = h.pin => g = h
  /\ \A h \in curated, o \in Outputs : <<h.pin, o>> \in output

\* The catalog, which one bad receipt makes unreadable as a whole, stays
\* readable through crashes, failures and concurrent runs as long as no vintage
\* has been ingested from two texts.
CatalogNeedsOneText ==
  (\A g, h \in ingested : g.pin = h.pin => g = h) => CatalogReadable

\* An audit is right about what its run left behind, whatever the handoff files
\* say by then: what it lists as completed was ingested and curated with all its
\* outputs, a failure in curation names an ingestion that succeeded, and the
\* vintage listed is the one processed unless a file was made to pin another.
AuditIsTrue ==
  \A a \in audits :
    /\ \A i \in DOMAIN a.completed :
         /\ a.completed[i][2] \in ingested \cap curated
         /\ \A o \in Outputs : <<a.completed[i][2].pin, o>> \in output
         /\ moved \/ a.completed[i][1] = a.completed[i][2].pin
    /\ \A i \in DOMAIN a.receipt : a.receipt[i] \in ingested

\* A rerun is never refused for what an interrupted or failed run left behind:
\* without a collision, a batch that passed its preflight fails only for an
\* outside reason of its own.
RerunsResume == ~collided => refusals = 0

\* LocalBlobStore.put_bytes, "Persist bytes atomically under *key*": what is
\* under a key is whole, whoever else writes it.
PutIsAtomic == \A s \in Sources : object[s].there => object[s].whole
=============================================================================
