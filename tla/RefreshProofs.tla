--------------------------- MODULE RefreshProofs ---------------------------
(***************************************************************************)
(* Proofs about Refresh, for any runs, vintages, texts, files, batches,    *)
(* outputs and bounds.                                                     *)
(***************************************************************************)
EXTENDS Refresh, SequenceTheorems, TLAPS

\* The stages in which a run holds the handoff it has read.
Holding == (Ingesting \cup Curating) \ {"reading"}

\* What the type invariant says of the files of the store.
StoreTyped == object \in [Sources -> File] /\ temp \in [Sources -> File]

\* What it says of the receipts and of what else is shared.
SharedTyped ==
  /\ handoff \in [Files -> Handoff]
  /\ output \subseteq Pins \X Outputs
  /\ ingested \subseteq Handoff
  /\ curated \subseteq Handoff
  /\ collided \in BOOLEAN
  /\ moved \in BOOLEAN
  /\ refusals \in Nat
  /\ faults \in Nat
  /\ rewrites \in Nat

AuditsTyped == audits \subseteq Audit

\* What it says of the runs: the functions, and what each run holds.
RunsTyped ==
  /\ pc \in [Runs -> Stage]
  /\ batch \in [Runs -> Seq(Files)]
  /\ planned \in [Runs -> Seq(Pins)]
  /\ read \in [Runs -> Seq(Handoff)]
  /\ completed \in [Runs -> Seq(Pins \X Handoff)]
  /\ todo \in [Runs -> SUBSET Outputs]

RunTyped(r) ==
  /\ Len(planned[r]) = Len(batch[r])
  /\ pc[r] \in Ingesting \cup Curating => batch[r] # <<>>
  /\ Len(read[r]) = IF pc[r] \in Holding THEN 1 ELSE 0

\* The type invariant is made of these parts, now and after a step.
LEMMA TypeParts ==
  TypeOK <=> /\ StoreTyped /\ SharedTyped /\ AuditsTyped /\ RunsTyped
             /\ \A r \in Runs : RunTyped(r)
  BY DEF TypeOK, StoreTyped, SharedTyped, AuditsTyped, RunsTyped, RunTyped, Holding

LEMMA TypePartsNext ==
  TypeOK' <=> /\ StoreTyped' /\ SharedTyped' /\ AuditsTyped' /\ RunsTyped'
              /\ \A r \in Runs : RunTyped(r)'
  BY DEF TypeOK, StoreTyped, SharedTyped, AuditsTyped, RunsTyped, RunTyped, Holding

-----------------------------------------------------------------------------
\* A run that holds a handoff works on a vintage with a source.
LEMMA Held ==
  ASSUME RunsTyped, NEW r \in Runs, RunTyped(r), pc[r] \in Holding
  PROVE  /\ read[r] = <<Reading(r)>> /\ DOMAIN read[r] = {1}
         /\ Reading(r) \in Handoff /\ Pin(r) \in Pins /\ Source(r) \in Sources
<1>1. read[r] \in Seq(Handoff) /\ Len(read[r]) = 1
  BY DEF RunsTyped, RunTyped
<1>2. read[r] = <<read[r][1]>> /\ read[r][1] \in Handoff /\ DOMAIN read[r] = {1}
  BY <1>1
<1>3. \A h \in Handoff : h.pin \in Pins
  BY DEF Handoff
<1>. QED
  BY <1>2, <1>3 DEF Reading, Pin, Source, Sources

\* The preflight plans one vintage for each file.
LEMMA Planned ==
  ASSUME SharedTyped, NEW b \in Seq(Files)
  PROVE  /\ PinsOf(b) \in Seq(Pins) /\ Len(PinsOf(b)) = Len(b)
         /\ \A i \in 1 .. Len(b) : PinsOf(b)[i] = handoff[b[i]].pin
<1>1. DOMAIN b = 1 .. Len(b) /\ Len(b) \in Nat
  OBVIOUS
<1>2. \A i \in 1 .. Len(b) : handoff[b[i]].pin \in Pins
  <2>1. \A i \in 1 .. Len(b) : b[i] \in Files
    OBVIOUS
  <2>. QED
    BY <2>1 DEF SharedTyped, Handoff
<1>3. PinsOf(b) \in [1 .. Len(b) -> Pins]
  BY <1>1, <1>2 DEF PinsOf
<1>4. PinsOf(b) \in Seq(Pins) /\ Len(PinsOf(b)) = Len(b)
  BY <1>1, <1>3
<1>. QED
  BY <1>1, <1>4 DEF PinsOf

\* A step of one run that leaves the others their work.
LEMMA OthersTyped ==
  ASSUME NEW r \in Runs, \A q \in Runs : RunTyped(q), RunTyped(r)',
         \A q \in Runs : q # r =>
           /\ pc'[q] = pc[q] /\ batch'[q] = batch[q]
           /\ planned'[q] = planned[q] /\ read'[q] = read[q]
  PROVE  \A q \in Runs : RunTyped(q)'
  BY DEF RunTyped, Holding

\* Going on from one stage to the next with the same handoff.
LEMMA GoneOn ==
  ASSUME RunsTyped, \A q \in Runs : RunTyped(q), NEW r \in Runs,
         pc[r] \in Holding, NEW stage \in Holding, Goto(r, stage),
         batch' = batch, planned' = planned, read' = read,
         completed' = completed, todo' \in [Runs -> SUBSET Outputs]
  PROVE  RunsTyped' /\ \A q \in Runs : RunTyped(q)'
<1>1. /\ pc' \in [Runs -> Stage] /\ pc'[r] = stage
      /\ \A q \in Runs : q # r => pc'[q] = pc[q]
  BY DEF RunsTyped, Goto, Holding, Stage
<1>2. RunTyped(r)'
  BY <1>1 DEF RunTyped, Holding
<1>. QED
  BY <1>1, <1>2, OthersTyped DEF RunsTyped

\* The end of a run.
LEMMA Ended ==
  ASSUME RunsTyped, \A q \in Runs : RunTyped(q), NEW r \in Runs, End(r)
  PROVE  RunsTyped' /\ \A q \in Runs : RunTyped(q)'
<1>1. /\ <<>> \in Seq(Files) /\ <<>> \in Seq(Pins) /\ <<>> \in Seq(Handoff)
      /\ <<>> \in Seq(Pins \X Handoff)
  OBVIOUS
<1>2. "ended" \in Stage /\ "ended" \notin Ingesting \cup Curating
  BY DEF Stage, Stopped, Ingesting, Curating
<1>3. RunsTyped'
  BY <1>1, <1>2 DEF RunsTyped, End, Goto
<1>4. RunTyped(r)'
  BY <1>2 DEF RunTyped, Holding, End, Goto, RunsTyped
<1>5. \A q \in Runs : q # r =>
        /\ pc'[q] = pc[q] /\ batch'[q] = batch[q]
        /\ planned'[q] = planned[q] /\ read'[q] = read[q]
  BY DEF End, Goto, RunsTyped
<1>. QED
  BY <1>3, <1>4, <1>5, OthersTyped

\* A file stays one, whatever a run does to it.
LEMMA FileStays ==
  ASSUME NEW f \in File, NEW r \in Runs
  PROVE  /\ NoFile \in File
         /\ [there |-> TRUE, whole |-> FALSE, last |-> r,
             writers |-> f.writers \cup {r}] \in File
         /\ \A wrote \in BOOLEAN : Filled(f, r, wrote) \in File
         /\ [f EXCEPT !.writers = @ \ {r}] \in File
  BY DEF File, NoFile, Filled

\* What a step of the store leaves under the names is files.
LEMMA StoreStep ==
  ASSUME StoreTyped, RunsTyped, NEW r \in Runs, RunTyped(r),
         \/ OpenTemp(r) \/ WriteTemp(r) \/ ReplaceTemp(r)
  PROVE  StoreTyped'
<1>1. Source(r) \in Sources
  <2>1. pc[r] \in Holding
    BY DEF OpenTemp, WriteTemp, ReplaceTemp, Holding, Ingesting
  <2>. QED
    BY <2>1, Held
<1>2. object[Source(r)] \in File /\ temp[Source(r)] \in File
  BY <1>1 DEF StoreTyped
<1>3. CASE OpenTemp(r)
  <2> DEFINE f == [there |-> TRUE, whole |-> FALSE, last |-> r,
                  writers |-> temp[Source(r)].writers \cup {r}]
  <2>1. f \in File
    BY <1>2, FileStays
  <2>2. temp' = [temp EXCEPT ![Source(r)] = f] /\ object' = object
    BY <1>3 DEF OpenTemp
  <2> HIDE DEF f
  <2>. QED
    BY <2>1, <2>2 DEF StoreTyped
<1>4. CASE WriteTemp(r)
  <2>1. PICK wrote \in BOOLEAN :
          /\ temp' = [temp EXCEPT ![Source(r)] = Filled(temp[Source(r)], r, wrote)]
          /\ object' = [object EXCEPT ![Source(r)] = Filled(object[Source(r)], r, wrote)]
    BY <1>4 DEF WriteTemp
  <2>2. /\ Filled(temp[Source(r)], r, wrote) \in File
        /\ Filled(object[Source(r)], r, wrote) \in File
    BY <1>2, FileStays
  <2>. QED
    BY <2>1, <2>2 DEF StoreTyped
<1>5. CASE ReplaceTemp(r)
  BY <1>2, <1>5, FileStays DEF ReplaceTemp, StoreTyped
<1>. QED
  BY <1>3, <1>4, <1>5

LEMMA CloseKeepsType ==
  ASSUME StoreTyped, NEW r \in Runs, Close(r)
  PROVE  StoreTyped'
<1>1. \A t \in Sources :
        /\ [object[t] EXCEPT !.writers = @ \ {r}] \in File
        /\ [temp[t] EXCEPT !.writers = @ \ {r}] \in File
  BY FileStays DEF StoreTyped
<1>. QED
  BY <1>1 DEF Close, StoreTyped

\* What an audit says of the run.
LEMMA Audited ==
  ASSUME RunsTyped, NEW r \in Runs
  PROVE  /\ [completed |-> completed[r], phase |-> "done", receipt |-> <<>>] \in Audit
         /\ [completed |-> <<>>, phase |-> "preflight", receipt |-> <<>>] \in Audit
         /\ Failure(r) \in Audit
<1>1. <<>> \in Seq(Handoff) /\ <<>> \in Seq(Pins \X Handoff)
  OBVIOUS
<1>. QED
  BY <1>1 DEF RunsTyped, Audit, Failure

LEMMA TypeInit == Init => TypeOK
<1> SUFFICES ASSUME Init
             PROVE  /\ StoreTyped /\ SharedTyped /\ AuditsTyped /\ RunsTyped
                    /\ \A r \in Runs : RunTyped(r)
  BY TypeParts
<1>1. StoreTyped
  BY DEF Init, StoreTyped, File, NoFile
<1>2. SharedTyped /\ AuditsTyped
  BY DEF Init, SharedTyped, AuditsTyped
<1>3. /\ <<>> \in Seq(Files) /\ <<>> \in Seq(Pins) /\ <<>> \in Seq(Handoff)
      /\ <<>> \in Seq(Pins \X Handoff)
      /\ "idle" \in Stage /\ "idle" \notin Ingesting \cup Curating
  BY DEF Stage, Stopped, Ingesting, Curating
<1>4. RunsTyped
  BY <1>3 DEF Init, RunsTyped
<1>5. \A r \in Runs : RunTyped(r)
  BY <1>3 DEF Init, RunTyped, Holding
<1>. QED
  BY <1>1, <1>2, <1>4, <1>5

LEMMA TypeStep == TypeOK /\ [Next]_vars => TypeOK'
<1> SUFFICES ASSUME TypeOK, [Next]_vars
             PROVE  /\ StoreTyped' /\ SharedTyped' /\ AuditsTyped' /\ RunsTyped'
                    /\ \A q \in Runs : RunTyped(q)'
  BY TypePartsNext
<1> USE DEF store, receipts, work, registry
<1> DEFINE Goal == /\ StoreTyped' /\ SharedTyped' /\ AuditsTyped' /\ RunsTyped'
                   /\ \A q \in Runs : RunTyped(q)'
<1>0. /\ StoreTyped /\ SharedTyped /\ AuditsTyped /\ RunsTyped
      /\ \A q \in Runs : RunTyped(q)
  BY TypeParts
<1>1. ASSUME NEW r \in Runs, ReadHandoff(r) PROVE Goal
  <2>1. /\ batch[r] \in Seq(Files) /\ batch[r] # <<>> /\ pc[r] = "reading"
    BY <1>0, <1>1 DEF ReadHandoff, RunsTyped, RunTyped, Ingesting
  <2>2. Head(batch[r]) \in Files
    BY <2>1, HeadTailProperties
  <2>3. <<handoff[Head(batch[r])]>> \in Seq(Handoff)
        /\ Len(<<handoff[Head(batch[r])]>>) = 1
    BY <1>0, <2>2 DEF SharedTyped
  <2> DEFINE h == <<handoff[Head(batch[r])]>>
  <2> HIDE DEF h
  <2>4. /\ read' = [read EXCEPT ![r] = h] /\ h \in Seq(Handoff) /\ Len(h) = 1
        /\ pc' = [pc EXCEPT ![r] = "checking"]
    BY <1>1, <2>3 DEF ReadHandoff, Goto, h
  <2>5. "checking" \in Holding /\ "checking" \in Stage
    BY DEF Holding, Stage, Ingesting
  <2>6. RunsTyped'
    BY <1>0, <1>1, <2>4, <2>5 DEF ReadHandoff, RunsTyped
  <2>7. RunTyped(r)'
    BY <1>0, <1>1, <2>1, <2>4, <2>5 DEF ReadHandoff, RunsTyped, RunTyped, Holding
  <2>8. \A q \in Runs : RunTyped(q)'
    BY <1>0, <1>1, <2>4, <2>7, OthersTyped DEF ReadHandoff, RunsTyped
  <2>. QED
    BY <1>0, <1>1, <2>6, <2>8 DEF ReadHandoff, StoreTyped, SharedTyped, AuditsTyped
<1>2. ASSUME NEW r \in Runs,
             \/ ReuseObject(r) \/ PutObject(r) \/ VerifyObject(r)
             \/ SaveIngestion(r) \/ Curate(r)
             \/ \E o \in Outputs : PublishOutput(r, o)
             \/ OpenTemp(r) \/ WriteTemp(r) \/ ReplaceTemp(r)
      PROVE  Goal
  <2>1. pc[r] \in Holding
    BY <1>2 DEF ReuseObject, PutObject, VerifyObject, SaveIngestion, Curate,
                PublishOutput, OpenTemp, WriteTemp, ReplaceTemp, Holding,
                Ingesting, Curating
  <2>2. Reading(r) \in Handoff /\ Pin(r) \in Pins /\ Source(r) \in Sources
    BY <1>0, <2>1, Held
  <2>3. \E stage \in Holding : Goto(r, stage)
    BY <1>2 DEF ReuseObject, PutObject, VerifyObject, SaveIngestion, Curate,
                PublishOutput, OpenTemp, WriteTemp, ReplaceTemp, Continue,
                Holding, Ingesting, Curating
  <2>4. /\ batch' = batch /\ planned' = planned /\ read' = read
        /\ completed' = completed
    BY <1>2 DEF ReuseObject, PutObject, VerifyObject, SaveIngestion, Curate,
                PublishOutput, OpenTemp, WriteTemp, ReplaceTemp, Continue
  <2>5. todo' \in [Runs -> SUBSET Outputs]
    BY <1>0, <1>2
    DEF ReuseObject, PutObject, VerifyObject, SaveIngestion, Curate,
        PublishOutput, OpenTemp, WriteTemp, ReplaceTemp, Continue, RunsTyped
  <2>6. RunsTyped' /\ \A q \in Runs : RunTyped(q)'
    BY <1>0, <2>1, <2>3, <2>4, <2>5, GoneOn
  <2>7. SharedTyped' /\ AuditsTyped'
    <3>1. CASE SaveIngestion(r)
      BY <1>0, <2>2, <3>1 DEF SaveIngestion, SharedTyped, AuditsTyped
    <3>2. CASE Curate(r) \/ \E o \in Outputs : PublishOutput(r, o)
      BY <1>0, <2>2, <3>2 DEF Curate, PublishOutput, SharedTyped, AuditsTyped
    <3>3. CASE \/ ReuseObject(r) \/ PutObject(r) \/ VerifyObject(r)
               \/ OpenTemp(r) \/ WriteTemp(r) \/ ReplaceTemp(r)
      BY <1>0, <3>3
      DEF ReuseObject, PutObject, VerifyObject, OpenTemp, WriteTemp,
          ReplaceTemp, Continue, SharedTyped, AuditsTyped
    <3>. QED
      BY <1>2, <3>1, <3>2, <3>3
  <2>8. StoreTyped'
    <3>1. CASE OpenTemp(r) \/ WriteTemp(r) \/ ReplaceTemp(r)
      BY <1>0, <3>1, StoreStep
    <3>2. CASE \/ ReuseObject(r) \/ PutObject(r) \/ VerifyObject(r)
               \/ SaveIngestion(r) \/ Curate(r)
               \/ \E o \in Outputs : PublishOutput(r, o)
      BY <1>0, <3>2
      DEF ReuseObject, PutObject, VerifyObject, SaveIngestion, Curate,
          PublishOutput, StoreTyped
    <3>. QED
      BY <1>2, <3>1, <3>2
  <2>. QED
    BY <2>6, <2>7, <2>8
<1>3. ASSUME NEW r \in Runs, SaveCuration(r) PROVE Goal
  <2>1. /\ pc[r] = "recording" /\ pc[r] \in Holding
        /\ batch[r] \in Seq(Files) /\ batch[r] # <<>>
        /\ planned[r] \in Seq(Pins) /\ Len(planned[r]) = Len(batch[r])
        /\ completed[r] \in Seq(Pins \X Handoff)
    BY <1>0, <1>3
    DEF SaveCuration, RunsTyped, RunTyped, Holding, Ingesting, Curating
  <2>2. planned[r] # <<>> /\ Reading(r) \in Handoff
    BY <1>0, <2>1, Held
  <2>3. /\ Tail(batch[r]) \in Seq(Files) /\ Tail(planned[r]) \in Seq(Pins)
        /\ Len(Tail(batch[r])) = Len(batch[r]) - 1
        /\ Len(Tail(planned[r])) = Len(Tail(batch[r]))
        /\ Head(planned[r]) \in Pins
    BY <2>1, <2>2, HeadTailProperties
  <2>4. Done(r) \in Seq(Pins \X Handoff)
    BY <2>1, <2>2, <2>3, AppendProperties DEF Done
  <2> DEFINE b == Tail(batch[r])
             p == Tail(planned[r])
             d == Done(r)
             stage == IF Len(batch[r]) = 1 THEN "auditing" ELSE "reading"
  <2>5. /\ batch' = [batch EXCEPT ![r] = b] /\ planned' = [planned EXCEPT ![r] = p]
        /\ completed' = [completed EXCEPT ![r] = d]
        /\ read' = [read EXCEPT ![r] = <<>>] /\ todo' = todo
        /\ pc' = [pc EXCEPT ![r] = stage]
        /\ curated' = curated \cup {Reading(r)}
    BY <1>3 DEF SaveCuration, NextFile, Goto
  <2>6. /\ stage \in Stage /\ stage \notin Holding
        /\ stage \in Ingesting \cup Curating => b # <<>>
    <3>1. Len(batch[r]) # 1 => b # <<>>
      <4>1. Len(batch[r]) \in Nat /\ Len(b) = Len(batch[r]) - 1
        BY <2>1, <2>3, LenProperties
      <4> HIDE DEF b
      <4>2. b = <<>> => Len(b) = 0
        OBVIOUS
      <4>. QED
        BY <4>1, <4>2
    <3>2. /\ {"auditing", "reading"} \subseteq Stage \ Holding
          /\ "auditing" \notin Ingesting \cup Curating
      BY DEF Stage, Holding, Ingesting, Curating, Stopped
    <3> HIDE DEF b
    <3>. QED
      BY <3>1, <3>2
  <2>7. b \in Seq(Files) /\ p \in Seq(Pins) /\ Len(p) = Len(b)
        /\ d \in Seq(Pins \X Handoff)
    BY <2>3, <2>4
  <2> HIDE DEF b, p, d, stage
  <2>8. <<>> \in Seq(Handoff)
    OBVIOUS
  <2>9. RunsTyped'
    BY <1>0, <2>5, <2>6, <2>7, <2>8 DEF RunsTyped
  <2>10. RunTyped(r)'
    BY <1>0, <2>5, <2>6, <2>7 DEF RunsTyped, RunTyped, Holding
  <2>11. \A q \in Runs : RunTyped(q)'
    BY <1>0, <2>5, <2>10, OthersTyped DEF RunsTyped
  <2>12. StoreTyped' /\ SharedTyped' /\ AuditsTyped'
    BY <1>0, <1>3, <2>2, <2>5 DEF SaveCuration, StoreTyped, SharedTyped, AuditsTyped
  <2>. QED
    BY <2>9, <2>11, <2>12
<1>4. ASSUME NEW r \in Runs, WriteAudit(r) \/ Fail(r) \/ Kill(r) PROVE Goal
  <2>1. RunsTyped' /\ \A q \in Runs : RunTyped(q)'
    BY <1>0, <1>4, Ended DEF WriteAudit, Fail, Kill
  <2>2. AuditsTyped'
    <3>1. CASE WriteAudit(r)
      BY <1>0, <3>1, Audited DEF WriteAudit, AuditsTyped
    <3>2. CASE Fail(r)
      BY <1>0, <3>2, Audited DEF Fail, AuditsTyped
    <3>3. CASE Kill(r)
      BY <1>0, <3>3 DEF Kill, AuditsTyped
    <3>. QED
      BY <1>4, <3>1, <3>2, <3>3
  <2>3. StoreTyped'
    BY <1>0, <1>4, CloseKeepsType DEF WriteAudit, Fail, Kill, StoreTyped
  <2>4. SharedTyped'
    BY <1>0, <1>4 DEF WriteAudit, Fail, Kill, Fault, SharedTyped
  <2>. QED
    BY <2>1, <2>2, <2>3, <2>4
<1>5. ASSUME NEW r \in Runs, NEW b \in Batches, Start(r, b) PROVE Goal
  <2>1. b \in Seq(Files) /\ b # <<>>
    BY BatchesAssumption
  <2> DEFINE p == PinsOf(b)
  <2>2. p \in Seq(Pins) /\ Len(p) = Len(b)
    BY <1>0, <2>1, Planned
  <2>3. /\ batch' = [batch EXCEPT ![r] = b] /\ planned' = [planned EXCEPT ![r] = p]
        /\ pc' = [pc EXCEPT ![r] = "reading"]
        /\ read' = read /\ completed' = completed /\ todo' = todo /\ pc[r] = "idle"
    BY <1>5 DEF Start, Goto
  <2> HIDE DEF p
  <2>4. /\ "reading" \in Stage /\ "reading" \notin Holding
        /\ "idle" \notin Holding
    BY DEF Stage, Holding, Ingesting, Curating
  <2>5. RunsTyped'
    BY <1>0, <2>1, <2>2, <2>3, <2>4 DEF RunsTyped
  <2>6. RunTyped(r)'
    BY <1>0, <2>1, <2>2, <2>3, <2>4 DEF RunsTyped, RunTyped, Holding
  <2>7. \A q \in Runs : RunTyped(q)'
    BY <1>0, <2>3, <2>6, OthersTyped DEF RunsTyped
  <2>. QED
    BY <1>0, <1>5, <2>5, <2>7 DEF Start, StoreTyped, SharedTyped, AuditsTyped
<1>6. ASSUME NEW r \in Runs, NEW b \in Batches, Refuse(r, b) PROVE Goal
  <2>1. /\ pc' = [pc EXCEPT ![r] = "ended"] /\ pc[r] = "idle"
        /\ batch' = batch /\ planned' = planned /\ read' = read
        /\ completed' = completed /\ todo' = todo
    BY <1>6 DEF Refuse, Goto
  <2>2. /\ "ended" \in Stage /\ "ended" \notin Ingesting \cup Curating
        /\ "idle" \notin Ingesting \cup Curating
    BY DEF Stage, Stopped, Ingesting, Curating
  <2>3. RunsTyped'
    BY <1>0, <2>1, <2>2 DEF RunsTyped
  <2>4. RunTyped(r)'
    BY <1>0, <2>1, <2>2 DEF RunsTyped, RunTyped, Holding
  <2>5. \A q \in Runs : RunTyped(q)'
    BY <1>0, <2>1, <2>4, OthersTyped DEF RunsTyped
  <2>6. AuditsTyped'
    BY <1>0, <1>6, Audited DEF Refuse, AuditsTyped
  <2>. QED
    BY <1>0, <1>6, <2>3, <2>5, <2>6 DEF Refuse, StoreTyped, SharedTyped
<1>7. ASSUME NEW f \in Files, NEW h \in Handoff, Rewrite(f, h) PROVE Goal
  <2>1. SharedTyped'
    BY <1>0, <1>7 DEF Rewrite, SharedTyped
  <2>. QED
    BY <1>0, <1>7, <2>1
    DEF Rewrite, StoreTyped, AuditsTyped, RunsTyped, RunTyped, Holding
<1>8. CASE UNCHANGED vars
  BY <1>0, <1>8
  DEF vars, StoreTyped, SharedTyped, AuditsTyped, RunsTyped, RunTyped, Holding
<1>. QED
  BY <1>1, <1>2, <1>3, <1>4, <1>5, <1>6, <1>7, <1>8 DEF Next, Step

\* Every variable keeps its type; a run that works has a file and a plan for it.
THEOREM TypeCorrect == Spec => []TypeOK
  BY TypeInit, TypeStep, PTL DEF Spec

-----------------------------------------------------------------------------
\* All outputs of the vintage are published.
Complete(pin) == \A o \in Outputs : <<pin, o>> \in output

\* What a curation receipt stands for.
CuratedTrue == \A h \in curated : h \in ingested /\ Complete(h.pin)

\* What an entry of a run's list of completed vintages stands for.
Vouched(c) ==
  /\ c[2] \in ingested \cap curated
  /\ Complete(c[2].pin)
  /\ moved \/ c[1] = c[2].pin

\* What a run relies on: its list is right, the handoff it curates has been
\* ingested and the outputs it has dealt with are there; unless a file was made
\* to pin another vintage, its plan is still what its files say.
RunTrue(r) ==
  /\ \A i \in 1 .. Len(completed[r]) : Vouched(completed[r][i])
  /\ pc[r] \in Curating => Reading(r) \in ingested
  /\ pc[r] = "publishing" => \A o \in Outputs \ todo[r] : <<Pin(r), o>> \in output
  /\ pc[r] = "recording" => Complete(Pin(r))
  /\ ~moved =>
       /\ \A i \in 1 .. Len(batch[r]) : planned[r][i] = handoff[batch[r][i]].pin
       /\ pc[r] \in Holding => planned[r][1] = Pin(r)

\* The inductive invariant behind the theorems.
IInv ==
  /\ TypeOK
  /\ CuratedTrue
  /\ \A r \in Runs : RunTrue(r)
  /\ AuditIsTrue

\* Receipts and outputs are never taken back.
LEMMA Grows ==
  ASSUME [Next]_vars
  PROVE  /\ ingested \subseteq ingested' /\ curated \subseteq curated'
         /\ output \subseteq output' /\ (moved => moved')
<1> USE DEF store, receipts, work, registry
<1>1. ASSUME NEW r \in Runs, Step(r) \/ Kill(r)
      PROVE  /\ ingested \subseteq ingested' /\ curated \subseteq curated'
             /\ output \subseteq output' /\ moved' = moved
  BY <1>1 DEF Step, ReadHandoff, ReuseObject, PutObject, OpenTemp, WriteTemp,
              ReplaceTemp, VerifyObject, SaveIngestion, Curate, PublishOutput,
              SaveCuration, WriteAudit, Fail, Kill, Continue
<1>2. ASSUME NEW r \in Runs, NEW b \in Batches, Start(r, b) \/ Refuse(r, b)
      PROVE  /\ ingested' = ingested /\ curated' = curated
             /\ output' = output /\ moved' = moved
  BY <1>2 DEF Start, Refuse
<1>3. ASSUME NEW f \in Files, NEW h \in Handoff, Rewrite(f, h)
      PROVE  /\ ingested' = ingested /\ curated' = curated
             /\ output' = output /\ (moved => moved')
  BY <1>3 DEF Rewrite
<1>4. CASE UNCHANGED vars
  BY <1>4 DEF vars
<1>. QED
  BY <1>1, <1>2, <1>3, <1>4 DEF Next

\* So what was vouched for once is so for good.
LEMMA VouchedStays ==
  ASSUME [Next]_vars
  PROVE  /\ \A c : Vouched(c) => Vouched(c)'
         /\ \A pin : Complete(pin) => Complete(pin)'
<1>1. \A pin : Complete(pin) => Complete(pin)'
  BY Grows DEF Complete
<1>. QED
  BY <1>1, Grows DEF Vouched

LEMMA AuditStays ==
  ASSUME AuditIsTrue, [Next]_vars
  PROVE  \A a \in audits :
           /\ \A i \in DOMAIN a.completed : Vouched(a.completed[i])'
           /\ \A i \in DOMAIN a.receipt : a.receipt[i] \in ingested'
<1>1. \A a \in audits : \A i \in DOMAIN a.completed : Vouched(a.completed[i])
  BY DEF AuditIsTrue, Vouched, Complete
<1>2. \A a \in audits : \A i \in DOMAIN a.receipt : a.receipt[i] \in ingested'
  BY Grows DEF AuditIsTrue
<1>. QED
  BY <1>1, <1>2, VouchedStays

\* A step of one run leaves the others what they rely on.
LEMMA OthersTrue ==
  ASSUME \A q \in Runs : RunTrue(q), [Next]_vars, NEW r \in Runs, RunTrue(r)',
         handoff' = handoff,
         \A q \in Runs : q # r =>
           /\ pc'[q] = pc[q] /\ batch'[q] = batch[q] /\ planned'[q] = planned[q]
           /\ read'[q] = read[q] /\ completed'[q] = completed[q]
           /\ todo'[q] = todo[q]
  PROVE  \A q \in Runs : RunTrue(q)'
<1> SUFFICES ASSUME NEW q \in Runs, q # r PROVE RunTrue(q)'
  OBVIOUS
<1>1. RunTrue(q)
  OBVIOUS
<1>2. (\A i \in 1 .. Len(completed[q]) : Vouched(completed[q][i]))'
  <2>1. \A i \in 1 .. Len(completed[q]) : Vouched(completed[q][i])'
    BY <1>1, VouchedStays DEF RunTrue
  <2>2. completed'[q] = completed[q]
    OBVIOUS
  <2>. QED
    BY <2>1, <2>2 DEF Vouched, Complete
<1>3. Reading(q)' = Reading(q) /\ Pin(q)' = Pin(q)
  BY DEF Reading, Pin
<1>4. (pc[q] = "recording" => Complete(Pin(q)))'
  BY <1>1, <1>3, Grows DEF RunTrue, Complete
<1>5. (pc[q] = "publishing" => \A o \in Outputs \ todo[q] : <<Pin(q), o>> \in output)'
  BY <1>1, <1>3, Grows DEF RunTrue
<1>6. (pc[q] \in Curating => Reading(q) \in ingested)'
  BY <1>1, <1>3, Grows DEF RunTrue
<1>7. ( ~moved =>
        /\ \A i \in 1 .. Len(batch[q]) : planned[q][i] = handoff[batch[q][i]].pin
        /\ pc[q] \in Holding => planned[q][1] = Pin(q))'
  BY <1>1, <1>3, Grows DEF RunTrue
<1>. QED
  BY <1>2, <1>4, <1>5, <1>6, <1>7 DEF RunTrue

\* An action of a run touches nobody else's work and no handoff file.
LEMMA OneRun ==
  ASSUME TypeOK, NEW r \in Runs,
         Step(r) \/ Kill(r) \/ \E b \in Batches : Start(r, b) \/ Refuse(r, b)
  PROVE  /\ handoff' = handoff /\ moved' = moved
         /\ \A q \in Runs : q # r =>
              /\ pc'[q] = pc[q] /\ batch'[q] = batch[q] /\ planned'[q] = planned[q]
              /\ read'[q] = read[q] /\ completed'[q] = completed[q]
              /\ todo'[q] = todo[q]
<1> USE DEF store, receipts, work, registry, Goto
<1>0. RunsTyped
  BY TypeParts
<1>1. CASE \/ ReadHandoff(r) \/ ReuseObject(r) \/ PutObject(r) \/ OpenTemp(r)
           \/ WriteTemp(r) \/ ReplaceTemp(r) \/ VerifyObject(r)
  BY <1>0, <1>1
  DEF ReadHandoff, ReuseObject, PutObject, OpenTemp, WriteTemp, ReplaceTemp,
      VerifyObject, Continue, RunsTyped
<1>2. CASE \/ SaveIngestion(r) \/ Curate(r) \/ SaveCuration(r)
           \/ \E o \in Outputs : PublishOutput(r, o)
  BY <1>0, <1>2
  DEF SaveIngestion, Curate, PublishOutput, SaveCuration, NextFile, RunsTyped
<1>3. CASE WriteAudit(r) \/ Fail(r) \/ Kill(r)
  BY <1>0, <1>3 DEF WriteAudit, Fail, Kill, End, RunsTyped
<1>4. CASE \E b \in Batches : Start(r, b) \/ Refuse(r, b)
  BY <1>0, <1>4 DEF Start, Refuse, RunsTyped
<1>. QED
  BY <1>1, <1>2, <1>3, <1>4 DEF Step

\* The run that moves goes on relying on what is true.
LEMMA MovesTrue ==
  ASSUME TypeOK, [Next]_vars, NEW r \in Runs, RunTrue(r),
         Step(r) \/ Kill(r) \/ \E b \in Batches : Start(r, b) \/ Refuse(r, b)
  PROVE  RunTrue(r)'
<1> USE DEF store, receipts, work, registry
<1>0. RunsTyped /\ SharedTyped /\ RunTyped(r)
  BY TypeParts
<1> DEFINE Listed == \A i \in 1 .. Len(completed[r]) : Vouched(completed[r][i])
<1>a. /\ handoff' = handoff /\ moved' = moved
      /\ \A i \in 1 .. Len(completed[r]) : \A c : c = completed[r][i] => Vouched(c)'
  BY OneRun, VouchedStays DEF RunTrue
<1>b. completed'[r] = completed[r] => Listed'
  BY <1>a DEF Vouched, Complete
<1>1. /\ handoff' = handoff /\ moved' = moved
      /\ completed'[r] = completed[r] => Listed'
  BY <1>a, <1>b
<1> HIDE DEF Listed
<1>2. CASE ReadHandoff(r)
  <2>1. /\ pc'[r] = "checking" /\ read'[r] = <<handoff[Head(batch[r])]>>
        /\ batch' = batch /\ planned' = planned /\ completed' = completed
    BY <1>0, <1>2 DEF ReadHandoff, Goto, RunsTyped
  <2>2. Pin(r)' = handoff[Head(batch[r])].pin
    BY <2>1 DEF Pin, Reading
  <2>3. batch[r] \in Seq(Files) /\ batch[r] # <<>>
    BY <1>0, <1>2 DEF ReadHandoff, RunsTyped, RunTyped, Ingesting
  <2>4. Head(batch[r]) = batch[r][1] /\ 1 \in 1 .. Len(batch[r])
    BY <2>3
  <2>. QED
    BY <1>1, <2>1, <2>2, <2>4 DEF RunTrue, Curating, Listed
<1>3. CASE \/ ReuseObject(r) \/ PutObject(r) \/ OpenTemp(r) \/ WriteTemp(r)
           \/ ReplaceTemp(r) \/ VerifyObject(r)
  <2>1. /\ pc[r] \in Holding /\ pc'[r] \in Ingesting /\ read' = read
        /\ batch' = batch /\ planned' = planned /\ completed' = completed
    BY <1>0, <1>3
    DEF ReuseObject, PutObject, OpenTemp, WriteTemp, ReplaceTemp, VerifyObject,
        Continue, Goto, RunsTyped, Holding, Ingesting
  <2>2. Pin(r)' = Pin(r)
    BY <2>1 DEF Pin, Reading
  <2>. QED
    BY <1>1, <2>1, <2>2 DEF RunTrue, Curating, Ingesting, Listed
<1>4. CASE SaveIngestion(r)
  <2>1. /\ pc[r] \in Holding /\ pc'[r] = "curating" /\ read' = read
        /\ batch' = batch /\ planned' = planned /\ completed' = completed
        /\ ingested' = ingested \cup {Reading(r)}
    BY <1>0, <1>4 DEF SaveIngestion, Goto, RunsTyped, Holding, Ingesting
  <2>2. Pin(r)' = Pin(r) /\ Reading(r)' = Reading(r)
    BY <2>1 DEF Pin, Reading
  <2>. QED
    BY <1>1, <2>1, <2>2 DEF RunTrue, Listed
<1>5. CASE Curate(r)
  <2>1. /\ pc[r] = "curating" /\ pc[r] \in Holding /\ pc'[r] = "publishing"
        /\ read' = read /\ batch' = batch /\ planned' = planned
        /\ completed' = completed /\ todo'[r] = Outputs /\ ingested' = ingested
    BY <1>0, <1>5 DEF Curate, Goto, RunsTyped, Holding, Curating
  <2>2. Pin(r)' = Pin(r) /\ Reading(r)' = Reading(r)
    BY <2>1 DEF Pin, Reading
  <2>. QED
    BY <1>1, <2>1, <2>2 DEF RunTrue, Curating, Listed
<1>6. ASSUME NEW o \in Outputs, PublishOutput(r, o) PROVE RunTrue(r)'
  <2>1. /\ pc[r] = "publishing" /\ pc[r] \in Holding /\ pc[r] \in Curating
        /\ pc'[r] = IF todo[r] = {o} THEN "recording" ELSE "publishing"
        /\ read' = read /\ batch' = batch /\ planned' = planned
        /\ completed' = completed /\ todo'[r] = todo[r] \ {o}
        /\ ingested' = ingested /\ output' = output \cup {<<Pin(r), o>>}
    BY <1>0, <1>6 DEF PublishOutput, Goto, RunsTyped, Holding, Curating
  <2>2. Pin(r)' = Pin(r) /\ Reading(r)' = Reading(r)
    BY <2>1 DEF Pin, Reading
  <2>3. \A x \in Outputs \ (todo[r] \ {o}) : <<Pin(r), x>> \in output'
    BY <2>1 DEF RunTrue
  <2>4. (pc[r] = "recording" => Complete(Pin(r)))'
    BY <2>1, <2>2, <2>3 DEF Complete
  <2>. QED
    BY <1>1, <2>1, <2>2, <2>3, <2>4 DEF RunTrue, Curating, Listed
<1>7. CASE SaveCuration(r)
  <2>1. /\ pc[r] = "recording" /\ pc[r] \in Holding /\ pc[r] \in Curating
        /\ pc'[r] \in {"auditing", "reading"}
        /\ batch'[r] = Tail(batch[r]) /\ planned'[r] = Tail(planned[r])
        /\ completed'[r] = Append(completed[r], <<Head(planned[r]), Reading(r)>>)
        /\ ingested' = ingested /\ curated' = curated \cup {Reading(r)}
        /\ output' = output
    BY <1>0, <1>7
    DEF SaveCuration, NextFile, Done, Goto, RunsTyped, Holding, Curating
  <2>2. /\ batch[r] \in Seq(Files) /\ batch[r] # <<>>
        /\ planned[r] \in Seq(Pins) /\ Len(planned[r]) = Len(batch[r])
        /\ completed[r] \in Seq(Pins \X Handoff)
    BY <1>0, <2>1 DEF RunsTyped, RunTyped
  <2>3. Reading(r) \in Handoff
    BY <1>0, <2>1, Held
  <2>4. /\ planned[r] # <<>> /\ Head(planned[r]) = planned[r][1]
        /\ Head(planned[r]) \in Pins
        /\ Len(Tail(batch[r])) = Len(batch[r]) - 1
        /\ \A i \in 1 .. Len(Tail(batch[r])) :
             /\ i + 1 \in 1 .. Len(batch[r])
             /\ Tail(batch[r])[i] = batch[r][i + 1]
             /\ Tail(planned[r])[i] = planned[r][i + 1]
    BY <2>2, HeadTailProperties
  <2>5. ASSUME NEW c, c = <<Head(planned[r]), Reading(r)>> PROVE Vouched(c)'
    <3>1. Reading(r) \in ingested /\ Complete(Pin(r)) /\ (moved \/ planned[r][1] = Pin(r))
      BY <2>1 DEF RunTrue
    <3>2. c[1] = planned[r][1] /\ c[2] = Reading(r) /\ c[2].pin = Pin(r)
      BY <2>4, <2>5 DEF Pin
    <3>. QED
      BY <1>1, <2>1, <3>1, <3>2 DEF Vouched, Complete
  <2>6. <<Head(planned[r]), Reading(r)>> \in Pins \X Handoff
    BY <2>3, <2>4
  <2>7. ASSUME NEW i \in 1 .. Len(completed'[r]), NEW c, c = completed'[r][i]
        PROVE  Vouched(c)'
    <3>1. /\ i \in 1 .. Len(completed[r]) + 1
          /\ i \in 1 .. Len(completed[r]) => c = completed[r][i]
          /\ i = Len(completed[r]) + 1 => c = <<Head(planned[r]), Reading(r)>>
      BY <2>1, <2>2, <2>6, <2>7, AppendProperties
    <3>2. i \in 1 .. Len(completed[r]) \/ i = Len(completed[r]) + 1
      <4>1. Len(completed[r]) \in Nat
        BY <2>2, LenProperties
      <4>. QED
        BY <3>1, <4>1
    <3>. QED
      BY <1>a, <2>5, <3>1, <3>2
  <2>8. Listed'
    BY <2>7 DEF Listed, Vouched, Complete
  <2>9. (~moved =>
          /\ \A i \in 1 .. Len(batch[r]) : planned[r][i] = handoff[batch[r][i]].pin
          /\ pc[r] \in Holding => planned[r][1] = Pin(r))'
    <3>1. pc'[r] \notin Holding
      BY <2>1 DEF Holding, Ingesting, Curating
    <3>2. ASSUME ~moved', NEW i \in 1 .. Len(batch'[r])
          PROVE  planned'[r][i] = handoff'[batch'[r][i]].pin
      <4>1. i \in 1 .. Len(Tail(batch[r])) /\ ~moved
        BY <1>1, <2>1, <3>2
      <4>2. /\ batch'[r][i] = batch[r][i + 1] /\ planned'[r][i] = planned[r][i + 1]
            /\ i + 1 \in 1 .. Len(batch[r])
        BY <2>1, <2>4, <4>1
      <4>3. planned[r][i + 1] = handoff[batch[r][i + 1]].pin
        BY <4>1, <4>2 DEF RunTrue
      <4>. QED
        BY <1>1, <4>2, <4>3
    <3>. QED
      BY <3>1, <3>2
  <2>. QED
    BY <2>1, <2>8, <2>9 DEF RunTrue, Listed, Curating
<1>8. CASE WriteAudit(r) \/ Fail(r) \/ Kill(r)
  <2>1. /\ pc'[r] = "ended" /\ completed'[r] = <<>> /\ batch'[r] = <<>>
    BY <1>0, <1>8 DEF WriteAudit, Fail, Kill, End, Goto, RunsTyped
  <2>. QED
    BY <2>1 DEF RunTrue, Holding, Ingesting, Curating
<1>9. ASSUME NEW b \in Batches, Start(r, b) PROVE RunTrue(r)'
  <2>1. /\ pc'[r] = "reading" /\ completed' = completed
        /\ batch'[r] = b /\ planned'[r] = PinsOf(b)
    BY <1>0, <1>9 DEF Start, Goto, RunsTyped
  <2>2. \A i \in 1 .. Len(b) : PinsOf(b)[i] = handoff[b[i]].pin
    BY <1>0, BatchesAssumption, Planned
  <2>. QED
    BY <1>1, <2>1, <2>2 DEF RunTrue, Holding, Ingesting, Curating, Listed
<1>10. ASSUME NEW b \in Batches, Refuse(r, b) PROVE RunTrue(r)'
  <2>1. /\ pc'[r] = "ended" /\ completed' = completed
        /\ batch' = batch /\ planned' = planned
    BY <1>0, <1>10 DEF Refuse, Goto, RunsTyped
  <2>. QED
    BY <1>1, <2>1 DEF RunTrue, Holding, Ingesting, Curating, Listed
<1>. QED
  BY <1>2, <1>3, <1>4, <1>5, <1>6, <1>7, <1>8, <1>9, <1>10 DEF Step

\* Generating a handoff file again spoils only the plans, and only if the file
\* then pins another vintage.
LEMMA RewriteTrue ==
  ASSUME TypeOK, [Next]_vars, \A r \in Runs : RunTrue(r),
         \/ \E f \in Files, h \in Handoff : Rewrite(f, h)
         \/ UNCHANGED vars
  PROVE  \A r \in Runs : RunTrue(r)'
<1> SUFFICES ASSUME NEW r \in Runs PROVE RunTrue(r)'
  OBVIOUS
<1> USE DEF store, receipts, work, registry
<1>0. RunsTyped /\ SharedTyped
  BY TypeParts
<1>1. /\ pc' = pc /\ batch' = batch /\ planned' = planned /\ read' = read
      /\ completed' = completed /\ todo' = todo
      /\ ingested' = ingested /\ curated' = curated /\ output' = output
  BY DEF Rewrite, vars
<1>2. Reading(r)' = Reading(r) /\ Pin(r)' = Pin(r)
  BY <1>1 DEF Reading, Pin
<1>3. (\A i \in 1 .. Len(completed[r]) : Vouched(completed[r][i]))'
  BY <1>1, Grows DEF RunTrue, Vouched, Complete
<1>4. ~moved' => ~moved /\ \A f \in Files : handoff'[f].pin = handoff[f].pin
  <2>1. ASSUME NEW g \in Files, NEW h \in Handoff, Rewrite(g, h), ~moved'
        PROVE  ~moved /\ \A f \in Files : handoff'[f].pin = handoff[f].pin
    BY <1>0, <2>1 DEF Rewrite, SharedTyped
  <2>2. CASE UNCHANGED vars
    BY <2>2 DEF vars
  <2>. QED
    BY <2>1, <2>2
<1>5. \A i \in 1 .. Len(batch[r]) : batch[r][i] \in Files
  BY <1>0 DEF RunsTyped
<1>6. (~moved => \A i \in 1 .. Len(batch[r]) :
         planned[r][i] = handoff[batch[r][i]].pin)'
  BY <1>1, <1>4, <1>5 DEF RunTrue
<1>. QED
  BY <1>1, <1>2, <1>3, <1>4, <1>6 DEF RunTrue, Complete

LEMMA RunsStep ==
  TypeOK /\ (\A r \in Runs : RunTrue(r)) /\ [Next]_vars
    => \A r \in Runs : RunTrue(r)'
<1> SUFFICES ASSUME TypeOK, \A r \in Runs : RunTrue(r), [Next]_vars
             PROVE  \A r \in Runs : RunTrue(r)'
  OBVIOUS
<1>1. ASSUME NEW r \in Runs,
             Step(r) \/ Kill(r) \/ \E b \in Batches : Start(r, b) \/ Refuse(r, b)
      PROVE  \A q \in Runs : RunTrue(q)'
  BY <1>1, MovesTrue, OneRun, OthersTrue
<1>2. CASE \/ \E f \in Files, h \in Handoff : Rewrite(f, h)
           \/ UNCHANGED vars
  BY <1>2, RewriteTrue
<1>. QED
  BY <1>1, <1>2 DEF Next

\* A curation receipt is only saved for an ingested handoff with all its
\* outputs.
LEMMA CuratedStep ==
  TypeOK /\ (\A r \in Runs : RunTrue(r)) /\ CuratedTrue /\ [Next]_vars
    => CuratedTrue'
<1> SUFFICES ASSUME TypeOK, \A r \in Runs : RunTrue(r), CuratedTrue, [Next]_vars
             PROVE  CuratedTrue'
  OBVIOUS
<1> USE DEF store, receipts, work, registry
<1>1. ASSUME NEW r \in Runs, SaveCuration(r) PROVE CuratedTrue'
  <2>1. /\ pc[r] = "recording" /\ pc[r] \in Curating
        /\ curated' = curated \cup {Reading(r)}
        /\ ingested' = ingested /\ output' = output
    BY <1>1 DEF SaveCuration, Curating
  <2>2. Reading(r) \in ingested /\ Complete(Reading(r).pin)
    BY <2>1 DEF RunTrue, Pin
  <2>. QED
    BY <2>1, <2>2 DEF CuratedTrue, Complete
<1>2. CASE curated' = curated
  BY <1>2, Grows DEF CuratedTrue, Complete
<1>3. curated' = curated \/ \E r \in Runs : SaveCuration(r)
  BY DEF Next, Step, ReadHandoff, ReuseObject, PutObject, OpenTemp, WriteTemp,
         ReplaceTemp, VerifyObject, SaveIngestion, Curate, PublishOutput,
         WriteAudit, Fail, Kill, Continue, Start, Refuse, Rewrite, vars
<1>. QED
  BY <1>1, <1>2, <1>3

\* An audit copies what its run relies on.
LEMMA AuditStep ==
  TypeOK /\ (\A r \in Runs : RunTrue(r)) /\ AuditIsTrue /\ [Next]_vars
    => AuditIsTrue'
<1> SUFFICES ASSUME TypeOK, \A r \in Runs : RunTrue(r), AuditIsTrue, [Next]_vars,
                    NEW a \in audits'
             PROVE  /\ \A i \in DOMAIN a.completed : Vouched(a.completed[i])'
                    /\ \A i \in DOMAIN a.receipt : a.receipt[i] \in ingested'
  BY DEF AuditIsTrue, Vouched, Complete
<1> USE DEF store, receipts, work, registry
<1>0. RunsTyped /\ \A r \in Runs : RunTyped(r)
  BY TypeParts
<1>1. ASSUME NEW r \in Runs, a.completed = completed[r]
      PROVE  \A i \in DOMAIN a.completed : Vouched(a.completed[i])'
  <2>1. DOMAIN a.completed = 1 .. Len(completed[r])
    BY <1>0, <1>1 DEF RunsTyped
  <2>2. \A i \in DOMAIN a.completed : Vouched(a.completed[i])
    BY <1>1, <2>1 DEF RunTrue
  <2>. QED
    BY <2>2, VouchedStays
<1>2. ASSUME NEW r \in Runs, Fail(r), a = Failure(r)
      PROVE  /\ \A i \in DOMAIN a.completed : Vouched(a.completed[i])'
             /\ \A i \in DOMAIN a.receipt : a.receipt[i] \in ingested'
  <2>1. a.completed = completed[r]
    BY <1>2 DEF Failure
  <2>2. CASE pc[r] \in Curating
    <3>1. /\ a.receipt = read[r] /\ pc[r] \in Holding
      BY <1>2, <2>2 DEF Failure, Holding, Curating
    <3>2. DOMAIN read[r] = {1} /\ read[r][1] = Reading(r)
      BY <1>0, <3>1, Held DEF Reading
    <3>3. Reading(r) \in ingested
      BY <2>2 DEF RunTrue
    <3>. QED
      BY <1>1, <2>1, <3>1, <3>2, <3>3, Grows
  <2>3. CASE pc[r] \notin Curating
    <3>1. a.receipt = <<>>
      BY <1>2, <2>3 DEF Failure
    <3>2. DOMAIN a.receipt = {}
      BY <3>1
    <3>. QED
      BY <1>1, <2>1, <3>2
  <2>. QED
    BY <2>2, <2>3
<1>3. ASSUME NEW r \in Runs,
             a = [completed |-> completed[r], phase |-> "done", receipt |-> <<>>]
      PROVE  /\ \A i \in DOMAIN a.completed : Vouched(a.completed[i])'
             /\ \A i \in DOMAIN a.receipt : a.receipt[i] \in ingested'
  <2>1. a.completed = completed[r] /\ a.receipt = <<>>
    BY <1>3
  <2>2. DOMAIN a.receipt = {}
    BY <2>1
  <2>. QED
    BY <1>1, <2>1, <2>2
<1>4. CASE a = [completed |-> <<>>, phase |-> "preflight", receipt |-> <<>>]
  <2>1. a.completed = <<>> /\ a.receipt = <<>>
    BY <1>4
  <2>2. DOMAIN a.completed = {} /\ DOMAIN a.receipt = {}
    BY <2>1
  <2>. QED
    BY <2>2
<1>5. CASE a \in audits
  BY <1>5, AuditStays
<1>6. \/ a \in audits
      \/ \E r \in Runs : Fail(r) /\ a = Failure(r)
      \/ \E r \in Runs :
           a = [completed |-> completed[r], phase |-> "done", receipt |-> <<>>]
      \/ a = [completed |-> <<>>, phase |-> "preflight", receipt |-> <<>>]
  <2>1. ASSUME NEW r \in Runs, WriteAudit(r)
        PROVE  \/ a \in audits
               \/ a = [completed |-> completed[r], phase |-> "done", receipt |-> <<>>]
    BY <2>1 DEF WriteAudit
  <2>2. ASSUME NEW r \in Runs, Fail(r) PROVE a \in audits \/ a = Failure(r)
    BY <2>2 DEF Fail
  <2>3. ASSUME NEW r \in Runs, NEW b \in Batches, Refuse(r, b)
        PROVE  \/ a \in audits
               \/ a = [completed |-> <<>>, phase |-> "preflight", receipt |-> <<>>]
    BY <2>3 DEF Refuse
  <2>4. ASSUME \/ \E r \in Runs :
                    \/ Step(r) /\ ~WriteAudit(r) /\ ~Fail(r)
                    \/ Kill(r)
                    \/ \E b \in Batches : Start(r, b)
               \/ \E f \in Files, h \in Handoff : Rewrite(f, h)
               \/ UNCHANGED vars
        PROVE  a \in audits
    BY <2>4 DEF Step, ReadHandoff, ReuseObject, PutObject, OpenTemp, WriteTemp,
                ReplaceTemp, VerifyObject, SaveIngestion, Curate, PublishOutput,
                SaveCuration, Kill, Continue, Start, Rewrite, vars
  <2>. QED
    BY <2>1, <2>2, <2>3, <2>4 DEF Next, Step
<1>. QED
  BY <1>2, <1>3, <1>4, <1>5, <1>6

LEMMA Invariance == Spec => []IInv
<1>1. Init => IInv
  <2>1. Init => CuratedTrue
    BY DEF Init, CuratedTrue
  <2>2. Init => \A r \in Runs : RunTrue(r)
    BY DEF Init, RunTrue, Holding, Ingesting, Curating
  <2>3. Init => AuditIsTrue
    BY DEF Init, AuditIsTrue
  <2>. QED
    BY <2>1, <2>2, <2>3, TypeInit DEF IInv
<1>2. IInv /\ [Next]_vars => IInv'
  BY TypeStep, RunsStep, CuratedStep, AuditStep DEF IInv
<1>. QED
  BY <1>1, <1>2, PTL DEF Spec

-----------------------------------------------------------------------------
\* Whatever crashes, fails or runs beside, the catalog stays readable as long as
\* no vintage is ingested from two texts: a receipt follows its outputs, and
\* only for an ingested handoff.
THEOREM CatalogStaysReadable == Spec => []CatalogNeedsOneText
<1>1. IInv => CatalogNeedsOneText
  BY DEF IInv, CuratedTrue, Complete, CatalogNeedsOneText, CatalogReadable
<1>. QED
  BY <1>1, Invariance, PTL

\* An audit is right about what its run left behind, for good: what it lists was
\* ingested, curated and published, under the vintage that was processed unless
\* a handoff file was made to pin another.
THEOREM AuditsStayTrue == Spec => []AuditIsTrue
<1>1. IInv => AuditIsTrue
  BY DEF IInv
<1>. QED
  BY <1>1, Invariance, PTL

-----------------------------------------------------------------------------
\* The run has a temporary file that is not yet moved over its key.
Filling(r) == pc[r] \in {"writing", "replacing"}

\* The object is there, whole.
Stored(s) == object[s].there /\ object[s].whole

\* What a run at this stage counts on in the store.
Served(r) ==
  /\ pc[r] = "writing" =>
       LET t == temp[Source(r)] IN t.there /\ t.last = r /\ r \in t.writers
  /\ pc[r] = "replacing" => temp[Source(r)].there /\ temp[Source(r)].whole
  /\ pc[r] \in {"verifying", "receipting"} \cup Curating => Stored(Source(r))

\* No two runs fill one temporary file.
Apart ==
  \A r, q \in Runs : r # q /\ Filling(r) /\ Filling(q) => Source(r) # Source(q)

\* An object is whole as soon as it is there, every run finds what it counts on,
\* receipts name objects that are stored, and nothing has been refused.
Calm ==
  /\ \A s \in Sources : object[s].there => object[s].whole
  /\ Apart
  /\ \A r \in Runs : Served(r)
  /\ \A h \in ingested : Stored(SourceOf[h.pin])
  /\ refusals = 0

\* So it is as long as no two runs have filled one temporary file at once.
Settled == ~collided => Calm

\* One file changes under one name.
LEMMA OneName ==
  ASSUME StoreTyped, NEW s \in Sources, NEW f \in File
  PROVE  /\ temp' = [temp EXCEPT ![s] = f] =>
              temp'[s] = f /\ \A t \in Sources : t # s => temp'[t] = temp[t]
         /\ object' = [object EXCEPT ![s] = f] =>
              object'[s] = f /\ \A t \in Sources : t # s => object'[t] = object[t]
  BY DEF StoreTyped

\* Opening truncates the file under the temporary name.
LEMMA OpenedTemp ==
  ASSUME StoreTyped, NEW r \in Runs, OpenTemp(r), Source(r) \in Sources
  PROVE  /\ object' = object
         /\ temp'[Source(r)].there /\ temp'[Source(r)].last = r
         /\ r \in temp'[Source(r)].writers
         /\ \A t \in Sources : t # Source(r) => temp'[t] = temp[t]
<1> DEFINE f == [there |-> TRUE, whole |-> FALSE, last |-> r,
                writers |-> temp[Source(r)].writers \cup {r}]
<1>1. f \in File
  BY FileStays DEF StoreTyped
<1>2. temp' = [temp EXCEPT ![Source(r)] = f] /\ object' = object
  BY DEF OpenTemp
<1>3. f.there /\ f.last = r /\ r \in f.writers
  OBVIOUS
<1> HIDE DEF f
<1>. QED
  BY <1>1, <1>2, <1>3, OneName

\* A write never makes a whole file less than whole, and makes the file whole
\* that the run was the last to truncate.
LEMMA FilledFile ==
  ASSUME NEW f \in File, NEW r \in Runs, NEW wrote \in BOOLEAN
  PROVE  /\ Filled(f, r, wrote).there = f.there
         /\ f.whole => Filled(f, r, wrote).whole
         /\ f.last = r /\ r \in f.writers => Filled(f, r, wrote).whole
  BY DEF Filled, File

LEMMA WroteTemp ==
  ASSUME StoreTyped, NEW r \in Runs, WriteTemp(r), Source(r) \in Sources
  PROVE  /\ \A t \in Sources :
              object'[t].there = object[t].there
              /\ (object[t].whole => object'[t].whole)
         /\ temp'[Source(r)].there = temp[Source(r)].there
         /\ LET f == temp[Source(r)] IN
              f.last = r /\ r \in f.writers => temp'[Source(r)].whole
         /\ \A t \in Sources : t # Source(r) => temp'[t] = temp[t]
<1>1. object[Source(r)] \in File /\ temp[Source(r)] \in File
  BY DEF StoreTyped
<1>2. PICK wrote \in BOOLEAN :
        /\ temp' = [temp EXCEPT ![Source(r)] = Filled(temp[Source(r)], r, wrote)]
        /\ object' = [object EXCEPT ![Source(r)] = Filled(object[Source(r)], r, wrote)]
  BY DEF WriteTemp
<1>3. /\ Filled(temp[Source(r)], r, wrote) \in File
      /\ Filled(object[Source(r)], r, wrote) \in File
  BY <1>1, FileStays
<1>4. /\ temp'[Source(r)] = Filled(temp[Source(r)], r, wrote)
      /\ object'[Source(r)] = Filled(object[Source(r)], r, wrote)
      /\ \A t \in Sources : t # Source(r) =>
           temp'[t] = temp[t] /\ object'[t] = object[t]
  BY <1>2, <1>3, OneName
<1>. QED
  BY <1>1, <1>4, FilledFile

LEMMA ReplacedTemp ==
  ASSUME StoreTyped, NEW r \in Runs, ReplaceTemp(r), Source(r) \in Sources
  PROVE  /\ object'[Source(r)] = temp[Source(r)]
         /\ temp[Source(r)].there
         /\ \A t \in Sources : t # Source(r) =>
              temp'[t] = temp[t] /\ object'[t] = object[t]
  BY DEF ReplaceTemp, StoreTyped

\* A run that stops leaves the files as they are, but will not write to them.
LEMMA Closed ==
  ASSUME StoreTyped, NEW r \in Runs, Close(r)
  PROVE  \A t \in Sources :
           /\ object'[t].there = object[t].there
           /\ object'[t].whole = object[t].whole
           /\ temp'[t].there = temp[t].there
           /\ temp'[t].whole = temp[t].whole
           /\ temp'[t].last = temp[t].last
           /\ \A q \in temp[t].writers : q # r => q \in temp'[t].writers
<1> SUFFICES ASSUME NEW t \in Sources
             PROVE  /\ object'[t].there = object[t].there
                    /\ object'[t].whole = object[t].whole
                    /\ temp'[t].there = temp[t].there
                    /\ temp'[t].whole = temp[t].whole
                    /\ temp'[t].last = temp[t].last
                    /\ \A q \in temp[t].writers : q # r => q \in temp'[t].writers
  OBVIOUS
<1>1. object[t] \in File /\ temp[t] \in File
  BY DEF StoreTyped
<1>2. /\ object'[t] = [object[t] EXCEPT !.writers = object[t].writers \ {r}]
      /\ temp'[t] = [temp[t] EXCEPT !.writers = temp[t].writers \ {r}]
  BY DEF Close
<1>. QED
  BY <1>1, <1>2 DEF File

\* What is stored stays so, and with it what the receipts say.
LEMMA ReceiptsServed ==
  ASSUME TypeOK, Calm, ingested' = ingested,
         \A s \in Sources : Stored(s) => Stored(s)'
  PROVE  (\A h \in ingested : Stored(SourceOf[h.pin]))'
<1>1. \A h \in ingested : SourceOf[h.pin] \in Sources
  BY DEF TypeOK, Handoff, Sources
<1>2. ASSUME NEW h \in ingested PROVE Stored(SourceOf[h.pin])'
  <2>1. Stored(SourceOf[h.pin])
    BY DEF Calm
  <2>. QED
    BY <1>1, <2>1
<1>. QED
  BY <1>2

\* A run that does not move goes on finding what it counts on, if its temporary
\* file is left alone and what is stored stays so.
LEMMA StillServed ==
  ASSUME NEW q \in Runs, Served(q), pc'[q] = pc[q], read'[q] = read[q],
         Filling(q) =>
           LET t == temp[Source(q)]
               u == temp'[Source(q)]
           IN  /\ t.there => u.there
               /\ t.whole => u.whole
               /\ u.last = t.last
               /\ q \in t.writers => q \in u.writers,
         pc[q] \in Holding => (Stored(Source(q)) => Stored(Source(q))')
  PROVE  Served(q)'
<1>1. Source(q)' = Source(q)
  BY DEF Source, Pin, Reading
<1>2. pc[q] \in {"verifying", "receipting"} \cup Curating => pc[q] \in Holding
  BY DEF Holding, Ingesting, Curating
<1>3. pc[q] \in {"verifying", "receipting"} \cup Curating => Stored(Source(q))'
  BY <1>2 DEF Served
<1>4. (pc[q] \in {"verifying", "receipting"} \cup Curating => Stored(Source(q)))'
  BY <1>1, <1>3 DEF Stored
<1>5. (pc[q] = "writing" =>
         LET t == temp[Source(q)] IN t.there /\ t.last = q /\ q \in t.writers)'
  BY <1>1 DEF Served, Filling
<1>6. (pc[q] = "replacing" => temp[Source(q)].there /\ temp[Source(q)].whole)'
  BY <1>1 DEF Served, Filling
<1>. QED
  BY <1>4, <1>5, <1>6 DEF Served

\* Runs stay apart when none takes up a temporary file.
LEMMA StillApart ==
  ASSUME Apart, NEW r \in Runs,
         \A q \in Runs : q # r => pc'[q] = pc[q] /\ read'[q] = read[q],
         Filling(r)' => Filling(r) /\ read'[r] = read[r]
  PROVE  Apart'
<1>1. \A q \in Runs : Filling(q)' => Filling(q) /\ read'[q] = read[q]
  BY DEF Filling
<1>2. \A q \in Runs : read'[q] = read[q] => Source(q)' = Source(q)
  BY DEF Source, Pin, Reading
<1>. QED
  BY <1>1, <1>2 DEF Apart

\* The steps that leave the store alone.
LEMMA CalmWithoutStore ==
  ASSUME TypeOK, Calm, NEW r \in Runs,
         \/ ReadHandoff(r) \/ ReuseObject(r) \/ PutObject(r) \/ VerifyObject(r)
         \/ SaveIngestion(r) \/ Curate(r) \/ SaveCuration(r) \/ WriteAudit(r)
         \/ \E o \in Outputs : PublishOutput(r, o)
         \/ \E b \in Batches : Start(r, b) \/ Refuse(r, b)
  PROVE  Calm'
<1> USE DEF store, receipts, work, registry
<1>0. StoreTyped /\ RunsTyped /\ \A q \in Runs : RunTyped(q)
  BY TypeParts
<1>1. \A q \in Runs : q # r => pc'[q] = pc[q] /\ read'[q] = read[q]
  <2>1. Step(r) \/ Kill(r) \/ \E b \in Batches : Start(r, b) \/ Refuse(r, b)
    BY DEF Step
  <2>. QED
    BY <2>1, OneRun
<1>2. object' = object /\ temp' = temp /\ refusals' = refusals
  BY DEF ReadHandoff, ReuseObject, PutObject, VerifyObject, SaveIngestion,
         Curate, PublishOutput, SaveCuration, WriteAudit, Start, Refuse, Continue
<1>3. ~Filling(r)'
  BY <1>0 DEF ReadHandoff, ReuseObject, PutObject, VerifyObject, SaveIngestion,
    Curate, PublishOutput, SaveCuration, WriteAudit, Start, Refuse, Continue,
    End, Goto, Filling, RunsTyped
<1>4. pc'[r] \in {"verifying", "receipting"} \cup Curating =>
        read' = read /\ Stored(Source(r))
  <2>1. CASE ReuseObject(r)
    BY <1>0, <2>1 DEF ReuseObject, Continue, Stored
  <2>2. CASE VerifyObject(r)
    BY <2>2 DEF VerifyObject, Continue, Calm, Served, Stored
  <2>3. CASE SaveIngestion(r) \/ Curate(r) \/ \E o \in Outputs : PublishOutput(r, o)
    BY <2>3 DEF SaveIngestion, Curate, PublishOutput, Calm, Served, Curating
  <2>4. CASE \/ ReadHandoff(r) \/ PutObject(r) \/ SaveCuration(r) \/ WriteAudit(r)
             \/ \E b \in Batches : Start(r, b) \/ Refuse(r, b)
    BY <1>0, <2>4
    DEF ReadHandoff, PutObject, Continue, SaveCuration, WriteAudit, End, Start,
        Refuse, Goto, Curating, RunsTyped
  <2>. QED
    BY <2>1, <2>2, <2>3, <2>4
<1>5. Served(r)'
  <2>1. ~(pc'[r] \in {"writing", "replacing"})
    BY <1>3 DEF Filling
  <2>2. (pc[r] \in {"verifying", "receipting"} \cup Curating => Stored(Source(r)))'
    BY <1>2, <1>4 DEF Stored, Source, Pin, Reading
  <2>. QED
    BY <2>1, <2>2 DEF Served
<1>6. ASSUME NEW q \in Runs, q # r PROVE Served(q)'
  <2>1. Served(q) /\ pc'[q] = pc[q] /\ read'[q] = read[q]
    BY <1>1, <1>6 DEF Calm
  <2>2. Stored(Source(q)) => Stored(Source(q))'
    BY <1>2, <2>1 DEF Stored, Source, Pin, Reading
  <2>. QED
    BY <1>2, <2>1, <2>2, StillServed
<1>7. Apart'
  BY <1>1, <1>3, StillApart DEF Calm
<1>8. (\A h \in ingested : Stored(SourceOf[h.pin]))'
  <2>1. ingested' \subseteq ingested \cup {Reading(r)}
    BY DEF ReadHandoff, ReuseObject, PutObject, VerifyObject, SaveIngestion,
      Curate, PublishOutput, SaveCuration, WriteAudit, Start, Refuse, Continue
  <2>2. Reading(r) \in ingested' \ ingested => Stored(SourceOf[Reading(r).pin])
    <3>1. SaveIngestion(r) \/ ingested' = ingested
      BY DEF ReadHandoff, ReuseObject, PutObject, VerifyObject, SaveIngestion,
        Curate, PublishOutput, SaveCuration, WriteAudit, Start, Refuse, Continue
    <3>2. SaveIngestion(r) => Stored(Source(r))
      BY DEF SaveIngestion, Calm, Served
    <3>. QED
      BY <3>1, <3>2 DEF Source, Pin
  <2>. QED
    BY <1>2, <2>1, <2>2 DEF Calm, Stored
<1>. QED
  BY <1>2, <1>5, <1>6, <1>7, <1>8 DEF Calm

\* Opening a temporary file: any other run that has it open collides.
LEMMA CalmOpening ==
  ASSUME TypeOK, Calm, ~collided', NEW r \in Runs, OpenTemp(r)
  PROVE  Calm'
<1> USE DEF store, receipts, work, registry
<1>0. StoreTyped /\ RunsTyped /\ \A q \in Runs : RunTyped(q)
  BY TypeParts
<1>1. \A q \in Runs : q # r => pc'[q] = pc[q] /\ read'[q] = read[q]
  BY OneRun DEF Step
<1>2. /\ pc[r] = "opening" /\ pc'[r] = "writing" /\ read' = read
      /\ ingested' = ingested /\ refusals' = refusals
  BY <1>0 DEF OpenTemp, Continue, Goto, RunsTyped
<1>3. Source(r) \in Sources
  BY <1>0, <1>2, Held DEF Holding, Ingesting
<1>4. /\ object' = object
      /\ temp'[Source(r)].there /\ temp'[Source(r)].last = r
      /\ r \in temp'[Source(r)].writers
      /\ \A t \in Sources : t # Source(r) => temp'[t] = temp[t]
  BY <1>0, <1>3, OpenedTemp
<1>5. \A q \in Runs : Source(q)' = Source(q)
  BY <1>2 DEF Source, Pin, Reading
<1>6. \A q \in Runs : q # r /\ Filling(q) => Source(q) # Source(r)
  BY DEF OpenTemp, Putting, Filling
<1>7. Apart'
  <2>1. \A q \in Runs : q # r => (Filling(q)' <=> Filling(q))
    BY <1>1 DEF Filling
  <2>. QED
    BY <1>5, <1>6, <2>1 DEF Calm, Apart
<1>8. Served(r)'
  <2>1. (LET t == temp[Source(r)] IN t.there /\ t.last = r /\ r \in t.writers)'
    BY <1>4, <1>5
  <2>. QED
    BY <1>2, <2>1 DEF Served, Curating
<1>9. ASSUME NEW q \in Runs, q # r PROVE Served(q)'
  <2>1. Served(q) /\ pc'[q] = pc[q] /\ read'[q] = read[q]
    BY <1>1, <1>9 DEF Calm
  <2>2. Stored(Source(q)) => Stored(Source(q))'
    BY <1>4, <1>5 DEF Stored
  <2>3. Filling(q) => temp'[Source(q)] = temp[Source(q)]
    <3>1. Filling(q) => pc[q] \in Holding
      BY DEF Filling, Holding, Ingesting
    <3>. QED
      BY <1>0, <1>4, <1>6, <1>9, <3>1, Held
  <2>. QED
    BY <2>1, <2>2, <2>3, StillServed
<1>10. (\A h \in ingested : Stored(SourceOf[h.pin]))'
  BY <1>2, <1>4, ReceiptsServed DEF Stored
<1>. QED
  BY <1>2, <1>4, <1>7, <1>8, <1>9, <1>10 DEF Calm

\* Writing and replacing: the run alone fills its temporary file, so that what
\* it moves over the key is whole.
LEMMA CalmFilling ==
  ASSUME TypeOK, Calm, NEW r \in Runs, WriteTemp(r) \/ ReplaceTemp(r)
  PROVE  Calm'
<1> USE DEF store, receipts, work, registry
<1>0. StoreTyped /\ RunsTyped /\ \A q \in Runs : RunTyped(q)
  BY TypeParts
<1>1. \A q \in Runs : q # r => pc'[q] = pc[q] /\ read'[q] = read[q]
  BY OneRun DEF Step
<1>2. /\ Filling(r) /\ pc[r] \in Holding /\ read' = read
      /\ ingested' = ingested /\ refusals' = refusals
  BY DEF WriteTemp, ReplaceTemp, Continue, Filling, Holding, Ingesting
<1>3. Source(r) \in Sources
  BY <1>0, <1>2, Held
<1>4. \A q \in Runs : Source(q)' = Source(q)
  BY <1>2 DEF Source, Pin, Reading
<1>5. \A q \in Runs : q # r /\ Filling(q) => Source(q) # Source(r)
  BY <1>2 DEF Calm, Apart
<1>6. Apart'
  BY <1>1, <1>2, StillApart DEF Calm
<1>7. /\ \A t \in Sources : t # Source(r) => temp'[t] = temp[t]
      /\ \A s \in Sources : Stored(s) => Stored(s)'
      /\ \A s \in Sources : object'[s].there => object'[s].whole
      /\ Served(r)'
  <2>1. CASE WriteTemp(r)
    <3>1. /\ \A t \in Sources :
               object'[t].there = object[t].there
               /\ (object[t].whole => object'[t].whole)
          /\ temp'[Source(r)].there = temp[Source(r)].there
          /\ LET f == temp[Source(r)] IN
               f.last = r /\ r \in f.writers => temp'[Source(r)].whole
          /\ \A t \in Sources : t # Source(r) => temp'[t] = temp[t]
      BY <1>0, <1>3, <2>1, WroteTemp
    <3>2. pc[r] = "writing" /\ pc'[r] = "replacing"
      BY <1>0, <2>1 DEF WriteTemp, Continue, Goto, RunsTyped
    <3>3. temp'[Source(r)].there /\ temp'[Source(r)].whole
      BY <3>1, <3>2 DEF Calm, Served
    <3>4. (temp[Source(r)].there /\ temp[Source(r)].whole)'
      BY <1>4, <3>3
    <3>5. Served(r)'
      BY <3>2, <3>4 DEF Served, Curating
    <3>. QED
      BY <3>1, <3>5 DEF Calm, Stored
  <2>2. CASE ReplaceTemp(r)
    <3>1. /\ object'[Source(r)] = temp[Source(r)]
          /\ temp[Source(r)].there
          /\ \A t \in Sources : t # Source(r) =>
               temp'[t] = temp[t] /\ object'[t] = object[t]
      BY <1>0, <1>3, <2>2, ReplacedTemp
    <3>2. pc[r] = "replacing" /\ pc'[r] = "verifying"
      BY <1>0, <2>2 DEF ReplaceTemp, Continue, Goto, RunsTyped
    <3>3. object'[Source(r)].there /\ object'[Source(r)].whole
      BY <3>1, <3>2 DEF Calm, Served
    <3>4. Stored(Source(r))'
      BY <1>4, <3>3 DEF Stored
    <3>5. Served(r)'
      BY <3>2, <3>4 DEF Served
    <3>. QED
      BY <3>1, <3>3, <3>5 DEF Calm, Stored
  <2>. QED
    BY <2>1, <2>2
<1>8. ASSUME NEW q \in Runs, q # r PROVE Served(q)'
  <2>1. Served(q) /\ pc'[q] = pc[q] /\ read'[q] = read[q]
    BY <1>1, <1>8 DEF Calm
  <2>2. pc[q] \in Holding => Source(q) \in Sources
    BY <1>0, Held
  <2>3. pc[q] \in Holding => (Stored(Source(q)) => Stored(Source(q))')
    BY <1>4, <1>7, <2>2 DEF Stored
  <2>4. Filling(q) => temp'[Source(q)] = temp[Source(q)]
    <3>1. Filling(q) => pc[q] \in Holding
      BY DEF Filling, Holding, Ingesting
    <3>. QED
      BY <1>5, <1>7, <1>8, <2>2, <3>1
  <2>. QED
    BY <2>1, <2>3, <2>4, StillServed
<1>9. (\A h \in ingested : Stored(SourceOf[h.pin]))'
  BY <1>2, <1>7, ReceiptsServed
<1>. QED
  BY <1>2, <1>6, <1>7, <1>8, <1>9 DEF Calm

\* The end of a failed or killed run: none is refused.
LEMMA CalmStopping ==
  ASSUME TypeOK, Calm, NEW r \in Runs, Fail(r) \/ Kill(r)
  PROVE  Calm'
<1> USE DEF store, receipts, work, registry
<1>0. StoreTyped /\ RunsTyped /\ \A q \in Runs : RunTyped(q)
  BY TypeParts
<1>1. \A q \in Runs : q # r => pc'[q] = pc[q] /\ read'[q] = read[q]
  BY OneRun DEF Step
<1>2. pc'[r] = "ended" /\ ingested' = ingested
  BY <1>0 DEF Fail, Kill, End, Goto, RunsTyped
<1>3. \A t \in Sources :
        /\ object'[t].there = object[t].there
        /\ object'[t].whole = object[t].whole
        /\ temp'[t].there = temp[t].there
        /\ temp'[t].whole = temp[t].whole
        /\ temp'[t].last = temp[t].last
        /\ \A q \in temp[t].writers : q # r => q \in temp'[t].writers
  BY <1>0, Closed DEF Fail, Kill
<1>4. refusals' = 0
  <2>1. ~Refused(r)
    <3>1. pc[r] \in Holding => Source(r) \in Sources
      BY <1>0, Held
    <3>2. pc[r] = "checking" => pc[r] \in Holding
      BY DEF Holding, Ingesting
    <3>3. ~(pc[r] \in {"verifying", "curating"} /\ ~object[Source(r)].whole)
      BY DEF Calm, Served, Stored, Curating
    <3>4. ~(/\ pc[r] = "checking"
            /\ object[Source(r)].there /\ ~object[Source(r)].whole)
      BY <3>1, <3>2 DEF Calm
    <3>5. ~(pc[r] = "replacing" /\ ~temp[Source(r)].there)
      BY DEF Calm, Served
    <3>. QED
      BY <3>3, <3>4, <3>5 DEF Refused
  <2>. QED
    BY <2>1 DEF Fail, Kill, Calm
<1>5. Served(r)' /\ ~Filling(r)'
  BY <1>2 DEF Served, Filling, Curating
<1>6. ASSUME NEW q \in Runs, q # r PROVE Served(q)'
  <2>1. Served(q) /\ pc'[q] = pc[q] /\ read'[q] = read[q]
    BY <1>1, <1>6 DEF Calm
  <2>2. pc[q] \in Holding => Source(q) \in Sources
    BY <1>0, Held
  <2>3. Source(q)' = Source(q)
    BY <2>1 DEF Source, Pin, Reading
  <2>4. pc[q] \in Holding => (Stored(Source(q)) => Stored(Source(q))')
    BY <1>3, <2>2, <2>3 DEF Stored
  <2>5. Filling(q) => pc[q] \in Holding
    BY DEF Filling, Holding, Ingesting
  <2>6. Filling(q) =>
          LET t == temp[Source(q)]
              u == temp'[Source(q)]
          IN  /\ t.there => u.there
              /\ t.whole => u.whole
              /\ u.last = t.last
              /\ q \in t.writers => q \in u.writers
    BY <1>3, <1>6, <2>2, <2>5
  <2>. QED
    BY <2>1, <2>4, <2>6, StillServed
<1>7. Apart'
  BY <1>1, <1>5, StillApart DEF Calm
<1>8. (\A h \in ingested : Stored(SourceOf[h.pin]))'
  <2>1. \A s \in Sources : Stored(s) => Stored(s)'
    BY <1>3 DEF Stored
  <2>. QED
    BY <1>2, <2>1, ReceiptsServed
<1>. QED
  BY <1>3, <1>4, <1>5, <1>6, <1>7, <1>8 DEF Calm

LEMMA SettledStep == TypeOK /\ Settled /\ [Next]_vars => Settled'
<1> SUFFICES ASSUME TypeOK, Settled, [Next]_vars, ~collided'
             PROVE  Calm'
  BY DEF Settled
<1> USE DEF store, receipts, work, registry
<1>1. ~collided
  BY DEF Next, Step, ReadHandoff, ReuseObject, PutObject, OpenTemp, WriteTemp,
         ReplaceTemp, VerifyObject, SaveIngestion, Curate, PublishOutput,
         SaveCuration, WriteAudit, Fail, Kill, Continue, Start, Refuse, Rewrite,
         vars
<1>2. Calm
  BY <1>1 DEF Settled
<1>3. ASSUME NEW r \in Runs,
             Step(r) \/ Kill(r) \/ \E b \in Batches : Start(r, b) \/ Refuse(r, b)
      PROVE  Calm'
  BY <1>2, <1>3, CalmWithoutStore, CalmOpening, CalmFilling, CalmStopping
  DEF Step
<1>4. CASE \/ \E f \in Files, h \in Handoff : Rewrite(f, h)
           \/ UNCHANGED vars
  <2>1. /\ object' = object /\ temp' = temp /\ pc' = pc /\ read' = read
        /\ ingested' = ingested /\ refusals' = refusals
    BY <1>4 DEF Rewrite, vars
  <2>. QED
    BY <1>2, <2>1
    DEF Calm, Apart, Filling, Served, Stored, Source, Pin, Reading
<1>. QED
  BY <1>3, <1>4 DEF Next

LEMMA AlwaysSettled == Spec => []Settled
<1>1. Init => Settled
  BY DEF Init, Settled, Calm, Apart, Filling, Served, Stored, NoFile, Curating
<1>. QED
  BY <1>1, SettledStep, TypeCorrect, PTL DEF Spec

-----------------------------------------------------------------------------
\* An ingestion receipt goes on naming an object that is stored whole, whatever
\* other runs put under its key or leave behind when they fail or are killed,
\* unless two runs have filled one temporary file at the same time.
THEOREM ReceiptsStayStored == Spec => []ReceiptMeansStored
<1>1. Settled => ReceiptMeansStored
  BY DEF Settled, Calm, Stored, ReceiptMeansStored
<1>. QED
  BY <1>1, AlwaysSettled, PTL

\* With the same exception no run is ever refused for what another has left in
\* the store: a batch that passed its preflight fails only for an outside reason
\* of its own.
THEOREM RerunsAlwaysResume == Spec => []RerunsResume
<1>1. Settled => RerunsResume
  BY DEF Settled, Calm, RerunsResume
<1>. QED
  BY <1>1, AlwaysSettled, PTL
=============================================================================
