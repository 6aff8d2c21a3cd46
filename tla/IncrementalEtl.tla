--------------------------- MODULE IncrementalEtl ---------------------------
(***************************************************************************)
(* transform/incremental_etl.py: runs read all JSONL input, skip what the  *)
(* checkpoint has, write the rest to a file named for the present second   *)
(* and then overwrite the checkpoint.  Nothing locks and nothing is atomic:*)
(* a run may die between any two writes, in the middle of one, or beside   *)
(* another run, and the input grows meanwhile.                             *)
(***************************************************************************)
EXTENDS Naturals, Sequences, FiniteSets

CONSTANTS
  Runs,         \* processes that run the pipeline again and again
  Ids,          \* event ids
  Numbers,      \* the ids that are numbers; the others are strings
  NoId,         \* what an odd line has for an id
  Lines,        \* bound: the lines that may come
  Seconds,      \* bound: the clock's seconds are 1 .. Seconds
  MaxLines,     \* bound: input lines
  MaxFaults     \* bound: runs killed or failed

ASSUME IdsAssumption == Numbers \subseteq Ids /\ NoId \notin Ids

ASSUME BoundsAssumption ==
  Seconds \in Nat \ {0} /\ MaxLines \in Nat /\ MaxFaults \in Nat

VARIABLES
  input,       \* the lines of all input files in alphabetical order
  checkpoint,  \* the checkpoint file
  outputs,     \* the output file of each second
  manifests,   \* the manifest of each second
  clock,       \* the present second
  pc,          \* where each run is
  loaded,      \* processed_ids each run has loaded
  fresh,       \* ids of the records each run has transformed
  label,       \* the second in each run's output file name
  overlapped,  \* have two runs been under way at the same time?
  reused,      \* has an output file been opened a second time?
  faults       \* faults so far

files == <<checkpoint, outputs, manifests>>
work == <<loaded, fresh, label>>
vars == <<input, files, clock, pc, work, overlapped, reused, faults>>

\* JSON that is no object, an id that cannot be hashed, bytes that are no text.
Odd == [id |-> NoId, fit |-> FALSE]

\* fit: transform_event accepts the event.  Malformed JSON and events without an
\* id have no effect.
Line == [id : Ids, fit : BOOLEAN] \cup {Odd}

ASSUME LinesAssumption == Lines \subseteq Line

Second == 1 .. Seconds

\* "empty" is what open("w") leaves, "torn" what is not JSON.
Checkpoint == [state : {"missing", "empty", "torn", "whole"}, ids : SUBSET Ids]

Output == [there : BOOLEAN, ids : SUBSET Ids]

\* output is the second in the name of the output file, 0 for no output.
Manifest == [output : 0 .. Seconds, rows : SUBSET Ids]

\* None, or one that cannot be read.
NoManifest == [output |-> 0, rows |-> {}]

Stage == {"idle", "reading", "opening", "writing", "truncating", "saving",
          "reporting"}

Busy(r) == pc[r] # "idle"

Alone(r) == \A x \in Runs \ {r} : ~Busy(x)

Goto(r, stage) == pc' = [pc EXCEPT ![r] = stage]

Init ==
  /\ input = <<>>
  /\ checkpoint = [state |-> "missing", ids |-> {}]
  /\ outputs = [s \in Second |-> [there |-> FALSE, ids |-> {}]]
  /\ manifests = [s \in Second |-> NoManifest]
  /\ clock = 1
  /\ pc = [r \in Runs |-> "idle"]
  /\ loaded = [r \in Runs |-> {}]
  /\ fresh = [r \in Runs |-> {}]
  /\ label = [r \in Runs |-> 0]
  /\ overlapped = FALSE
  /\ reused = FALSE
  /\ faults = 0

-----------------------------------------------------------------------------
\* load_checkpoint: a missing or unreadable file counts as an empty one.
Loaded == IF checkpoint.state = "whole" THEN checkpoint.ids ELSE {}

\* Mutant: an unreadable checkpoint stops the run.
LoadStrict(r) ==
  /\ pc[r] = "idle"
  /\ checkpoint.state \in {"missing", "whole"}
  /\ loaded' = [loaded EXCEPT ![r] = Loaded]
  /\ overlapped' = (overlapped \/ ~Alone(r))
  /\ Goto(r, "reading")
  /\ UNCHANGED <<input, files, clock, fresh, label, reused, faults>>

\* A run starts.
Load(r) ==
  /\ pc[r] = "idle"
  /\ loaded' = [loaded EXCEPT ![r] = Loaded]
  /\ overlapped' = (overlapped \/ ~Alone(r))
  /\ Goto(r, "reading")
  /\ UNCHANGED <<input, files, clock, fresh, label, reused, faults>>

\* The line is the first in the input with its id.
First(i) == \A j \in 1 .. i - 1 : input[j].id # input[i].id

\* Ids whose first line in the input is fit; a later line does not count.
Ready == {input[i].id : i \in {j \in DOMAIN input : First(j) /\ input[j].fit}}

\* Mutant: the checkpoint is not consulted.
SelectedAll(r) == Ready

\* The new events of the run that transform_event accepts.
Selected(r) == Ready \ loaded[r]

OddLine == \E i \in DOMAIN input : input[i] = Odd

\* read_events, the filter and the transformation.
Read(r) ==
  /\ pc[r] = "reading"
  /\ ~OddLine
  /\ fresh' = [fresh EXCEPT ![r] = Selected(r)]
  /\ Goto(r, IF Selected(r) = {} THEN "reporting" ELSE "opening")
  /\ UNCHANGED <<input, files, clock, loaded, label, overlapped, reused, faults>>

\* The run ends, by its own end or an exception, and forgets everything.
End(r) ==
  /\ loaded' = [loaded EXCEPT ![r] = {}]
  /\ fresh' = [fresh EXCEPT ![r] = {}]
  /\ label' = [label EXCEPT ![r] = 0]
  /\ Goto(r, "idle")

\* Every run over an input with an odd line raises there.
ReadRaises(r) ==
  /\ pc[r] = "reading"
  /\ OddLine
  /\ End(r)
  /\ UNCHANGED <<input, files, clock, overlapped, reused, faults>>

\* The output file of the second is created, or truncated.
OpenOutput(r) ==
  /\ pc[r] = "opening"
  /\ label' = [label EXCEPT ![r] = clock]
  /\ reused' = (reused \/ outputs[clock].there)
  /\ outputs' = [outputs EXCEPT ![clock] = [there |-> TRUE, ids |-> {}]]
  /\ Goto(r, "writing")
  /\ UNCHANGED <<input, checkpoint, manifests, clock, loaded, fresh, overlapped,
                 faults>>

\* The records are written; what another run wrote to the same file since may
\* be overwritten, left, or mangle the records.
WriteOutput(r) ==
  /\ pc[r] = "writing"
  /\ \E ids \in {fresh[r]} \cup
               (IF outputs[label[r]].ids = {} THEN {}
                ELSE SUBSET (outputs[label[r]].ids \cup fresh[r])) :
       outputs' = [outputs EXCEPT ![label[r]].ids = ids]
  /\ Goto(r, "truncating")
  /\ UNCHANGED <<input, checkpoint, manifests, clock, work, overlapped, reused,
                 faults>>

\* Mutant: failed ids are recorded too.
RecordedAll(r) == loaded[r] \cup {input[i].id : i \in DOMAIN input}

\* Mutant: only the ids of this run are saved.
RecordedFresh(r) == fresh[r]

\* The ids the run saves: what it loaded and what it transformed.
Recorded(r) == loaded[r] \cup fresh[r]

\* Python orders numbers and it orders strings, but not one with the other.
Sortable(S) == S \subseteq Numbers \/ S \cap Numbers = {}

\* save_checkpoint sorts the ids before it opens the file.
SortRaises(r) ==
  /\ pc[r] = "truncating"
  /\ ~Sortable(Recorded(r))
  /\ End(r)
  /\ UNCHANGED <<input, files, clock, overlapped, reused, faults>>

\* Then open("w") truncates the file ...
OpenCheckpoint(r) ==
  /\ pc[r] = "truncating"
  /\ Sortable(Recorded(r))
  /\ checkpoint' = [state |-> "empty", ids |-> {}]
  /\ Goto(r, "saving")
  /\ UNCHANGED <<input, outputs, manifests, clock, work, overlapped, reused,
                 faults>>

Torn == [state |-> "torn", ids |-> {}]

\* ... and the document is written, possibly over that of another run, whose
\* end stays behind if it is longer.
SaveCheckpoint(r) ==
  /\ pc[r] = "saving"
  /\ \/ checkpoint' = [state |-> "whole", ids |-> Recorded(r)]
     \/ checkpoint.state # "empty" /\ checkpoint' = Torn
  /\ Goto(r, "reporting")
  /\ UNCHANGED <<input, outputs, manifests, clock, work, overlapped, reused,
                 faults>>

\* Mutant: the manifest names the file of its own second.
ReportNow(r) ==
  [output |-> IF fresh[r] = {} THEN 0 ELSE clock, rows |-> fresh[r]]

Report(r) ==
  [output |-> IF fresh[r] = {} THEN 0 ELSE label[r], rows |-> fresh[r]]

\* write_manifest under a run id of its own second, over that second's last.
WriteManifest(r) ==
  /\ pc[r] = "reporting"
  /\ manifests' = [manifests EXCEPT ![clock] = Report(r)]
  /\ End(r)
  /\ UNCHANGED <<input, checkpoint, outputs, clock, overlapped, reused, faults>>

-----------------------------------------------------------------------------
\* The run is killed or a write raises; a file it was writing keeps what had
\* been flushed.
Kill(r) ==
  /\ Busy(r)
  /\ faults < MaxFaults
  /\ faults' = faults + 1
  /\ IF pc[r] = "writing"
     THEN \E ids \in SUBSET fresh[r] :
            outputs' = [outputs EXCEPT ![label[r]].ids = @ \cup ids]
     ELSE UNCHANGED outputs
  /\ \/ pc[r] = "saving" /\ checkpoint' = Torn
     \/ UNCHANGED checkpoint
  /\ \/ pc[r] = "reporting" /\ manifests' = [manifests EXCEPT ![clock] = NoManifest]
     \/ UNCHANGED manifests
  /\ End(r)
  /\ UNCHANGED <<input, clock, overlapped, reused>>

\* A file with one more line appears, after or before the others.
Arrive(l) ==
  /\ Len(input) < MaxLines
  /\ input' \in {Append(input, l), <<l>> \o input}
  /\ UNCHANGED <<files, clock, pc, work, overlapped, reused, faults>>

Tick ==
  /\ clock < Seconds
  /\ clock' = clock + 1
  /\ UNCHANGED <<input, files, pc, work, overlapped, reused, faults>>

-----------------------------------------------------------------------------
Step(r) ==
  \/ Read(r) \/ ReadRaises(r) \/ OpenOutput(r) \/ WriteOutput(r)
  \/ OpenCheckpoint(r) \/ SortRaises(r) \/ SaveCheckpoint(r) \/ WriteManifest(r)

Next ==
  \/ \E r \in Runs : Load(r) \/ Step(r) \/ Kill(r)
  \/ \E l \in Lines : Arrive(l)
  \/ Tick

Spec == Init /\ [][Next]_vars

\* A run that is under way goes on, and when none is, one is started some time.
FairSpec ==
  /\ Spec
  /\ \A r \in Runs : WF_vars(Step(r))
  /\ WF_vars(\E r \in Runs : Alone(r) /\ Load(r))

-----------------------------------------------------------------------------
\* Every variable has its type; what a run writes was not in the checkpoint it
\* loaded, and a run that writes has something to write.
TypeOK ==
  /\ input \in Seq(Line)
  /\ checkpoint \in Checkpoint
  /\ outputs \in [Second -> Output]
  /\ manifests \in [Second -> Manifest]
  /\ clock \in Second
  /\ pc \in [Runs -> Stage]
  /\ loaded \in [Runs -> SUBSET Ids]
  /\ fresh \in [Runs -> SUBSET Ids]
  /\ label \in [Runs -> 0 .. Seconds]
  /\ \A r \in Runs : loaded[r] \cap fresh[r] = {}
  /\ \A r \in Runs : pc[r] \in {"writing", "truncating", "saving"} =>
                       fresh[r] # {} /\ outputs[label[r]].there
  /\ overlapped \in BOOLEAN
  /\ reused \in BOOLEAN
  /\ faults \in Nat

Written == UNION {outputs[s].ids : s \in Second}

\* What the checkpoint will have skipped for good has been written: no crash,
\* torn checkpoint or overlapping run loses an event, unless two runs open the
\* output file of the same second.
SkippedIsWritten == ~reused => Loaded \subseteq Written

\* The ids that the checkpoint may come to hold can be sorted: run after run will
\* get past save_checkpoint.
FitIds == {input[i].id : i \in {j \in DOMAIN input : input[j].fit}}
OneType == Sortable(FitIds)

\* Runs that do not overlap write an event twice only after a fault, and at
\* most once more for each, if all ids are of one type.
DuplicatesNeedFaults ==
  ~overlapped /\ OneType => \A id \in Ids :
    Cardinality({s \in Second : id \in outputs[s].ids}) <= 1 + faults

\* A manifest is right about the output file it names, whenever it was written,
\* unless an output file was opened twice.
ManifestIsTrue ==
  ~reused => \A s \in Second :
    manifests[s].output # 0 => outputs[manifests[s].output].ids = manifests[s].rows

\* The event is in the input, and no line of it is refused.
Due(id) ==
  /\ \E i \in DOMAIN input : input[i].id = id
  /\ \A i \in DOMAIN input : input[i].id = id => input[i].fit

\* An event that is due is in the checkpoint for good in the end, however the
\* checkpoint was torn before, if runs stop overlapping, no line of the input
\* makes them raise and all ids are of one type.
EventuallyRecorded ==
  \A id \in Ids :
    <>[](Due(id) /\ ~OddLine /\ OneType /\ \E r \in Runs : Alone(r))
      => <>[](id \in Loaded)

\* docs/04-incremental-etl-pipeline.md, "If the process crashes mid-run, the
\* checkpoint still reflects the previous state": with no run under way the
\* file holds a checkpoint.
CheckpointSurvivesCrash ==
  (\A r \in Runs : ~Busy(r)) => checkpoint.state \in {"missing", "whole"}
=============================================================================
