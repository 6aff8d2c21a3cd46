--------------------------- MODULE PipelineRunner ---------------------------
(* The class Pipeline runs its steps in order, tries each one up to          *)
(* 1 + retries times, goes on without a step that may be skipped and stops   *)
(* at any other that fails.  Its programs: the sensor demo, which splits the *)
(* lines of a stream in five steps and ends with a manifest, the customer    *)
(* ETL, whose lines are the rows of one CSV file, and the pipeline of its    *)
(* documentation, whose steps are the user's own.                            *)
EXTENDS SensorStream

VARIABLES
  at,          \* the next step, as an index into Steps
  attempt,     \* attempts of that step, the current one included
  results      \* sequence of [name, status, attempts]

runnerVars == <<at, attempt, results>>

Step(name) == [name |-> name, retries |-> 0, skip |-> FALSE]
Skippable(s) == [s EXCEPT !.skip = TRUE]
Retried(s, n) == [s EXCEPT !.retries = n]

Steps ==
  CASE job = "demo" ->
         <<Step("ingest"), Step("validate"), Step("deduplicate"), Step("aggregate"),
           Step("output")>>
    [] job = "customer" ->
         <<Step("extract"), Skippable(Step("validate")), Step("clean"), Step("load"),
           Step("report")>>
    [] OTHER ->
         <<Step("extract"), Retried(Step("validate"), 2), Step("transform"),
           Skippable(Step("load")), Step("report")>>

Current == Steps[at]
Statuses == {results[i].status : i \in DOMAIN results}
Stopped == "failed" \in Statuses
\* context["step_results"]
Stored == {results[i].name : i \in {k \in DOMAIN results : results[k].status = "success"}}

-----------------------------------------------------------------------------
\* The steps of the sensor demo.  Its own validation lets a blank field pass;
\* a line that is not JSON stops the Python demo and is rejected by the other.
DemoAccepted == {i \in DOMAIN lines : lines[i].kind \in {"good", "offset", "naive", "blank"}}
DemoRejected == DOMAIN lines \ DemoAccepted

\* the first of every key among the lines of is
FirstOf(is) == {i \in is : \A k \in is : k < i => Key(lines[k]) # Key(lines[i])}

\* Duplicates go to the dead letters of the Python demo only.
DemoDead ==
  DemoRejected \cup (IF lang = "py" THEN DemoAccepted \ FirstOf(DemoAccepted) ELSE {})

DemoFiles ==
  << [file |-> "accepted", rows |-> FirstOf(DemoAccepted)],
     [file |-> "dead_letter", rows |-> DemoDead],
     [file |-> "hourly_aggregates", rows |-> FirstOf(DemoAccepted)],
     [file |-> "location_summary", rows |-> FirstOf(DemoAccepted)],
     [file |-> "summary", rows |-> FirstOf(DemoAccepted)] >>

\* clean of the customer ETL drops rows that are equal in every field.
UniqueRows == {i \in DOMAIN lines : \A k \in DOMAIN lines : k < i => lines[k] # lines[i]}
CustomerFiles == << [file |-> "customers", rows |-> UniqueRows] >>

Writes(s) == s.name \in (IF job = "demo" THEN {"output"} ELSE IF job = "customer" THEN {"load"} ELSE {})

\* What a step cannot do with the lines it is given: read the input of the
\* demo, where Python parses every line, or that of the customer ETL, check the
\* fields of a scalar or, in Python, reject an array.
DemoUnread == lines # Absent => lang = "py" /\ \E i \in DOMAIN lines : lines[i].kind = "torn"
CustomerUnread == lines = Absent
MustRaise(s) ==
  \/ s.name = "ingest" /\ DemoUnread
  \/ s.name = "extract" /\ job = "customer" /\ CustomerUnread
  \/ s.name = "validate" /\ job = "demo" /\ \E i \in DOMAIN lines :
       lines[i].kind = "scalar" \/ (lang = "py" /\ lines[i].kind = "array")

-----------------------------------------------------------------------------
RunnerInit == at = 0 /\ attempt = 0 /\ results = <<>>

Run ==
  /\ \E j \in Pipelines : Start(j)
  /\ lines' \in (IF job = "example" THEN {<<>>} ELSE Inputs \cup {Absent})
  /\ at' = 1 /\ attempt' = 1 /\ results' = <<>>
  /\ pc' = "step" /\ todo' = <<>> /\ verdict' = Unknown
  /\ UNCHANGED <<job, lang, disk, manifests, faults, limit>>

Record(status) ==
  /\ results' = Append(results, [name |-> Current.name, status |-> status, attempts |-> attempt])
  /\ at' = at + 1 /\ attempt' = 1
  /\ pc' = "step"

Running == pc = "step" /\ at <= Len(Steps) /\ ~Stopped

StepWrites ==
  /\ Running /\ Writes(Current)
  /\ pc' = "write" /\ todo' = IF job = "demo" THEN DemoFiles ELSE CustomerFiles
  /\ UNCHANGED <<job, lang, run, clock, verdict, disk, manifests, faults, streamVars, runnerVars>>

StepSucceeds ==
  /\ \/ Running /\ ~Writes(Current) /\ ~MustRaise(Current)
     \/ pc = "write" /\ todo = <<>> /\ job \in Pipelines
  /\ Record("success")
  /\ UNCHANGED <<job, lang, run, clock, todo, verdict, disk, manifests, faults, streamVars>>

Raises ==
  \/ Running /\ MustRaise(Current) /\ UNCHANGED faults
  \/ Running /\ ~Writes(Current) /\ ~MustRaise(Current) /\ Fault
  \/ pc = "caught" /\ UNCHANGED faults

TryAgain ==
  /\ attempt <= Current.retries
  /\ attempt' = attempt + 1 /\ pc' = "step"
  /\ UNCHANGED <<at, results>>

SkipOrFail ==
  /\ attempt > Current.retries
  /\ Record(IF Current.skip THEN "skipped" ELSE "failed")

StepRaises ==
  /\ Raises
  /\ TryAgain \/ SkipOrFail
  /\ UNCHANGED <<job, lang, run, clock, todo, verdict, disk, manifests, streamVars>>

\* The pipeline returns.  The demo takes its counts from what the context
\* holds by then: in JavaScript the accepted lines before or after
\* deduplication, in Python only the deduplicated ones.
DemoRows ==
  CASE "deduplicate" \in Stored -> Cardinality(FirstOf(DemoAccepted))
    [] "deduplicate" \notin Stored /\ "validate" \in Stored /\ lang = "js" ->
         Cardinality(DemoAccepted)
    [] OTHER -> 0

Conclude ==
  /\ pc = "step" /\ (Stopped \/ at > Len(Steps))
  /\ LET s == IF Stopped THEN "failed" ELSE "success"
     IN  verdict' = Verdict(s, IF job = "demo" THEN DemoRows ELSE 0)
  /\ pc' = IF job = "demo" THEN "manifest" ELSE "idle"
  /\ UNCHANGED <<job, lang, run, clock, todo, disk, manifests, faults, streamVars, runnerVars>>

RunnerNext == Run \/ StepWrites \/ StepSucceeds \/ StepRaises \/ Conclude
=============================================================================
