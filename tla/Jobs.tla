-------------------------------- MODULE Jobs --------------------------------
(* What the batch programs of both languages share.  A run writes its files  *)
(* one after the other into a directory that earlier runs may have filled,   *)
(* and a manifest last; any of these writes can fail, and the process can    *)
(* die between two of them.  One program runs at a time, in Python or in     *)
(* JavaScript; its own module says how it comes to the files of todo.        *)
EXTENDS Naturals, FiniteSets, Sequences

CONSTANTS
  MaxRuns,     \* bound: runs of the program
  MaxFaults    \* bound: failed calls and deaths, over all runs

VARIABLES
  job,         \* the program
  lang,        \* "py" or "js"
  run,         \* number of the current run, or of the last one
  clock,       \* the second in which it started: its run id
  pc,          \* "idle", or what the run is doing
  todo,        \* files still to be written: sequence of [file, rows]
  verdict,     \* [status, rows] of the run; what its caller knows when idle
  disk,        \* the output directory: file -> [run, rows, whole]
  manifests,   \* the manifest directory: second -> [run, status, rows, whole]
  faults       \* failures so far

jobVars == <<job, lang, run, clock, pc, todo, verdict, disk, manifests, faults>>

Pipelines == {"demo", "customer", "example"}   \* run by the Pipeline class
Programs == {"stream", "csv", "api", "warehouse"} \cup Pipelines

Verdict(status, rows) == [status |-> status, rows |-> rows]
Unknown == Verdict("raised", 0)

IsSequence(s) == s \in Seq({s[i] : i \in DOMAIN s})

JobsInit ==
  /\ job \in Programs /\ lang \in {"py", "js"}
  /\ run = 0 /\ clock = 0 /\ pc = "idle" /\ todo = <<>>
  /\ verdict = Unknown
  /\ disk = <<>> /\ manifests = <<>>
  /\ faults = 0

\* A run starts in the second of the one before it or in a later one.
Start(j) ==
  /\ job = j /\ pc = "idle" /\ run < MaxRuns
  /\ run' = run + 1
  /\ clock' \in {clock, clock + 1}

Fault == faults < MaxFaults /\ faults' = faults + 1

\* The run ends without a manifest and its caller gets s.
EndWith(s) ==
  /\ pc' = "idle" /\ todo' = <<>> /\ verdict' = s

\* The directory d with v under the name x, in place of what was there.
Under(d, x, v) == [y \in DOMAIN d \cup {x} |-> IF y = x THEN v ELSE d[y]]

Put(f, whole) == Under(disk, f.file, [run |-> run, rows |-> f.rows, whole |-> whole])

-----------------------------------------------------------------------------
WriteFile ==
  /\ pc = "write" /\ todo # <<>>
  /\ disk' = Put(Head(todo), TRUE)
  /\ todo' = Tail(todo)
  /\ UNCHANGED <<job, lang, run, clock, pc, verdict, manifests, faults>>

\* A write fails before the file is opened or with a part of it on disk.  The
\* step of a pipeline raises into the runner, the API program in JavaScript
\* notes the error and goes on, the warehouse in Python goes to its manifest,
\* and everybody else lets the exception through.
RaisesIntoRunner == job \in Pipelines /\ pc' = "caught" /\ todo' = <<>> /\ UNCHANGED verdict

\* Mutant: the error is logged but not noted.
LogsError ==
  /\ job = "api" /\ lang = "js"
  /\ todo' = Tail(todo) /\ UNCHANGED <<verdict, pc>>

NotesError ==
  /\ job = "api" /\ lang = "js"
  /\ todo' = Tail(todo) /\ verdict' = [verdict EXCEPT !.status = "failed"] /\ UNCHANGED pc

GoesToManifest ==
  /\ job = "warehouse" /\ lang = "py"
  /\ todo' = <<>> /\ verdict' = [verdict EXCEPT !.status = "failed"] /\ UNCHANGED pc

RaisesToCaller ==
  /\ job \in {"stream", "csv"} \/ <<job, lang>> \in {<<"api", "py">>, <<"warehouse", "js">>}
  /\ EndWith(Unknown)

WriteFails ==
  /\ pc = "write" /\ todo # <<>> /\ Fault
  /\ disk' \in {disk, Put(Head(todo), FALSE)}
  /\ RaisesIntoRunner \/ NotesError \/ GoesToManifest \/ RaisesToCaller
  /\ UNCHANGED <<job, lang, run, clock, manifests>>

-----------------------------------------------------------------------------
\* The manifest of a stream says success whatever the summary says: Python
\* comes to it with nothing else, JavaScript leaves the status to its default.
ManifestStatus == IF job = "stream" THEN "success" ELSE verdict.status

AtManifest ==
  \/ pc = "write" /\ todo = <<>> /\ job \notin Pipelines
  \/ pc = "manifest"

Manifest(whole) ==
  Under(manifests, clock,
        [run |-> run, status |-> ManifestStatus, rows |-> verdict.rows, whole |-> whole])

WriteManifest ==
  /\ AtManifest
  /\ manifests' = Manifest(TRUE)
  /\ pc' = "idle"
  /\ UNCHANGED <<job, lang, run, clock, todo, verdict, disk, faults>>

ManifestFails ==
  /\ AtManifest /\ Fault
  /\ manifests' \in {manifests, Manifest(FALSE)}
  /\ EndWith(Unknown)
  /\ UNCHANGED <<job, lang, run, clock, disk>>

\* The process dies, also in the middle of a write.
Die ==
  /\ pc # "idle" /\ Fault
  /\ disk' \in {disk} \cup {Put(f, FALSE) : f \in IF todo = <<>> THEN {} ELSE {Head(todo)}}
  /\ EndWith(Unknown)
  /\ UNCHANGED <<job, lang, run, clock, manifests>>

JobsNext == WriteFile \/ WriteFails \/ WriteManifest \/ ManifestFails \/ Die
=============================================================================
