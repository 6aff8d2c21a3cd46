------------------------------ MODULE BatchJobs ------------------------------
(* The batch programs beside each other: a behaviour is a number of runs of  *)
(* one program in one language on the same directories, with failures and    *)
(* deaths anywhere in them.                                                  *)
EXTENDS PipelineRunner, ApiIngestion, CsvIngestion, Warehouse

vars == <<jobVars, streamVars, runnerVars, apiVars, csvVars, warehouseVars>>

Init == JobsInit /\ StreamInit /\ RunnerInit /\ ApiInit /\ CsvInit /\ WarehouseInit

Next ==
  \/ JobsNext /\ UNCHANGED <<streamVars, runnerVars, apiVars, csvVars, warehouseVars>>
  \/ StreamNext /\ UNCHANGED <<runnerVars, apiVars, csvVars, warehouseVars>>
  \/ RunnerNext /\ UNCHANGED <<apiVars, csvVars, warehouseVars>>
  \/ ApiNext /\ UNCHANGED <<streamVars, runnerVars, csvVars, warehouseVars>>
  \/ CsvNext /\ UNCHANGED <<streamVars, runnerVars, apiVars, warehouseVars>>
  \/ WarehouseNext /\ UNCHANGED <<streamVars, runnerVars, apiVars, csvVars>>

Spec == Init /\ [][Next]_vars

-----------------------------------------------------------------------------
\* What a successful run has to leave behind, whatever happened before it.

Told(s) == pc = "idle" /\ run > 0 /\ verdict.status = s

\* The run has written the file itself, and to its end.
Written(file) == file \in DOMAIN disk /\ disk[file].run = run /\ disk[file].whole
Holds(file, rows) == Written(file) /\ disk[file].rows = rows

\* Every line is in exactly one of accepted and dead letters, but for the
\* duplicates of the sensor demo in JavaScript, which are in neither.
StreamWhole ==
  /\ \A f \in {"accepted", "dead_letter", "summary"} : Written(f)
  /\ LET accepted == disk["accepted"].rows
         dead == disk["dead_letter"].rows
     IN  /\ accepted \cap dead = {}
         /\ job = "stream" \/ lang = "py" => accepted \cup dead = DOMAIN lines
         /\ verdict.rows = Cardinality(accepted)
         /\ disk["summary"].rows = accepted

\* The files hold what the API served, from the first post on, if it did not
\* change under the run.
Reach == IF Len(posts) < PageSize * MaxPages THEN Len(posts) ELSE PageSize * MaxPages
ApiWhole ==
  /\ Written(<<"raw", clock>>) /\ Written(<<"processed", clock>>)
  /\ changed = 0 => /\ Holds(<<"raw", clock>>, SubSeq(posts, 1, Reach))
                    /\ Holds(<<"processed", clock>>, Transformed(lang, SubSeq(posts, 1, Reach)))

\* No row twice, and in JavaScript every cell under its own header, as far as
\* the header goes.
CsvWhole ==
  /\ Written("cleaned")
  /\ LET rows == disk["cleaned"].rows
     IN  /\ \A i, k \in DOMAIN rows : i # k => Texts(rows[i]) # Texts(rows[k])
         /\ lang = "js" =>
              \A i \in DOMAIN rows : \A c \in DOMAIN rows[i] \cap DOMAIN Merged(lang, files) :
                rows[i][c].name = Merged(lang, files)[c]

\* Every step has succeeded but those that may be skipped.
PipelineWhole ==
  /\ Len(results) = Len(Steps)
  /\ \A i \in DOMAIN results : results[i].status = "success" \/ Steps[i].skip
  /\ job = "customer" => Holds("customers", UniqueRows)

\* A run that reports success has written its files itself and whole, with every
\* input accounted for, and its manifest says so.  For the warehouse, whose
\* reports are optional, only the manifest is meant here.
SuccessIsWhole ==
  Told("success") =>
    /\ job \in {"stream", "demo"} => StreamWhole
    /\ job = "api" => ApiWhole
    /\ job = "csv" => CsvWhole
    /\ job \in Pipelines => PipelineWhole
    /\ job \in {"stream", "demo", "api", "warehouse"} =>
         /\ clock \in DOMAIN manifests
         /\ manifests[clock] = [run |-> run, status |-> "success", rows |-> verdict.rows,
                                whole |-> TRUE]

-----------------------------------------------------------------------------
\* After a successful run of the warehouse every order of a known customer is
\* joined to exactly one fact through the current dimensions, and so is every
\* item of a product whose price passes the gate, although the facts of
\* earlier runs are still in their tables.  (Queries that join no dimension
\* count those again, as the documentation of the warehouse says.)
CountedOnce ==
  Told("success") /\ job = "warehouse" =>
    /\ \A o \in db.known : db.orders[o] \in db.customers =>
         Cardinality({r \in JoinedOrders(db) : r.order = o}) = 1
    /\ \A i \in db.items : i[2] \in Priced(db) =>
         Cardinality({r \in JoinedItems(db) : r.item = i}) = 1

-----------------------------------------------------------------------------
\* What process_stream makes of a file can be said without its loop: accepted
\* is the first valid event of each key, and late is one that an accepted
\* event before it exceeds by more than the threshold, so that the order of
\* the lines matters and events that come later do not; in JavaScript a
\* negative threshold makes late whatever follows another.  Where no field is
\* blank, what the validation and deduplication of the sensor demo would accept
\* of the same lines, if its steps get that far, are the same events.
ValidLines == {i \in DOMAIN lines : Valid(lines[i])}
Late(accepted) ==
  {i \in accepted : \E k \in accepted :
     k < i /\ (lines[k].at - lines[i].at > limit \/ (lang = "js" /\ limit < 0))}

JudgedAgainstPast ==
  job = "stream" /\ run > 0 /\ lines # Absent =>
    LET r == Processed(lang, limit, lines)
    IN  IF r.raised
        THEN lang = "py" /\ \E i, k \in ValidLines :
                              lines[i].kind = "naive" /\ lines[k].kind # "naive"
        ELSE /\ r.accepted = FirstOf(ValidLines)
             /\ r.late = Late(r.accepted)
             /\ (\A i \in DOMAIN lines : lines[i].kind # "blank") =>
                  r.accepted = FirstOf(DemoAccepted)
=============================================================================
