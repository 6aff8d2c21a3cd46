---------------------------- MODULE SensorStream ----------------------------
(* process_stream: one pass over the lines of a file that validates them,    *)
(* drops repeated keys and judges every accepted event against the latest    *)
(* event time before it.  A line is a record [kind, sensor, at]; its kind is *)
(*   good     complete, with an aware timestamp                              *)
(*   offset   complete, the same with its instant written in another zone    *)
(*   naive    complete, with a timestamp that names no zone                  *)
(*   blank    complete but for a text field that is blank                    *)
(*   invalid  an object without a field, a number or a readable timestamp    *)
(*   array    JSON, but an array                                             *)
(*   scalar   JSON, but neither an object nor an array                       *)
(*   torn     not JSON                                                       *)
EXTENDS Jobs, FiniteSetsExt, Integers

CONSTANTS
  Inputs,      \* the files a run may find: sequences of lines
  Absent,      \* in place of one that cannot be read
  Limits       \* values of lateness_threshold_seconds

\* Times count from the earliest that a timestamp can name.
ASSUME StreamAssumption ==
  /\ Absent \notin Inputs
  /\ \A ls \in Inputs : IsSequence(ls) /\ \A i \in DOMAIN ls : ls[i].at \in Nat
  /\ Limits \subseteq Int

VARIABLES
  lines,       \* what the run finds as its input
  limit        \* its lateness threshold

streamVars == <<lines, limit>>

\* deduplicate_key: sensor and timestamp as written, not the instant
Spelling(l) == IF l.kind \in {"offset", "naive"} THEN l.kind ELSE "plain"
Key(l) == <<l.sensor, l.at, Spelling(l)>>

Valid(l) == l.kind \in {"good", "offset", "naive"}

\* classify_lateness: later than the watermark allows.  JavaScript takes a
\* negative lateness as 0 before it compares.
IsLate(lg, mark, at, lim) ==
  LET lateness == mark - at
  IN  (IF lg = "js" THEN Max({lateness, 0}) ELSE lateness) > lim

\* Python refuses to compare an aware time with a naive one.
Incomparable(lg, mark, l) == lg = "py" /\ mark.naive # (l.kind = "naive")

NoMark == [at |-> -1, naive |-> FALSE]
Nothing == [accepted |-> {}, dead |-> {}, late |-> {}, seen |-> {},
            mark |-> NoMark, raised |-> FALSE]

DeadLetter(acc, i) == [acc EXCEPT !.dead = @ \cup {i}]

\* Mutant: the watermark follows the last event, also back in time.
AcceptLast(lg, lim, acc, i, l) ==
  [acc EXCEPT
     !.seen = @ \cup {Key(l)},
     !.accepted = @ \cup {i},
     !.raised = acc.mark # NoMark /\ Incomparable(lg, acc.mark, l),
     !.late = IF acc.mark # NoMark /\ IsLate(lg, acc.mark.at, l.at, lim) THEN @ \cup {i} ELSE @,
     !.mark = [at |-> l.at, naive |-> l.kind = "naive"]]

\* an event that is valid and new: accepted, judged, and then the watermark
Accept(lg, lim, acc, i, l) ==
  LET first == acc.mark = NoMark
  IN  [acc EXCEPT
         !.seen = @ \cup {Key(l)},
         !.accepted = @ \cup {i},
         !.raised = ~first /\ Incomparable(lg, acc.mark, l),
         !.late = IF ~first /\ IsLate(lg, acc.mark.at, l.at, lim) THEN @ \cup {i} ELSE @,
         !.mark = IF first \/ l.at > @.at
                    THEN [at |-> l.at, naive |-> l.kind = "naive"] ELSE @]

\* the loop of process_stream, which an exception leaves
Judged(lg, lim, ls, acc, i) ==
  IF acc.raised THEN acc
  ELSE IF ~Valid(ls[i]) \/ Key(ls[i]) \in acc.seen THEN DeadLetter(acc, i)
  ELSE Accept(lg, lim, acc, i, ls[i])

Processed(lg, lim, ls) ==
  LET after[n \in 0 .. Len(ls)] ==
        IF n = 0 THEN Nothing ELSE Judged(lg, lim, ls, after[n - 1], n)
  IN  after[Len(ls)]

Output(r) ==
  << [file |-> "accepted", rows |-> r.accepted], [file |-> "dead_letter", rows |-> r.dead],
     [file |-> "late_events", rows |-> r.late], [file |-> "summary", rows |-> r.accepted] >>

-----------------------------------------------------------------------------
StreamInit == lines = <<>> /\ limit = 0

\* Python raises what it cannot read or compare before it writes anything;
\* JavaScript ends the loop and writes what it has, which is nothing when the
\* file cannot be read.
StreamRaises ==
  /\ Start("stream")
  /\ lines' \in Inputs \cup {Absent} /\ lang = "py"
  /\ limit' \in Limits
  /\ lines' # Absent => Processed(lang, limit', lines').raised
  /\ EndWith(Unknown)
  /\ UNCHANGED <<job, lang, disk, manifests, faults>>

StreamFails ==
  /\ Start("stream")
  /\ lines' = Absent /\ lang = "js"
  /\ limit' \in Limits
  /\ pc' = "write" /\ todo' = Output(Nothing) /\ verdict' = Verdict("failed", 0)
  /\ UNCHANGED <<job, lang, disk, manifests, faults>>

StreamReads ==
  /\ Start("stream")
  /\ lines' \in Inputs
  /\ limit' \in Limits
  /\ LET r == Processed(lang, limit', lines')
     IN  /\ ~r.raised
         /\ todo' = Output(r)
         /\ verdict' = Verdict("success", Cardinality(r.accepted))
  /\ pc' = "write"
  /\ UNCHANGED <<job, lang, disk, manifests, faults>>

StreamNext == StreamRaises \/ StreamFails \/ StreamReads
=============================================================================
