---------------------------- MODULE CsvIngestion ----------------------------
(* run_pipeline of the CSV ingestion: the files of a directory, in the order *)
(* of their names, merged under the header of the first that is accepted,    *)
(* with repeated rows dropped.  A file is a record [readable, header,        *)
(* spaced, rows] and a cell a record [name, value]: the header it stands     *)
(* under in its own file, and its text.  Headers are standardised, spaced    *)
(* are those that have a space where the standard has an underscore.         *)
EXTENDS Jobs, SequencesExt

CONSTANTS
  Directories, \* what a run may find: sequences of files
  Required     \* the required columns

\* A cell that stands under a header has its name.
ASSUME CsvAssumption ==
  \A fs \in Directories : IsSequence(fs) /\ \A k \in DOMAIN fs :
    LET f == fs[k]
    IN  /\ IsSequence(f.header) /\ IsSequence(f.rows)
        /\ \A r \in DOMAIN f.rows : \A c \in DOMAIN f.rows[r] \cap DOMAIN f.header :
             f.rows[r][c].name = f.header[c]

VARIABLES
  files        \* the files of the run

csvVars == <<files>>

\* Python takes a blank first line for a header without columns; JavaScript
\* skips blank lines and refuses a file that has no other.
Readable(lg, f) == f.readable /\ (lg = "js" => f.header # <<>>)

\* JavaScript looks for the required columns in the header as it is written.
Named(lg, f) == ToSet(f.header) \ (IF lg = "js" THEN f.spaced ELSE {})
Complete(lg, f) == Required \subseteq Named(lg, f)

Admissible(lg, f) == Readable(lg, f) /\ Complete(lg, f)

\* The header of the merged file.
Merged(lg, fs) ==
  LET accepted == {k \in DOMAIN fs : Admissible(lg, fs[k])}
  IN  IF accepted = {} THEN <<>> ELSE fs[Min(accepted)].header

\* JavaScript refuses a file with other columns than the first one's.
Processable(lg, fs, f) ==
  /\ Admissible(lg, f)
  /\ lg = "js" => ToSet(f.header) = ToSet(Merged(lg, fs))

\* The rows a file adds.  Python keeps rows as wide as their own header and
\* leaves their cells where they are; JavaScript keeps every row and puts the
\* cells in the order of the merged header, blank where the row is short.
Position(h, name) == CHOOSE i \in DOMAIN h : h[i] = name /\ \A k \in 1 .. i - 1 : h[k] # name
Reordered(h, m, row) ==
  [i \in DOMAIN m |-> IF Position(h, m[i]) \in DOMAIN row
                        THEN row[Position(h, m[i])] ELSE [name |-> m[i], value |-> ""]]

Rows(lg, m, f) ==
  IF lg = "py"
  THEN FlattenSeq([k \in DOMAIN f.rows |->
                     IF Len(f.rows[k]) = Len(f.header) THEN <<f.rows[k]>> ELSE <<>>])
  ELSE IF f.header = m THEN f.rows
  ELSE [k \in DOMAIN f.rows |-> Reordered(f.header, m, f.rows[k])]

AllRows(lg, fs) ==
  FlattenSeq([k \in DOMAIN fs |->
                IF Processable(lg, fs, fs[k]) THEN Rows(lg, Merged(lg, fs), fs[k]) ELSE <<>>])

\* deduplicate compares the texts only.
Texts(row) == [i \in DOMAIN row |-> row[i].value]
With(kept, row) ==
  IF \E i \in DOMAIN kept : Texts(kept[i]) = Texts(row) THEN kept ELSE Append(kept, row)

Unique(rows) ==
  LET upto[n \in 0 .. Len(rows)] == IF n = 0 THEN <<>> ELSE With(upto[n - 1], rows[n])
  IN  upto[Len(rows)]

-----------------------------------------------------------------------------
CsvInit == files = <<>>

\* Without any file the output is empty and there is no manifest.  Python sees
\* no file in a directory that is not there, JavaScript returns an empty result.
Nought(whole) == Under(disk, "cleaned", [run |-> run', rows |-> <<>>, whole |-> whole])

RunCsvEmpty ==
  /\ Start("csv")
  /\ files' \in Directories /\ files' = <<>>
  /\ \/ disk' = Nought(TRUE) /\ EndWith(Verdict("success", 0)) /\ UNCHANGED faults
     \/ Fault /\ disk' \in {disk, Nought(FALSE)} /\ EndWith(Unknown)
  /\ UNCHANGED <<job, lang, manifests>>

RunCsvUnread ==
  /\ Start("csv") /\ lang = "js" /\ Fault
  /\ EndWith(Verdict("empty", 0))
  /\ UNCHANGED <<job, lang, disk, manifests, files>>

RunCsv ==
  /\ Start("csv")
  /\ files' \in Directories /\ files' # <<>>
  /\ LET rows == Unique(AllRows(lang, files'))
     IN  /\ todo' = << [file |-> "cleaned", rows |-> rows] >>
         /\ verdict' = Verdict("success", Len(rows))
  /\ pc' = "write"
  /\ UNCHANGED <<job, lang, disk, manifests, faults>>

CsvNext == RunCsvEmpty \/ RunCsvUnread \/ RunCsv
=============================================================================
