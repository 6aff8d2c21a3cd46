------------------------ MODULE IncrementalEtlProofs ------------------------
(***************************************************************************)
(* Proofs about IncrementalEtl, for any runs, event ids and bounds.        *)
(***************************************************************************)
EXTENDS IncrementalEtl, FiniteSetTheorems, SequenceTheorems, TLAPS

\* The run has an output file.
HasFile(r) ==
  \/ pc[r] \in {"writing", "truncating", "saving"}
  \/ pc[r] = "reporting" /\ fresh[r] # {}

\* What a run has in hand at each stage, and files exist before they are filled.
WorkShape ==
  /\ \A s \in Second : ~outputs[s].there => outputs[s].ids = {}
  /\ \A r \in Runs :
       /\ pc[r] \in {"idle", "reading"} => fresh[r] = {}
       /\ pc[r] \in {"opening", "writing", "truncating", "saving"} => fresh[r] # {}
       /\ HasFile(r) => label[r] \in Second /\ outputs[label[r]].there

\* Unless an output file was opened twice, every run has a file of its own, with
\* nothing in it or with all it has transformed.
OwnFiles ==
  ~reused =>
    /\ \A r, q \in Runs : r # q /\ HasFile(r) /\ HasFile(q) => label[r] # label[q]
    /\ \A r \in Runs : pc[r] = "writing" => outputs[label[r]].ids = {}
    /\ \A r \in Runs : HasFile(r) /\ pc[r] # "writing" =>
                         outputs[label[r]].ids = fresh[r]

\* What runs have loaded has been written as well.
LoadedIsWritten ==
  ~reused => Loaded \subseteq Written /\ \A r \in Runs : loaded[r] \subseteq Written

\* The file that a manifest names is finished.
ManifestsSettled ==
  ~reused => \A s \in Second :
    LET m == manifests[s] IN
    m.output # 0 =>
      /\ outputs[m.output].there
      /\ outputs[m.output].ids = m.rows
      /\ \A r \in Runs : pc[r] = "writing" => label[r] # m.output

Shape == TypeOK /\ WorkShape

\* The inductive invariant behind the theorems.
IInv == Shape /\ OwnFiles /\ LoadedIsWritten /\ ManifestsSettled

-----------------------------------------------------------------------------
\* The new events of a run are events, and not among those it has loaded.
LEMMA SelectedIsNew ==
  ASSUME TypeOK, NEW r \in Runs
  PROVE  /\ Selected(r) \subseteq Ids /\ Selected(r) \cap loaded[r] = {}
         /\ Selected(r) \subseteq FitIds
<1>1. \A i \in DOMAIN input : input[i] \in Line
  BY DEF TypeOK
<1>2. \A l \in Line : l.fit => l.id \in Ids
  BY DEF Line, Odd
<1>3. Ready \subseteq Ids /\ Ready \subseteq FitIds
  BY <1>1, <1>2 DEF Ready, FitIds
<1>. QED
  BY <1>3 DEF Selected

\* A run that ends has nothing in hand.
LEMMA EndKeepsType ==
  ASSUME TypeOK, NEW r \in Runs, End(r)
  PROVE  /\ pc' \in [Runs -> Stage]
         /\ loaded' \in [Runs -> SUBSET Ids]
         /\ fresh' \in [Runs -> SUBSET Ids]
         /\ label' \in [Runs -> 0 .. Seconds]
         /\ pc'[r] = "idle" /\ fresh'[r] = {} /\ loaded'[r] = {}
         /\ \A q \in Runs : q # r =>
              /\ pc'[q] = pc[q] /\ fresh'[q] = fresh[q]
              /\ loaded'[q] = loaded[q] /\ label'[q] = label[q]
  BY BoundsAssumption DEF TypeOK, End, Goto, Stage

\* Opening, writing and dying change one output file.
LEMMA OneFile ==
  ASSUME TypeOK, NEW s \in Second, NEW o \in Output,
         outputs' = [outputs EXCEPT ![s] = o]
  PROVE  /\ outputs' \in [Second -> Output]
         /\ outputs'[s] = o
         /\ \A t \in Second : t # s => outputs'[t] = outputs[t]
  BY DEF TypeOK

LEMMA Opened ==
  ASSUME Shape, NEW r \in Runs, OpenOutput(r)
  PROVE  /\ outputs' \in [Second -> Output]
         /\ outputs'[clock].there /\ outputs'[clock].ids = {}
         /\ \A t \in Second : t # clock => outputs'[t] = outputs[t]
<1>1. [there |-> TRUE, ids |-> {}] \in Output
  BY DEF Output
<1>2. outputs' = [outputs EXCEPT ![clock] = [there |-> TRUE, ids |-> {}]]
      /\ clock \in Second
  BY DEF OpenOutput, Shape, TypeOK
<1>. QED
  BY <1>1, <1>2, OneFile DEF Shape

LEMMA Wrote ==
  ASSUME Shape, NEW r \in Runs, WriteOutput(r)
  PROVE  /\ outputs' \in [Second -> Output]
         /\ outputs'[label[r]].there
         /\ outputs[label[r]].ids = {} => outputs'[label[r]].ids = fresh[r]
         /\ label[r] \in Second
         /\ \A t \in Second : t # label[r] => outputs'[t] = outputs[t]
<1>1. label[r] \in Second /\ outputs[label[r]].there /\ outputs[label[r]] \in Output
  BY DEF WriteOutput, Shape, WorkShape, HasFile, TypeOK
<1>2. PICK ids \in SUBSET Ids :
        /\ outputs' = [outputs EXCEPT ![label[r]].ids = ids]
        /\ outputs[label[r]].ids = {} => ids = fresh[r]
  BY <1>1 DEF WriteOutput, Shape, TypeOK, Output
<1> DEFINE o == [outputs[label[r]] EXCEPT !.ids = ids]
<1>3. o \in Output /\ o.there /\ o.ids = ids
  BY <1>1 DEF Output
<1>4. outputs' = [outputs EXCEPT ![label[r]] = o]
  BY <1>2
<1> HIDE DEF o
<1>. QED
  BY <1>1, <1>2, <1>3, <1>4, OneFile DEF Shape

LEMMA Died ==
  ASSUME Shape, NEW r \in Runs, Kill(r), pc[r] = "writing"
  PROVE  /\ outputs' \in [Second -> Output]
         /\ outputs'[label[r]].there
         /\ outputs[label[r]].ids \subseteq outputs'[label[r]].ids
         /\ label[r] \in Second
         /\ \A t \in Second : t # label[r] => outputs'[t] = outputs[t]
<1>1. label[r] \in Second /\ outputs[label[r]].there /\ outputs[label[r]] \in Output
  BY DEF Shape, WorkShape, HasFile, TypeOK
<1>2. PICK ids \in SUBSET fresh[r] :
        outputs' = [outputs EXCEPT ![label[r]].ids = @ \cup ids]
  BY DEF Kill
<1> DEFINE o == [outputs[label[r]] EXCEPT !.ids = outputs[label[r]].ids \cup ids]
<1>3. o \in Output /\ o.there /\ outputs[label[r]].ids \subseteq o.ids
  BY <1>1 DEF Output, Shape, TypeOK
<1>4. outputs' = [outputs EXCEPT ![label[r]] = o]
  BY <1>2
<1> HIDE DEF o
<1>. QED
  BY <1>1, <1>3, <1>4, OneFile DEF Shape

-----------------------------------------------------------------------------
LEMMA ShapeInit == Init => Shape
<1> SUFFICES ASSUME Init PROVE TypeOK /\ WorkShape
  BY DEF Shape
<1>1. /\ 1 \in Second /\ 0 \in 0 .. Seconds
      /\ checkpoint \in Checkpoint
      /\ outputs \in [Second -> Output] /\ manifests \in [Second -> Manifest]
  BY BoundsAssumption DEF Init, Checkpoint, Output, Manifest, NoManifest, Second
<1>2. <<>> \in Seq(Line)
  OBVIOUS
<1>3. TypeOK
  BY <1>1, <1>2 DEF Init, TypeOK, Stage
<1>4. WorkShape
  BY DEF Init, WorkShape, HasFile
<1>. QED
  BY <1>3, <1>4

\* A step that changes no output file and at most one run's work.
LEMMA ShapeElsewhere ==
  ASSUME Shape, NEW r \in Runs, outputs' = outputs,
         \A q \in Runs : q # r =>
           pc'[q] = pc[q] /\ fresh'[q] = fresh[q] /\ label'[q] = label[q],
         /\ pc'[r] \in {"idle", "reading"} => fresh'[r] = {}
         /\ pc'[r] \in {"opening", "writing", "truncating", "saving"} =>
              fresh'[r] # {}
         /\ HasFile(r)' => HasFile(r) /\ label'[r] = label[r]
  PROVE  WorkShape'
  BY DEF Shape, WorkShape, HasFile

\* A step that gives one run's file new contents.
LEMMA ShapeWithFile ==
  ASSUME Shape, NEW r \in Runs, NEW s \in Second, outputs'[s].there,
         \A t \in Second : t # s => outputs'[t] = outputs[t],
         \A q \in Runs : q # r =>
           pc'[q] = pc[q] /\ fresh'[q] = fresh[q] /\ label'[q] = label[q],
         /\ pc'[r] \in {"idle", "reading"} => fresh'[r] = {}
         /\ pc'[r] \in {"opening", "writing", "truncating", "saving"} =>
              fresh'[r] # {}
         /\ HasFile(r)' => label'[r] = s
  PROVE  WorkShape'
  BY DEF Shape, WorkShape, HasFile

LEMMA ShapeStep == Shape /\ [Next]_vars => Shape'
<1> SUFFICES ASSUME Shape, [Next]_vars PROVE TypeOK' /\ WorkShape'
  BY DEF Shape
<1> USE DEF files, work
<1>0. TypeOK /\ WorkShape
  BY DEF Shape
<1>1. ASSUME NEW r \in Runs, Load(r) PROVE TypeOK' /\ WorkShape'
  <2>1. Loaded \in SUBSET Ids /\ fresh[r] = {}
    BY <1>0, <1>1 DEF Load, Loaded, TypeOK, Checkpoint, WorkShape
  <2>2. TypeOK'
    BY <1>0, <1>1, <2>1 DEF Load, Goto, TypeOK, Stage
  <2>. QED
    BY <1>0, <1>1, <2>1, <2>2, ShapeElsewhere DEF Load, Goto, TypeOK, HasFile
<1>2. ASSUME NEW r \in Runs, Read(r) PROVE TypeOK' /\ WorkShape'
  <2>1. Selected(r) \in SUBSET Ids /\ Selected(r) \cap loaded[r] = {}
    BY <1>0, SelectedIsNew
  <2>2. TypeOK'
    BY <1>0, <1>2, <2>1 DEF Read, Goto, TypeOK, Stage
  <2>3. WorkShape'
    BY <1>0, <1>2, ShapeElsewhere DEF Read, Goto, TypeOK, HasFile
  <2>. QED
    BY <2>2, <2>3
<1>11. ASSUME NEW r \in Runs, ReadRaises(r) \/ SortRaises(r)
       PROVE  TypeOK' /\ WorkShape'
  <2>1. /\ End(r) /\ outputs' = outputs /\ input' = input
        /\ checkpoint' = checkpoint /\ manifests' = manifests /\ clock' = clock
        /\ overlapped' = overlapped /\ reused' = reused /\ faults' = faults
    BY <1>11 DEF ReadRaises, SortRaises
  <2>2. WorkShape'
    BY <1>0, <2>1, EndKeepsType, ShapeElsewhere DEF HasFile
  <2>3. TypeOK'
    BY <1>0, <2>1, EndKeepsType DEF TypeOK
  <2>. QED
    BY <2>2, <2>3
<1>3. ASSUME NEW r \in Runs, OpenOutput(r) PROVE TypeOK' /\ WorkShape'
  <2>1. /\ outputs' \in [Second -> Output] /\ clock \in Second
        /\ outputs'[clock].there
        /\ \A t \in Second : t # clock => outputs'[t] = outputs[t]
    BY <1>0, <1>3, Opened DEF TypeOK
  <2>2. label' \in [Runs -> 0 .. Seconds] /\ label'[r] = clock
        /\ \A q \in Runs : q # r => label'[q] = label[q]
    BY <1>0, <1>3, <2>1, BoundsAssumption DEF OpenOutput, TypeOK, Second
  <2>3. pc' \in [Runs -> Stage] /\ pc'[r] = "writing"
        /\ \A q \in Runs : q # r => pc'[q] = pc[q]
    BY <1>0, <1>3 DEF OpenOutput, Goto, TypeOK, Stage
  <2>4. /\ fresh' = fresh /\ loaded' = loaded /\ fresh[r] # {}
        /\ input' = input /\ checkpoint' = checkpoint /\ manifests' = manifests
        /\ clock' = clock /\ overlapped' = overlapped /\ faults' = faults
        /\ reused' \in BOOLEAN
    BY <1>0, <1>3 DEF OpenOutput, WorkShape, TypeOK
  <2>5. WorkShape'
    BY <2>1, <2>2, <2>3, <2>4, ShapeWithFile
  <2>6. TypeOK'
    BY <1>0, <2>1, <2>2, <2>3, <2>4, <2>5 DEF TypeOK, WorkShape, HasFile
  <2>. QED
    BY <2>5, <2>6
<1>4. ASSUME NEW r \in Runs, WriteOutput(r) PROVE TypeOK' /\ WorkShape'
  <2>1. /\ outputs' \in [Second -> Output] /\ label[r] \in Second
        /\ outputs'[label[r]].there
        /\ \A t \in Second : t # label[r] => outputs'[t] = outputs[t]
    BY <1>4, Wrote
  <2>2. pc' \in [Runs -> Stage] /\ pc'[r] = "truncating"
        /\ \A q \in Runs : q # r => pc'[q] = pc[q]
    BY <1>0, <1>4 DEF WriteOutput, Goto, TypeOK, Stage
  <2>3. /\ fresh' = fresh /\ loaded' = loaded /\ label' = label /\ fresh[r] # {}
        /\ input' = input /\ checkpoint' = checkpoint /\ manifests' = manifests
        /\ clock' = clock /\ overlapped' = overlapped /\ faults' = faults
        /\ reused' = reused
    BY <1>0, <1>4 DEF WriteOutput, WorkShape
  <2>4. WorkShape'
    BY <2>1, <2>2, <2>3, ShapeWithFile
  <2>5. TypeOK'
    BY <1>0, <2>1, <2>2, <2>3, <2>4 DEF TypeOK, WorkShape, HasFile
  <2>. QED
    BY <2>4, <2>5
<1>5. ASSUME NEW r \in Runs, OpenCheckpoint(r) \/ SaveCheckpoint(r)
      PROVE  TypeOK' /\ WorkShape'
  <2>1. checkpoint' \in Checkpoint
    BY <1>0, <1>5
    DEF OpenCheckpoint, SaveCheckpoint, Torn, Recorded, TypeOK, Checkpoint
  <2>2. TypeOK'
    BY <1>0, <1>5, <2>1 DEF OpenCheckpoint, SaveCheckpoint, Goto, TypeOK, Stage
  <2>3. WorkShape'
    BY <1>0, <1>5, ShapeElsewhere
    DEF OpenCheckpoint, SaveCheckpoint, Goto, TypeOK, HasFile, WorkShape
  <2>. QED
    BY <2>2, <2>3
<1>6. ASSUME NEW r \in Runs, WriteManifest(r) PROVE TypeOK' /\ WorkShape'
  <2>1. Report(r) \in Manifest
    BY <1>0, BoundsAssumption DEF Report, TypeOK, Manifest
  <2>2. manifests' \in [Second -> Manifest] /\ End(r)
    BY <1>0, <1>6, <2>1 DEF WriteManifest, TypeOK
  <2>3. TypeOK'
    BY <1>0, <1>6, <2>2, EndKeepsType DEF WriteManifest, TypeOK
  <2>4. WorkShape'
    BY <1>0, <1>6, <2>2, EndKeepsType, ShapeElsewhere DEF WriteManifest, HasFile
  <2>. QED
    BY <2>3, <2>4
<1>7. ASSUME NEW r \in Runs, Kill(r) PROVE TypeOK' /\ WorkShape'
  <2>1. /\ checkpoint' \in Checkpoint /\ faults' \in Nat /\ End(r)
        /\ manifests' \in [Second -> Manifest]
        /\ input' = input /\ clock' = clock
        /\ overlapped' = overlapped /\ reused' = reused
    <3>1. NoManifest \in Manifest
      BY BoundsAssumption DEF NoManifest, Manifest
    <3>2. manifests' \in [Second -> Manifest]
      BY <1>0, <1>7, <3>1 DEF Kill, TypeOK
    <3>3. checkpoint' \in Checkpoint
      BY <1>0, <1>7 DEF Kill, Torn, TypeOK, Checkpoint
    <3>. QED
      BY <1>0, <1>7, <3>2, <3>3 DEF Kill, TypeOK
  <2>2. outputs' \in [Second -> Output] /\ WorkShape'
    <3>1. CASE pc[r] = "writing"
      BY <1>7, <2>1, <3>1, <1>0, Died, EndKeepsType, ShapeWithFile DEF HasFile
    <3>2. CASE pc[r] # "writing"
      BY <1>0, <1>7, <2>1, <3>2, EndKeepsType, ShapeElsewhere
      DEF Kill, HasFile, TypeOK
    <3>. QED
      BY <3>1, <3>2
  <2>3. TypeOK'
    BY <1>0, <2>1, <2>2, EndKeepsType DEF TypeOK, WorkShape, HasFile
  <2>. QED
    BY <2>2, <2>3
<1>8. ASSUME NEW l \in Lines, Arrive(l) PROVE TypeOK' /\ WorkShape'
  <2>1. l \in Line /\ input \in Seq(Line) /\ <<l>> \in Seq(Line)
    BY <1>0, LinesAssumption DEF TypeOK
  <2>2. Append(input, l) \in Seq(Line) /\ <<l>> \o input \in Seq(Line)
    BY <2>1, ConcatProperties
  <2>3. input' \in Seq(Line)
    BY <1>8, <2>2 DEF Arrive
  <2>. QED
    BY <1>0, <1>8, <2>3 DEF Arrive, TypeOK, WorkShape, HasFile
<1>9. CASE Tick
  <2>1. clock' \in Second
    BY <1>0, <1>9, BoundsAssumption DEF Tick, TypeOK, Second
  <2>. QED
    BY <1>0, <1>9, <2>1 DEF Tick, TypeOK, WorkShape, HasFile
<1>10. CASE UNCHANGED vars
  BY <1>0, <1>10 DEF vars, TypeOK, WorkShape, HasFile
<1>. QED
  BY <1>1, <1>2, <1>3, <1>4, <1>5, <1>6, <1>7, <1>8, <1>9, <1>10, <1>11
  DEF Next, Step

-----------------------------------------------------------------------------
\* A step neither opens, fills nor abandons an output file.
LEMMA FilesAlone ==
  ASSUME Shape, [Next]_vars,
         \A r \in Runs : ~OpenOutput(r) /\ ~WriteOutput(r)
                          /\ ~(Kill(r) /\ pc[r] = "writing")
  PROVE  /\ outputs' = outputs /\ reused' = reused
         /\ \A r \in Runs : HasFile(r)' =>
              /\ HasFile(r) /\ label'[r] = label[r] /\ fresh'[r] = fresh[r]
              /\ pc'[r] = "writing" <=> pc[r] = "writing"
<1> USE DEF files, work
<1>0. TypeOK /\ WorkShape
  BY DEF Shape
<1> DEFINE Alike ==
      /\ outputs' = outputs /\ reused' = reused
      /\ \A r \in Runs : HasFile(r)' =>
           /\ HasFile(r) /\ label'[r] = label[r] /\ fresh'[r] = fresh[r]
           /\ pc'[r] = "writing" <=> pc[r] = "writing"
<1>1. ASSUME NEW r \in Runs, Load(r) PROVE Alike
  BY <1>0, <1>1 DEF Load, Goto, TypeOK, HasFile
<1>2. ASSUME NEW r \in Runs, Read(r) PROVE Alike
  BY <1>0, <1>2 DEF Read, Goto, TypeOK, HasFile
<1>3. ASSUME NEW r \in Runs, OpenCheckpoint(r) \/ SaveCheckpoint(r) PROVE Alike
  BY <1>0, <1>3 DEF OpenCheckpoint, SaveCheckpoint, Goto, TypeOK, HasFile
<1>4. ASSUME NEW r \in Runs,
             WriteManifest(r) \/ Kill(r) \/ ReadRaises(r) \/ SortRaises(r)
      PROVE  Alike
  <2>1. End(r) /\ outputs' = outputs /\ reused' = reused
    BY <1>4 DEF WriteManifest, Kill, ReadRaises, SortRaises
  <2>. QED
    BY <1>0, <2>1, EndKeepsType DEF HasFile
<1>5. CASE (\E l \in Lines : Arrive(l)) \/ Tick \/ UNCHANGED vars
  BY <1>5 DEF Arrive, Tick, vars, HasFile
<1>. QED
  BY <1>1, <1>2, <1>3, <1>4, <1>5 DEF Next, Step

\* While no file is opened twice, files only grow, and those that no run is
\* writing stay as they are.
LEMMA FilesGrow ==
  ASSUME Shape, OwnFiles, [Next]_vars, ~reused'
  PROVE  /\ ~reused
         /\ \A s \in Second :
              /\ outputs[s].ids \subseteq outputs'[s].ids
              /\ outputs[s].there => outputs'[s].there
              /\ outputs[s].there
                 /\ (\A r \in Runs : pc[r] = "writing" => label[r] # s)
                   => outputs'[s] = outputs[s]
<1>0. TypeOK /\ WorkShape
  BY DEF Shape
<1>1. ASSUME NEW r \in Runs, OpenOutput(r)
      PROVE  /\ ~reused /\ ~outputs[clock].there /\ outputs[clock].ids = {}
             /\ \A t \in Second : t # clock => outputs'[t] = outputs[t]
  BY <1>0, <1>1, Opened DEF OpenOutput, WorkShape, TypeOK
<1>2. ASSUME NEW r \in Runs, WriteOutput(r)
      PROVE  /\ ~reused /\ outputs[label[r]].ids = {} /\ outputs'[label[r]].there
             /\ \A t \in Second : t # label[r] => outputs'[t] = outputs[t]
  BY <1>2, Wrote DEF WriteOutput, OwnFiles
<1>3. ASSUME NEW r \in Runs, Kill(r), pc[r] = "writing"
      PROVE  /\ ~reused /\ outputs'[label[r]].there
             /\ outputs[label[r]].ids \subseteq outputs'[label[r]].ids
             /\ \A t \in Second : t # label[r] => outputs'[t] = outputs[t]
  BY <1>3, Died DEF Kill
<1>4. CASE outputs' = outputs /\ reused' = reused
  BY <1>4
<1>5. CASE \E r \in Runs : OpenOutput(r)
  BY <1>1, <1>5
<1>6. CASE \E r \in Runs : WriteOutput(r)
  <2>1. PICK r \in Runs : WriteOutput(r)
    BY <1>6
  <2>2. pc[r] = "writing"
    BY <2>1 DEF WriteOutput
  <2>. QED
    BY <1>2, <2>1, <2>2
<1>7. CASE \E r \in Runs : Kill(r) /\ pc[r] = "writing"
  BY <1>3, <1>7
<1>. QED
  BY <1>4, <1>5, <1>6, <1>7, FilesAlone

\* What has been written stays written, as long as no file is opened twice.
LEMMA WrittenGrows ==
  ASSUME Shape, OwnFiles, [Next]_vars, ~reused'
  PROVE  Written \subseteq Written'
  BY FilesGrow DEF Written

\* Every run keeps a file of its own.
LEMMA OwnFilesStep == Shape /\ OwnFiles /\ [Next]_vars => OwnFiles'
<1> SUFFICES ASSUME Shape, OwnFiles, [Next]_vars, ~reused' PROVE OwnFiles'
  BY DEF OwnFiles
<1>0. TypeOK /\ WorkShape /\ ~reused
  BY FilesGrow DEF Shape
<1>1. ASSUME NEW r \in Runs, OpenOutput(r) PROVE OwnFiles'
  <2>1. /\ ~outputs[clock].there /\ outputs'[clock].ids = {}
        /\ \A t \in Second : t # clock => outputs'[t] = outputs[t]
    BY <1>1, <1>0, Opened DEF OpenOutput
  <2>2. /\ pc'[r] = "writing" /\ label'[r] = clock /\ fresh' = fresh
        /\ \A q \in Runs : q # r => pc'[q] = pc[q] /\ label'[q] = label[q]
    BY <1>0, <1>1 DEF OpenOutput, Goto, TypeOK
  <2>3. \A q \in Runs : HasFile(q) => label[q] \in Second /\ label[q] # clock
    BY <1>0, <2>1 DEF WorkShape
  <2>. QED
    BY <1>0, <2>1, <2>2, <2>3 DEF OwnFiles, HasFile
<1>2. ASSUME NEW r \in Runs, WriteOutput(r) PROVE OwnFiles'
  <2>1. /\ outputs'[label[r]].ids = fresh[r]
        /\ \A t \in Second : t # label[r] => outputs'[t] = outputs[t]
    BY <1>0, <1>2, Wrote DEF WriteOutput, OwnFiles
  <2>2. /\ pc[r] = "writing" /\ pc'[r] = "truncating"
        /\ label' = label /\ fresh' = fresh
        /\ \A q \in Runs : q # r => pc'[q] = pc[q]
    BY <1>0, <1>2 DEF WriteOutput, Goto, TypeOK, work
  <2>3. \A q \in Runs : HasFile(q) => label[q] \in Second
    BY <1>0 DEF WorkShape
  <2>. QED
    BY <1>0, <2>1, <2>2, <2>3 DEF OwnFiles, HasFile
<1>3. ASSUME NEW r \in Runs, Kill(r), pc[r] = "writing" PROVE OwnFiles'
  <2>1. \A t \in Second : t # label[r] => outputs'[t] = outputs[t]
    BY <1>3, Died
  <2>2. /\ pc'[r] = "idle"
        /\ \A q \in Runs : q # r =>
             pc'[q] = pc[q] /\ fresh'[q] = fresh[q] /\ label'[q] = label[q]
    BY <1>0, <1>3, EndKeepsType DEF Kill
  <2>3. \A q \in Runs : HasFile(q) => label[q] \in Second
    BY <1>0 DEF WorkShape
  <2>. QED
    BY <1>0, <1>3, <2>1, <2>2, <2>3 DEF OwnFiles, HasFile
<1>4. CASE \A r \in Runs : ~OpenOutput(r) /\ ~WriteOutput(r)
                            /\ ~(Kill(r) /\ pc[r] = "writing")
  BY <1>0, <1>4, FilesAlone DEF OwnFiles, HasFile
<1>. QED
  BY <1>1, <1>2, <1>3, <1>4

\* Every id in the checkpoint, and every id a run took from it, is in an output
\* file: the checkpoint is saved after the file is written.
LEMMA LoadedStep ==
  Shape /\ OwnFiles /\ LoadedIsWritten /\ [Next]_vars => LoadedIsWritten'
<1> SUFFICES ASSUME Shape, OwnFiles, LoadedIsWritten, [Next]_vars, ~reused'
             PROVE  Loaded' \subseteq Written' /\ \A q \in Runs : loaded'[q] \subseteq Written'
  BY DEF LoadedIsWritten
<1> USE DEF files, work
<1>0. /\ TypeOK /\ WorkShape /\ ~reused /\ Written \subseteq Written'
      /\ Loaded \subseteq Written
      /\ \A q \in Runs : loaded[q] \subseteq Written
  BY FilesGrow, WrittenGrows DEF Shape, LoadedIsWritten
<1> HIDE DEF Written
<1>1. ASSUME NEW r \in Runs, Load(r)
      PROVE  Loaded' = Loaded
             /\ \A q \in Runs : loaded'[q] \in {loaded[q], Loaded}
  BY <1>0, <1>1 DEF Load, Loaded, TypeOK
<1>2. ASSUME NEW r \in Runs, SaveCheckpoint(r)
      PROVE  Loaded' \subseteq Written /\ loaded' = loaded
  <2>1. outputs[label[r]].ids = fresh[r] /\ label[r] \in Second
    BY <1>0, <1>2 DEF SaveCheckpoint, OwnFiles, WorkShape, HasFile
  <2>2. Recorded(r) \subseteq Written
    BY <1>0, <2>1 DEF Recorded, Written
  <2>. QED
    BY <1>2, <2>2 DEF SaveCheckpoint, Loaded, Torn
<1>3. ASSUME NEW r \in Runs, OpenCheckpoint(r)
      PROVE  Loaded' = {} /\ loaded' = loaded
  BY <1>3 DEF OpenCheckpoint, Loaded
<1>4. ASSUME NEW r \in Runs,
             WriteManifest(r) \/ Kill(r) \/ ReadRaises(r) \/ SortRaises(r)
      PROVE  Loaded' \in {Loaded, {}}
             /\ \A q \in Runs : loaded'[q] \in {loaded[q], {}}
  <2>1. End(r) /\ (checkpoint' = checkpoint \/ checkpoint' = Torn)
    BY <1>4 DEF WriteManifest, Kill, ReadRaises, SortRaises
  <2>. QED
    BY <1>0, <2>1, EndKeepsType DEF Loaded, Torn
<1>5. ASSUME \/ \E r \in Runs : Read(r) \/ OpenOutput(r) \/ WriteOutput(r)
             \/ \E l \in Lines : Arrive(l)
             \/ Tick
             \/ UNCHANGED vars
      PROVE  Loaded' = Loaded /\ loaded' = loaded
  BY <1>5 DEF Read, OpenOutput, WriteOutput, Arrive, Tick, vars, Loaded
<1>. QED
  BY <1>0, <1>1, <1>2, <1>3, <1>4, <1>5 DEF Next, Step

\* A run starts writing only to a file that was not there.
LEMMA NewWriters ==
  ASSUME Shape, [Next]_vars, ~reused', NEW q \in Runs, pc'[q] = "writing"
  PROVE  \/ pc[q] = "writing" /\ label'[q] = label[q]
         \/ label'[q] \in Second /\ ~outputs[label'[q]].there
<1>0. TypeOK /\ WorkShape
  BY DEF Shape
<1>1. ASSUME NEW r \in Runs, OpenOutput(r)
      PROVE  \/ pc[q] = "writing" /\ label'[q] = label[q]
             \/ label'[q] \in Second /\ ~outputs[label'[q]].there
  BY <1>0, <1>1 DEF OpenOutput, Goto, TypeOK
<1>2. ASSUME NEW r \in Runs, WriteOutput(r)
      PROVE  pc[q] = "writing" /\ label'[q] = label[q]
  BY <1>0, <1>2 DEF WriteOutput, Goto, TypeOK, work
<1>3. ASSUME NEW r \in Runs, Kill(r)
      PROVE  pc[q] = "writing" /\ label'[q] = label[q]
  BY <1>0, <1>3, EndKeepsType DEF Kill
<1>4. CASE \A r \in Runs : ~OpenOutput(r) /\ ~WriteOutput(r) /\ ~Kill(r)
  BY <1>4, FilesAlone DEF HasFile
<1>. QED
  BY <1>1, <1>2, <1>3, <1>4

\* A manifest is written after its file, and nobody writes to the file again.
LEMMA ManifestsStep ==
  Shape /\ OwnFiles /\ ManifestsSettled /\ [Next]_vars => ManifestsSettled'
<1> SUFFICES ASSUME Shape, OwnFiles, ManifestsSettled, [Next]_vars, ~reused',
                    NEW s \in Second, manifests'[s].output # 0
             PROVE  /\ outputs'[manifests'[s].output].there
                    /\ outputs'[manifests'[s].output].ids = manifests'[s].rows
                    /\ \A q \in Runs :
                         pc'[q] = "writing" => label'[q] # manifests'[s].output
  BY DEF ManifestsSettled
<1> USE DEF files, work
<1>0. TypeOK /\ WorkShape /\ ~reused
  BY FilesGrow DEF Shape
<1>1. CASE manifests'[s] = manifests[s]
  <2> DEFINE f == manifests[s].output
  <2>1. /\ f \in Second
        /\ outputs[f].there /\ outputs[f].ids = manifests[s].rows
        /\ \A r \in Runs : pc[r] = "writing" => label[r] # f
    BY <1>0, <1>1, BoundsAssumption DEF ManifestsSettled, TypeOK, Manifest, Second
  <2>2. outputs'[f] = outputs[f]
    BY <2>1, FilesGrow
  <2>3. \A q \in Runs : pc'[q] = "writing" => label'[q] # f
    BY <2>1, NewWriters
  <2>. QED
    BY <1>1, <2>1, <2>2, <2>3
<1>2. ASSUME NEW r \in Runs, WriteManifest(r), manifests'[s] # manifests[s]
      PROVE  /\ outputs'[manifests'[s].output].there
             /\ outputs'[manifests'[s].output].ids = manifests'[s].rows
             /\ \A q \in Runs :
                  pc'[q] = "writing" => label'[q] # manifests'[s].output
  <2>1. /\ manifests'[s] = Report(r) /\ outputs' = outputs
        /\ pc[r] = "reporting" /\ End(r)
    BY <1>0, <1>2 DEF WriteManifest, TypeOK
  <2>2. /\ fresh[r] # {} /\ Report(r).output = label[r] /\ Report(r).rows = fresh[r]
    BY <2>1 DEF Report
  <2>3. /\ HasFile(r) /\ outputs[label[r]].there
        /\ outputs[label[r]].ids = fresh[r]
    BY <1>0, <2>1, <2>2 DEF HasFile, WorkShape, OwnFiles
  <2>4. ASSUME NEW q \in Runs, pc'[q] = "writing" PROVE label'[q] # label[r]
    <3>1. q # r /\ pc[q] = "writing" /\ label'[q] = label[q]
      BY <1>0, <2>1, <2>4, EndKeepsType
    <3>. QED
      BY <1>0, <2>3, <3>1 DEF OwnFiles, HasFile
  <2>. QED
    BY <2>1, <2>2, <2>3, <2>4
<1>3. \/ manifests' = manifests
      \/ manifests' = [manifests EXCEPT ![clock] = NoManifest]
      \/ \E r \in Runs : WriteManifest(r)
  BY DEF Next, Step, Load, Read, ReadRaises, OpenOutput, WriteOutput,
         OpenCheckpoint, SortRaises, SaveCheckpoint, Kill, Arrive, Tick, vars
<1>4. CASE manifests' = [manifests EXCEPT ![clock] = NoManifest]
  <2>1. manifests'[s] = manifests[s] \/ manifests'[s] = NoManifest
    BY <1>0, <1>4 DEF TypeOK
  <2>. QED
    BY <1>1, <2>1 DEF NoManifest
<1>. QED
  BY <1>1, <1>2, <1>3, <1>4

LEMMA Invariance == Spec => []IInv
<1>1. Init => IInv
  <2>1. Init => OwnFiles
    BY DEF Init, OwnFiles, HasFile
  <2>2. Init => LoadedIsWritten
    BY DEF Init, LoadedIsWritten, Loaded, Written
  <2>3. Init => ManifestsSettled
    BY DEF Init, ManifestsSettled, NoManifest
  <2>. QED
    BY <2>1, <2>2, <2>3, ShapeInit DEF IInv
<1>2. IInv /\ [Next]_vars => IInv'
  BY ShapeStep, OwnFilesStep, LoadedStep, ManifestsStep DEF IInv
<1>. QED
  BY <1>1, <1>2, PTL DEF Spec

-----------------------------------------------------------------------------
\* Every variable keeps its type; what a run is about to write was not in the
\* checkpoint it loaded.
THEOREM TypeCorrect == Spec => []TypeOK
<1>1. IInv => TypeOK
  BY DEF IInv, Shape
<1>. QED
  BY <1>1, Invariance, PTL

\* An event that the checkpoint makes later runs skip has been written,
\* whatever crashes, tears or overlaps, unless a file name is used twice.
THEOREM SkippedWasWritten == Spec => []SkippedIsWritten
<1>1. IInv => SkippedIsWritten
  BY DEF IInv, LoadedIsWritten, SkippedIsWritten
<1>. QED
  BY <1>1, Invariance, PTL

\* A manifest is right about the output file it names for good, unless a file
\* name is used twice.
THEOREM ManifestStaysTrue == Spec => []ManifestIsTrue
<1>1. IInv => ManifestIsTrue
  BY DEF IInv, ManifestsSettled, ManifestIsTrue
<1>. QED
  BY <1>1, Invariance, PTL

-----------------------------------------------------------------------------
\* The output files an event is in.
Copies(id) == {s \in Second : id \in outputs[s].ids}

\* What the next checkpoint will make later runs skip.
Skipped ==
  Loaded \cup UNION {Recorded(r) : r \in {x \in Runs : pc[x] \in {"truncating", "saving"}}}

\* A run that is alone fills an empty file and finds the checkpoint as it left
\* it.
LoneRun ==
  ~overlapped =>
    /\ \A r, q \in Runs : r # q => ~Busy(r) \/ ~Busy(q)
    /\ \A r \in Runs :
         /\ pc[r] \in {"reading", "opening", "writing", "truncating"} =>
              loaded[r] = Loaded
         /\ pc[r] = "writing" => outputs[label[r]].ids = {}
         /\ pc[r] = "saving" => checkpoint.state = "empty"

\* Among runs that do not overlap, an event that will not be skipped has at most
\* one copy for each fault, and one that will be has at most one more.
CopiesBounded ==
  ~overlapped /\ OneType => \A id \in Ids :
    /\ Cardinality(Copies(id)) <= 1 + faults
    /\ id \notin Skipped => Cardinality(Copies(id)) <= faults

LEMMA CopiesFinite ==
  ASSUME NEW id
  PROVE  IsFiniteSet(Copies(id)) /\ Cardinality(Copies(id)) \in Nat
<1>1. IsFiniteSet(Second)
  BY BoundsAssumption, FS_Interval DEF Second
<1>2. Copies(id) \subseteq Second
  BY DEF Copies
<1>. QED
  BY <1>1, <1>2, FS_Subset, FS_CardinalityType

\* One more file is at most one more copy, and no more files no more copies.
LEMMA CopiesCounted ==
  ASSUME NEW id, NEW s
  PROVE  /\ Copies(id)' \subseteq Copies(id) =>
              Cardinality(Copies(id)') <= Cardinality(Copies(id))
         /\ Copies(id)' \subseteq Copies(id) \cup {s} =>
              Cardinality(Copies(id)') <= Cardinality(Copies(id)) + 1
         /\ Cardinality(Copies(id)') \in Nat
<1>1. /\ IsFiniteSet(Copies(id)) /\ Cardinality(Copies(id)) \in Nat
      /\ IsFiniteSet(Copies(id)') /\ Cardinality(Copies(id)') \in Nat
  <2>1. IsFiniteSet(Second)
    BY BoundsAssumption, FS_Interval DEF Second
  <2>2. Copies(id)' \subseteq Second
    BY DEF Copies, Second
  <2>. QED
    BY <2>1, <2>2, CopiesFinite, FS_Subset, FS_CardinalityType
<1>2. /\ IsFiniteSet(Copies(id) \cup {s})
      /\ Cardinality(Copies(id) \cup {s}) \in Nat
      /\ Cardinality(Copies(id) \cup {s}) <= Cardinality(Copies(id)) + 1
  BY <1>1, FS_AddElement
<1>3. Copies(id)' \subseteq Copies(id) =>
        Cardinality(Copies(id)') <= Cardinality(Copies(id))
  BY <1>1, FS_Subset
<1>4. Copies(id)' \subseteq Copies(id) \cup {s} =>
        Cardinality(Copies(id)') <= Cardinality(Copies(id) \cup {s})
  BY <1>2, FS_Subset
<1>. QED
  BY <1>1, <1>2, <1>3, <1>4

LEMMA LoneRunStep == Shape /\ LoneRun /\ [Next]_vars => LoneRun'
<1> SUFFICES ASSUME Shape, LoneRun, [Next]_vars, ~overlapped' PROVE LoneRun'
  BY DEF LoneRun
<1> USE DEF files, work
<1>0. TypeOK /\ WorkShape
  BY DEF Shape
<1>1. ASSUME NEW r \in Runs, Load(r) PROVE LoneRun'
  BY <1>0, <1>1 DEF Load, Goto, Alone, Busy, LoneRun, TypeOK, Loaded
<1>2. ASSUME NEW r \in Runs, Read(r) PROVE LoneRun'
  BY <1>0, <1>2 DEF Read, Goto, Busy, LoneRun, TypeOK, Loaded
<1>3. ASSUME NEW r \in Runs, OpenOutput(r) PROVE LoneRun'
  <2>1. outputs'[clock].ids = {} /\ label'[r] = clock
    BY <1>0, <1>3, Opened DEF OpenOutput, TypeOK
  <2>. QED
    BY <1>0, <1>3, <2>1 DEF OpenOutput, Goto, Busy, LoneRun, TypeOK, Loaded
<1>4. ASSUME NEW r \in Runs, WriteOutput(r) \/ OpenCheckpoint(r) \/ SaveCheckpoint(r)
      PROVE  LoneRun'
  <2>1. /\ ~overlapped /\ Busy(r) /\ loaded' = loaded
        /\ \A q \in Runs : q # r => pc'[q] = pc[q] /\ pc[q] = "idle"
    BY <1>0, <1>4
    DEF WriteOutput, OpenCheckpoint, SaveCheckpoint, Goto, Busy, LoneRun, TypeOK
  <2>2. CASE WriteOutput(r)
    <3>1. pc'[r] = "truncating" /\ Loaded' = Loaded /\ loaded[r] = Loaded
      BY <1>0, <2>1, <2>2 DEF WriteOutput, Goto, LoneRun, TypeOK, Loaded
    <3>. QED
      BY <2>1, <3>1 DEF LoneRun, Busy
  <2>3. CASE OpenCheckpoint(r)
    <3>1. pc'[r] = "saving" /\ checkpoint'.state = "empty"
      BY <1>0, <2>3 DEF OpenCheckpoint, Goto, TypeOK
    <3>. QED
      BY <2>1, <3>1 DEF LoneRun, Busy
  <2>4. CASE SaveCheckpoint(r)
    <3>1. pc'[r] = "reporting"
      BY <1>0, <2>4 DEF SaveCheckpoint, Goto, TypeOK
    <3>. QED
      BY <2>1, <3>1 DEF LoneRun, Busy
  <2>. QED
    BY <1>4, <2>2, <2>3, <2>4
<1>5. ASSUME NEW r \in Runs,
             WriteManifest(r) \/ Kill(r) \/ ReadRaises(r) \/ SortRaises(r)
      PROVE  LoneRun'
  <2>1. End(r) /\ Busy(r) /\ ~overlapped
    BY <1>5 DEF WriteManifest, Kill, ReadRaises, SortRaises, Busy
  <2>2. /\ pc'[r] = "idle"
        /\ \A q \in Runs : q # r => pc'[q] = pc[q] /\ pc[q] = "idle"
    BY <1>0, <2>1, EndKeepsType DEF LoneRun, Busy
  <2>. QED
    BY <2>2 DEF LoneRun, Busy
<1>6. CASE (\E l \in Lines : Arrive(l)) \/ Tick \/ UNCHANGED vars
  BY <1>6 DEF Arrive, Tick, vars, LoneRun, Busy, Loaded
<1>. QED
  BY <1>1, <1>2, <1>3, <1>4, <1>5, <1>6 DEF Next, Step

\* What runs and the checkpoint hold are ids of lines that were accepted.
FitOnly ==
  Loaded \subseteq FitIds
  /\ \A r \in Runs : loaded[r] \subseteq FitIds /\ fresh[r] \subseteq FitIds

\* The input only grows, and so does what was accepted in it.
LEMMA FitGrows ==
  ASSUME TypeOK, [Next]_vars
  PROVE  FitIds \subseteq FitIds' /\ (OneType' => OneType)
<1>1. ASSUME input' = input PROVE FitIds \subseteq FitIds'
  BY <1>1 DEF FitIds
<1>2. ASSUME NEW l \in Lines, Arrive(l) PROVE FitIds \subseteq FitIds'
  <2>1. input \in Seq(Line) /\ l \in Line /\ <<l>> \in Seq(Line)
    BY LinesAssumption DEF TypeOK
  <2>2. /\ Len(input) \in Nat
        /\ DOMAIN input = 1 .. Len(input)
    BY <2>1
  <2>3. CASE input' = Append(input, l)
    <3>1. \A i \in DOMAIN input : i \in DOMAIN input' /\ input'[i] = input[i]
      BY <2>1, <2>2, <2>3
    <3>. QED
      BY <3>1 DEF FitIds
  <2>4. CASE input' = <<l>> \o input
    <3>1. \A i \in DOMAIN input : i + 1 \in DOMAIN input' /\ input'[i + 1] = input[i]
      BY <2>1, <2>2, <2>4
    <3>. QED
      BY <3>1 DEF FitIds
  <2>. QED
    BY <1>2, <2>3, <2>4 DEF Arrive
<1>3. input' = input \/ \E l \in Lines : Arrive(l)
  BY DEF Next, Step, Load, Read, ReadRaises, OpenOutput, WriteOutput,
         OpenCheckpoint, SortRaises, SaveCheckpoint, WriteManifest, Kill, Tick, vars
<1>4. FitIds \subseteq FitIds'
  BY <1>1, <1>2, <1>3
<1>. QED
  BY <1>4 DEF OneType, Sortable

\* Runs take ids from the checkpoint and from accepted lines, and from nowhere else.
LEMMA FitOnlyStep == Shape /\ FitOnly /\ [Next]_vars => FitOnly'
<1> SUFFICES ASSUME Shape, FitOnly, [Next]_vars PROVE FitOnly'
  OBVIOUS
<1> USE DEF files, work
<1>0. TypeOK /\ FitIds \subseteq FitIds'
  BY FitGrows DEF Shape
<1> HIDE DEF FitIds
<1> DEFINE Held == Loaded' \subseteq FitIds
                   /\ \A q \in Runs : loaded'[q] \subseteq FitIds /\ fresh'[q] \subseteq FitIds
<1>1. ASSUME NEW r \in Runs, Load(r) PROVE Held
  BY <1>0, <1>1 DEF Load, Loaded, FitOnly, TypeOK
<1>2. ASSUME NEW r \in Runs, Read(r) PROVE Held
  <2>1. Selected(r) \subseteq FitIds
    BY <1>0, SelectedIsNew
  <2>. QED
    BY <1>0, <1>2, <2>1 DEF Read, Loaded, FitOnly, TypeOK
<1>3. ASSUME NEW r \in Runs, OpenCheckpoint(r) \/ SaveCheckpoint(r) PROVE Held
  BY <1>3 DEF OpenCheckpoint, SaveCheckpoint, Recorded, Torn, Loaded, FitOnly
<1>4. ASSUME NEW r \in Runs,
             WriteManifest(r) \/ Kill(r) \/ ReadRaises(r) \/ SortRaises(r)
      PROVE  Held
  <2>1. End(r) /\ (checkpoint' = checkpoint \/ checkpoint' = Torn)
    BY <1>4 DEF WriteManifest, Kill, ReadRaises, SortRaises
  <2>. QED
    BY <1>0, <2>1, EndKeepsType DEF Loaded, Torn, FitOnly
<1>5. ASSUME \/ \E r \in Runs : OpenOutput(r) \/ WriteOutput(r)
             \/ \E l \in Lines : Arrive(l)
             \/ Tick
             \/ UNCHANGED vars
      PROVE  Held
  BY <1>5 DEF OpenOutput, WriteOutput, Arrive, Tick, vars, Loaded, FitOnly
<1>6. Held
  BY <1>1, <1>2, <1>3, <1>4, <1>5 DEF Next, Step
<1>. QED
  BY <1>0, <1>6 DEF FitOnly

\* The only run that is under way is the only one that may be saving.
LEMMA SkippedAlone ==
  ASSUME LoneRun, ~overlapped, NEW r \in Runs, Busy(r)
  PROVE  Skipped = IF pc[r] \in {"truncating", "saving"}
                   THEN Loaded \cup Recorded(r) ELSE Loaded
  BY DEF LoneRun, Busy, Skipped

\* A step that makes no copy and forgets nothing.
LEMMA BoundOn ==
  ASSUME Shape, CopiesBounded, ~overlapped, OneType, faults' = faults,
         \A id \in Ids : Copies(id)' \subseteq Copies(id),
         Skipped \subseteq Skipped'
  PROVE  CopiesBounded'
<1> SUFFICES ASSUME NEW id \in Ids
             PROVE  /\ Cardinality(Copies(id)') <= 1 + faults'
                    /\ id \notin Skipped' => Cardinality(Copies(id)') <= faults'
  BY DEF CopiesBounded
<1>1. /\ Cardinality(Copies(id)') <= Cardinality(Copies(id))
      /\ Cardinality(Copies(id)') \in Nat /\ Cardinality(Copies(id)) \in Nat
  BY CopiesCounted, CopiesFinite
<1>2. /\ Cardinality(Copies(id)) <= 1 + faults
      /\ id \notin Skipped => Cardinality(Copies(id)) <= faults
  BY DEF CopiesBounded
<1>. QED
  BY <1>1, <1>2 DEF Shape, TypeOK

LEMMA CopiesStep ==
  Shape /\ LoneRun /\ FitOnly /\ CopiesBounded /\ [Next]_vars => CopiesBounded'
<1> SUFFICES ASSUME Shape, LoneRun, FitOnly, CopiesBounded, [Next]_vars,
                    ~overlapped', OneType'
             PROVE  CopiesBounded'
  BY DEF CopiesBounded
<1> USE DEF files, work
<1>0. TypeOK /\ WorkShape /\ LoneRun' /\ faults \in Nat /\ OneType
  BY LoneRunStep, FitGrows DEF Shape, TypeOK
<1>1. ASSUME NEW r \in Runs, Load(r) \/ Read(r) PROVE CopiesBounded'
  <2>1. /\ ~overlapped /\ outputs' = outputs /\ faults' = faults
        /\ Loaded' = Loaded /\ Busy(r)'
        /\ pc'[r] \in {"reading", "opening", "reporting"}
        /\ \A q \in Runs : q # r => pc'[q] = pc[q]
    BY <1>0, <1>1 DEF Load, Read, Goto, TypeOK, Loaded, Busy
  <2>2. pc[r] \in {"idle", "reading"}
    BY <1>1 DEF Load, Read
  <2>3. Skipped = Loaded
    BY <1>0, <2>1, <2>2 DEF LoneRun, Busy, Skipped
  <2>4. Skipped \subseteq Skipped'
    BY <2>1, <2>3 DEF Skipped
  <2>. QED
    BY <2>1, <2>4, <1>0, BoundOn DEF Copies
<1>2. ASSUME NEW r \in Runs, OpenOutput(r) PROVE CopiesBounded'
  <2>1. \A id \in Ids : Copies(id)' \subseteq Copies(id)
    BY <1>2, Opened DEF Copies
  <2>2. /\ ~overlapped /\ Busy(r) /\ pc[r] = "opening"
        /\ Loaded' = Loaded /\ faults' = faults
    BY <1>2 DEF OpenOutput, Busy, Loaded
  <2>3. Skipped = Loaded
    BY <2>2, SkippedAlone
  <2>4. Skipped \subseteq Skipped'
    BY <2>2, <2>3 DEF Skipped
  <2>. QED
    BY <2>1, <2>2, <2>4, <1>0, BoundOn
<1>3. ASSUME NEW r \in Runs, WriteOutput(r) PROVE CopiesBounded'
  <2>1. /\ ~overlapped /\ Busy(r) /\ pc[r] = "writing" /\ pc'[r] = "truncating"
        /\ Loaded' = Loaded /\ faults' = faults
        /\ loaded' = loaded /\ fresh' = fresh /\ loaded[r] = Loaded
    BY <1>0, <1>3 DEF WriteOutput, Goto, TypeOK, Busy, Loaded, LoneRun
  <2>2. Skipped = Loaded
    BY <2>1, SkippedAlone
  <2>3. Recorded(r) \subseteq Skipped' /\ Loaded \subseteq Skipped'
    BY <2>1 DEF Skipped, Recorded
  <2>4. /\ outputs'[label[r]].ids = fresh[r]
        /\ \A t \in Second : t # label[r] => outputs'[t] = outputs[t]
    BY <1>0, <1>3, <2>1, Wrote DEF LoneRun
  <2>5. ASSUME NEW id \in Ids
        PROVE  /\ Cardinality(Copies(id)') <= 1 + faults
               /\ id \notin Skipped' => Cardinality(Copies(id)') <= faults
    <3>1. CASE id \in fresh[r]
      <4>1. id \notin Skipped /\ id \in Skipped'
        BY <1>0, <2>1, <2>2, <2>3, <3>1 DEF TypeOK, Recorded
      <4>2. Cardinality(Copies(id)) <= faults
        BY <1>0, <2>1, <4>1 DEF CopiesBounded
      <4>3. Copies(id)' \subseteq Copies(id) \cup {label[r]}
        BY <2>4 DEF Copies
      <4>4. Cardinality(Copies(id)') <= Cardinality(Copies(id)) + 1
        BY <4>3, CopiesCounted
      <4>. QED
        BY <1>0, <4>1, <4>2, <4>4, CopiesCounted, CopiesFinite
    <3>2. CASE id \notin fresh[r]
      <4>1. Copies(id)' \subseteq Copies(id)
        BY <2>4, <3>2 DEF Copies
      <4>2. /\ Cardinality(Copies(id)') <= Cardinality(Copies(id))
            /\ Cardinality(Copies(id)') \in Nat /\ Cardinality(Copies(id)) \in Nat
        BY <4>1, CopiesCounted, CopiesFinite
      <4>3. /\ Cardinality(Copies(id)) <= 1 + faults
            /\ id \notin Skipped' => Cardinality(Copies(id)) <= faults
        BY <1>0, <2>1, <2>2, <2>3 DEF CopiesBounded
      <4>. QED
        BY <1>0, <4>2, <4>3
    <3>. QED
      BY <3>1, <3>2
  <2>. QED
    BY <2>1, <2>5 DEF CopiesBounded
<1>4. ASSUME NEW r \in Runs, OpenCheckpoint(r) PROVE CopiesBounded'
  <2>1. /\ ~overlapped /\ Busy(r) /\ pc[r] = "truncating" /\ pc'[r] = "saving"
        /\ outputs' = outputs /\ faults' = faults
        /\ loaded' = loaded /\ fresh' = fresh /\ loaded[r] = Loaded
    BY <1>0, <1>4 DEF OpenCheckpoint, Goto, TypeOK, Busy, LoneRun
  <2>2. Skipped = Recorded(r)
    BY <2>1, SkippedAlone DEF Recorded
  <2>3. Skipped \subseteq Skipped'
    BY <2>1, <2>2 DEF Skipped, Recorded
  <2>. QED
    BY <2>1, <2>3, <1>0, BoundOn DEF Copies
<1>5. ASSUME NEW r \in Runs, SaveCheckpoint(r) PROVE CopiesBounded'
  <2>1. /\ ~overlapped /\ Busy(r) /\ pc[r] = "saving" /\ checkpoint.state = "empty"
        /\ outputs' = outputs /\ faults' = faults
    BY <1>0, <1>5 DEF SaveCheckpoint, Busy, LoneRun
  <2>2. Loaded = {} /\ Loaded' = Recorded(r)
    BY <1>5, <2>1 DEF SaveCheckpoint, Loaded
  <2>3. Skipped = Recorded(r)
    BY <2>1, <2>2, SkippedAlone
  <2>4. Skipped \subseteq Skipped'
    BY <2>2, <2>3 DEF Skipped
  <2>. QED
    BY <2>1, <2>4, <1>0, BoundOn DEF Copies
<1>6. ASSUME NEW r \in Runs, WriteManifest(r) \/ ReadRaises(r)
      PROVE  CopiesBounded'
  <2>1. /\ ~overlapped /\ Busy(r) /\ pc[r] \in {"reporting", "reading"}
        /\ outputs' = outputs /\ faults' = faults /\ Loaded' = Loaded
    BY <1>6 DEF WriteManifest, ReadRaises, Busy, Loaded
  <2>2. Skipped = Loaded
    BY <2>1, SkippedAlone
  <2>3. Skipped \subseteq Skipped'
    BY <2>1, <2>2 DEF Skipped
  <2>. QED
    BY <2>1, <2>3, <1>0, BoundOn DEF Copies
<1>7. ASSUME NEW r \in Runs, Kill(r) PROVE CopiesBounded'
  <2>1. ~overlapped /\ Busy(r) /\ faults' = faults + 1
    BY <1>7 DEF Kill
  <2>2. ASSUME NEW id \in Ids PROVE Cardinality(Copies(id)') <= faults + 1
    <3>1. CASE Copies(id)' \subseteq Copies(id)
      <4>1. Cardinality(Copies(id)) <= 1 + faults
        BY <1>0, <2>1 DEF CopiesBounded
      <4>. QED
        BY <1>0, <3>1, <4>1, CopiesCounted, CopiesFinite
    <3>2. CASE ~(Copies(id)' \subseteq Copies(id))
      <4>1. pc[r] = "writing"
        BY <1>7, <3>2 DEF Kill, Copies
      <4>2. PICK ids \in SUBSET fresh[r] :
              outputs' = [outputs EXCEPT ![label[r]].ids = @ \cup ids]
        BY <1>7, <4>1 DEF Kill
      <4>3. /\ label[r] \in Second
            /\ \A t \in Second : t # label[r] => outputs'[t] = outputs[t]
            /\ outputs'[label[r]].ids = outputs[label[r]].ids \cup ids
        BY <1>0, <1>7, <4>1, <4>2, Died DEF TypeOK, Output
      <4>4. id \in fresh[r]
        BY <3>2, <4>3 DEF Copies
      <4>5. Skipped = Loaded /\ loaded[r] = Loaded
        BY <2>1, <4>1, SkippedAlone DEF LoneRun
      <4>6. id \notin Skipped
        BY <1>0, <4>4, <4>5 DEF TypeOK
      <4>7. Cardinality(Copies(id)) <= faults
        BY <1>0, <2>1, <4>6 DEF CopiesBounded
      <4>8. Copies(id)' \subseteq Copies(id) \cup {label[r]}
        BY <4>3 DEF Copies
      <4>9. Cardinality(Copies(id)') <= Cardinality(Copies(id)) + 1
        BY <4>8, CopiesCounted
      <4>. QED
        BY <1>0, <4>7, <4>9, CopiesCounted, CopiesFinite
    <3>. QED
      BY <3>1, <3>2
  <2>3. \A id \in Ids : Cardinality(Copies(id)') \in Nat
    BY CopiesCounted
  <2>. QED
    BY <1>0, <2>1, <2>2, <2>3 DEF CopiesBounded
<1>8. CASE (\E l \in Lines : Arrive(l)) \/ Tick \/ UNCHANGED vars
  <2>1. /\ outputs' = outputs /\ faults' = faults /\ overlapped' = overlapped
        /\ pc' = pc /\ loaded' = loaded /\ fresh' = fresh
        /\ checkpoint' = checkpoint
    BY <1>8 DEF Arrive, Tick, vars
  <2>2. Skipped \subseteq Skipped'
    BY <2>1 DEF Skipped, Recorded, Loaded
  <2>3. ~overlapped
    BY <2>1
  <2>. QED
    BY <2>1, <2>2, <2>3, <1>0, BoundOn DEF Copies
<1>9. ASSUME NEW r \in Runs PROVE ~SortRaises(r)
  <2>1. Recorded(r) \subseteq FitIds
    BY DEF FitOnly, Recorded
  <2>. QED
    BY <1>0, <2>1 DEF SortRaises, OneType, Sortable
<1>. QED
  BY <1>1, <1>2, <1>3, <1>4, <1>5, <1>6, <1>7, <1>8, <1>9 DEF Next, Step

\* Runs that do not overlap write an event again only after a fault, and at most
\* once for each: what died before the checkpoint was saved.  Ids of one type are
\* always saved, because the checkpoint holds accepted ids only.
THEOREM DuplicatesBounded == Spec => []DuplicatesNeedFaults
<1>1. Init => LoneRun
  BY DEF Init, LoneRun, Busy
<1>2. Init => CopiesBounded
  <2>1. ASSUME Init PROVE \A id \in Ids : Cardinality(Copies(id)) = 0 /\ faults = 0
    <3>1. \A id \in Ids : Copies(id) = {}
      BY <2>1 DEF Init, Copies
    <3>. QED
      BY <2>1, <3>1, FS_EmptySet DEF Init
  <2>. QED
    BY <2>1 DEF CopiesBounded
<1>3. CopiesBounded => DuplicatesNeedFaults
  BY DEF CopiesBounded, DuplicatesNeedFaults, Copies
<1>4. IInv => Shape
  BY DEF IInv
<1>5. Init => FitOnly
  BY DEF Init, FitOnly, Loaded
<1>. QED
  BY <1>1, <1>2, <1>3, <1>4, <1>5, Invariance, LoneRunStep, FitOnlyStep, CopiesStep,
     PTL DEF Spec
=============================================================================
