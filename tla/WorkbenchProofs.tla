-------------------------- MODULE WorkbenchProofs --------------------------
(***************************************************************************)
(* What holds of Workbench for any folders, binaries, bounds and habits: its *)
(* types, that UI and project agree on the active file and that the open     *)
(* program is never lost; and, for a user who opens no other file during an  *)
(* analysis, that the program is in one place.                               *)
(***************************************************************************)
EXTENDS Workbench, SequenceTheorems, TLAPS

-----------------------------------------------------------------------------
(* Lemmas about the store *)

\* What is on disk is in range.
LEMMA Stored ==
  ASSUME StoreTypeOK, NEW d \in Dirs, NEW id \in Ids
  PROVE  /\ meta[d] \in Metas \cup {None, Torn}
         /\ imports[d][id] \in Bins \cup {None}
         /\ results[d][id] \in Programs \cup {None, Torn}
  BY DEF StoreTypeOK

\* A copy that loads with what is saved for it gives a program.
LEMMA LoadedType ==
  ASSUME NEW copy, NEW saved \in Programs \cup {None, Torn}, Loads(copy, saved)
  PROVE  Loaded(copy, saved) \in Programs
  BY BinAssumption DEF Loads, Loaded, Programs

\* A project read is one.
LEMMA OpenType ==
  ASSUME StoreTypeOK, NEW d \in Dirs, Readable(d)
  PROVE  Open(d) \in Projects /\ meta[d] \in Metas
  BY DEF StoreTypeOK, Readable, Open, Metas, Projects

\* A file imported is listed, and is the active one.
LEMMA ImportType ==
  ASSUME NEW p \in Projects, NEW id \in Ids
  PROVE  /\ ImportFile(p, id) \in Projects
         /\ ImportFile(p, id).root = p.root
         /\ ImportFile(p, id).active_id = id
         /\ Listed(ImportFile(p, id), id)
<1> DEFINE q == ImportFile(p, id)
<1>1. p.files \in Seq(Ids)
  BY DEF Projects
<1>a. Append(p.files, id) \in Seq(Ids)
  BY <1>1, AppendProperties
<1>2. q.files = Append(p.files, id) /\ q.active_id = id /\ q.root = p.root /\ q \in Projects
  BY <1>a DEF ImportFile, Projects
<1>3. Len(p.files) + 1 \in DOMAIN q.files /\ q.files[Len(p.files) + 1] = id
  BY <1>1, <1>2, AppendProperties
<1> QED
  BY <1>2, <1>3 DEF Listed, ToSet

\* What is left of a list without one of its positions.
LEMMA RemoveAtElements ==
  ASSUME NEW s \in Seq(Ids), NEW i \in DOMAIN s
  PROVE  /\ RemoveAt(s, i) \in Seq(Ids)
         /\ \A id \in ToSet(s) : id # s[i] => id \in ToSet(RemoveAt(s, i))
<1> DEFINE left == SubSeq(s, 1, i - 1)
           right == SubSeq(s, i + 1, Len(s))
           rest == RemoveAt(s, i)
<1>0. i \in 1 .. Len(s) /\ Len(s) \in Nat
  OBVIOUS
<1>1. left \in Seq(Ids) /\ Len(left) = i - 1 /\ \A k \in 1 .. i - 1 : left[k] = s[k]
  BY <1>0, SubSeqProperties
<1>2. right \in Seq(Ids) /\ Len(right) = Len(s) - i /\ \A k \in 1 .. Len(s) - i : right[k] = s[i + k]
  BY <1>0, SubSeqProperties
<1>a. rest = left \o right
  BY DEF RemoveAt
<1> HIDE DEF left, right, rest
<1>b. /\ rest \in Seq(Ids) /\ Len(rest) = Len(left) + Len(right)
      /\ \A k \in 1 .. Len(left) + Len(right) :
           rest[k] = IF k <= Len(left) THEN left[k] ELSE right[k - Len(left)]
  BY <1>1, <1>2, <1>a, ConcatProperties
<1>3. rest \in Seq(Ids) /\ Len(rest) = Len(s) - 1
  BY <1>0, <1>1, <1>2, <1>b
<1>4. ASSUME NEW k \in 1 .. Len(s), k # i
      PROVE  \E j \in DOMAIN rest : rest[j] = s[k]
  <2>1. CASE k < i
    <3>1. k \in DOMAIN rest /\ rest[k] = left[k]
      BY <1>0, <1>1, <1>3, <1>b, <2>1
    <3> QED
      BY <1>0, <1>1, <2>1, <3>1
  <2>2. CASE k > i
    <3>0. k - 1 \in 1 .. Len(s) - 1 /\ ~(k - 1 <= i - 1)
          /\ Len(left) + Len(right) = Len(s) - 1 /\ Len(left) = i - 1
      BY <1>0, <1>1, <1>2, <2>2
    <3>1. k - 1 \in DOMAIN rest /\ rest[k - 1] = right[(k - 1) - (i - 1)]
      <4>1. rest[k - 1] = IF k - 1 <= Len(left) THEN left[k - 1] ELSE right[k - 1 - Len(left)]
        BY <1>b, <3>0
      <4>2. DOMAIN rest = 1 .. Len(s) - 1
        BY <1>3
      <4> QED
        BY <3>0, <4>1, <4>2
    <3>2. k - i \in 1 .. Len(s) - i /\ (k - 1) - (i - 1) = k - i /\ i + (k - i) = k
      BY <1>0, <2>2
    <3>3. right[k - i] = s[i + (k - i)]
      BY <1>2, <3>2
    <3> QED
      BY <3>1, <3>2, <3>3
  <2> QED
    BY <1>0, <1>4, <2>1, <2>2
<1>5. ASSUME NEW id \in ToSet(s), id # s[i] PROVE id \in ToSet(rest)
  <2>1. PICK k \in DOMAIN s : s[k] = id
    BY <1>5 DEF ToSet
  <2>2. PICK j \in DOMAIN rest : rest[j] = s[k]
    BY <1>0, <1>4, <1>5, <2>1
  <2> QED
    BY <2>1, <2>2 DEF ToSet
<1> QED
  BY <1>3, <1>5 DEF rest

\* A file removed leaves the others listed; if it was the active one, the
\* active one is now listed or none.
LEMMA RemoveType ==
  ASSUME NEW p \in Projects, NEW id \in Ids, Listed(p, id)
  PROVE  /\ RemoveFile(p, id) \in Projects
         /\ RemoveFile(p, id).root = p.root
         /\ \A other \in Ids : other # id /\ Listed(p, other) => Listed(RemoveFile(p, id), other)
         /\ IF p.active_id # id THEN RemoveFile(p, id).active_id = p.active_id
            ELSE \/ RemoveFile(p, id).active_id = None
                 \/ Listed(RemoveFile(p, id), RemoveFile(p, id).active_id)
<1> DEFINE i == CHOOSE i \in DOMAIN p.files : p.files[i] = id
           rest == RemoveAt(p.files, i)
           q == RemoveFile(p, id)
<1>1. p.files \in Seq(Ids) /\ p.active_id \in Ids \cup {None}
  BY DEF Projects
<1>2. i \in DOMAIN p.files /\ p.files[i] = id
  BY DEF Listed, ToSet
<1>3. rest \in Seq(Ids) /\ \A other \in ToSet(p.files) : other # id => other \in ToSet(rest)
  BY <1>1, <1>2, RemoveAtElements
<1>4. q = [p EXCEPT !.files = rest,
                    !.active_id = IF @ # id THEN @ ELSE IF rest = << >> THEN None ELSE rest[1]]
  BY DEF RemoveFile
<1>5. rest # << >> => 1 \in DOMAIN rest /\ rest[1] \in Ids
  BY <1>3
<1> HIDE DEF rest
<1>6. /\ q.files = rest /\ q.root = p.root
      /\ q.active_id = IF p.active_id # id THEN p.active_id
                       ELSE IF rest = << >> THEN None ELSE rest[1]
  BY <1>4 DEF Projects
<1>7. q \in Projects
  BY <1>1, <1>3, <1>4, <1>5 DEF Projects
<1> HIDE DEF q
<1>8. rest # << >> => rest[1] \in ToSet(rest)
  BY <1>5 DEF ToSet
<1> QED
  BY <1>3, <1>6, <1>7, <1>8 DEF Listed, q

\* A project written back is in range.
LEMMA SaveMetaType ==
  ASSUME StoreTypeOK, NEW p \in Projects, SaveMeta(p)
  PROVE  meta' \in [Dirs -> Metas \cup {None, Torn}]
  BY DEF StoreTypeOK, Projects, Metas, SaveMeta

LEMMA CopyType ==
  ASSUME StoreTypeOK, NEW d \in Dirs, NEW id \in Ids, NEW b \in Bins \cup {None},
         imports' = [imports EXCEPT ![d][id] = b]
  PROVE  imports' \in [Dirs -> [Ids -> Bins \cup {None}]]
  BY DEF StoreTypeOK

LEMMA SavedType ==
  ASSUME StoreTypeOK, NEW d \in Dirs, NEW id \in Ids, NEW prog \in Programs \cup {None, Torn},
         results' = [results EXCEPT ![d][id] = prog]
  PROVE  results' \in [Dirs -> [Ids -> Programs \cup {None, Torn}]]
  BY DEF StoreTypeOK
-----------------------------------------------------------------------------
(* Types *)

UiTypeOK ==
  /\ project \in Projects \cup {None}
  /\ program \in Programs \cup {None} /\ active_file_id \in Ids \cup {None}

AsksTypeOK ==
  /\ pending_delete \in [root : Dirs, id : Ids] \cup {None}
  /\ pending_analyze_file_id \in Ids \cup {None}

JobTypeOK ==
  /\ analysis_job \in BOOLEAN
  /\ worker \in [program : Programs, left : 0 .. NAnalyzers] \cup {None}
  /\ msgs \in Seq(Msgs)

\* TypeOK by the groups the actions write in.
LEMMA TypeParts == TypeOK <=> StoreTypeOK /\ UiTypeOK /\ AsksTypeOK /\ JobTypeOK
  BY DEF TypeOK, UiTypeOK, AsksTypeOK, JobTypeOK

\* What is left alone keeps to its range.
LEMMA Untouched ==
  /\ StoreTypeOK /\ UNCHANGED store => StoreTypeOK'
  /\ UiTypeOK /\ UNCHANGED ui => UiTypeOK'
  /\ AsksTypeOK /\ UNCHANGED asks => AsksTypeOK'
  /\ JobTypeOK /\ UNCHANGED job => JobTypeOK'
  BY DEF StoreTypeOK, UiTypeOK, AsksTypeOK, JobTypeOK, store, ui, asks, job

\* A file shown is loaded, active and written so to the project file.
LEMMA ShowType ==
  ASSUME StoreTypeOK, UiTypeOK, NEW id \in Ids, CanOpen(id)
  PROVE  /\ project \in Projects /\ project.root \in Dirs
         /\ Loaded(imports[project.root][id], results[project.root][id]) \in Programs
         /\ [project EXCEPT !.active_id = id] \in Projects
<1>1. project \in Projects
  BY DEF UiTypeOK, CanOpen
<1>2. project.root \in Dirs /\ [project EXCEPT !.active_id = id] \in Projects
  BY <1>1 DEF Projects
<1>3. results[project.root][id] \in Programs \cup {None, Torn}
  BY <1>2, Stored
<1> QED
  BY <1>1, <1>2, <1>3, LoadedType DEF CanOpen

\* The handlers of project_io.rs, menus.rs and program_edit.rs keep to the ranges,
LEMMA UserType ==
  ASSUME StoreTypeOK, UiTypeOK, AsksTypeOK
  PROVE  /\ \A b \in Bins : LoadBinary(b) \/ ImportIntoProject(b) => StoreTypeOK' /\ UiTypeOK'
         /\ \A d \in Dirs : CreateProject(d) \/ OpenProject(d) => StoreTypeOK' /\ UiTypeOK'
         /\ \A id \in Ids : OpenFromTree(id) => StoreTypeOK' /\ UiTypeOK'
         /\ ConfirmDelete \/ SaveResults => StoreTypeOK' /\ UiTypeOK'
         /\ CloseProgram \/ (\E e \in Edits : Edit(e)) => UiTypeOK'
<1>1. ASSUME NEW b \in Bins, LoadBinary(b) PROVE StoreTypeOK' /\ UiTypeOK'
  <2>1. Loaded(b, None) \in Programs
    BY <1>1, LoadedType, AbsentAssumption DEF LoadBinary, Loads
  <2> QED
    BY <1>1, <2>1, Untouched DEF LoadBinary, UiTypeOK
<1>2. ASSUME NEW b \in Bins, ImportIntoProject(b) PROVE StoreTypeOK' /\ UiTypeOK'
  <2>1. project \in Projects /\ project.root \in Dirs
    BY <1>2 DEF ImportIntoProject, UiTypeOK, Projects
  <2>2. PICK id \in UniqueId(NameOf[b], project.files) :
          /\ project' = ImportFile(project, id)
          /\ CopyIn(project.root, id, b) /\ SaveMeta(project')
          /\ active_file_id' = id
          /\ program' = IF Loads(b, results[project.root][id])
                        THEN Loaded(b, results[project.root][id]) ELSE program
    BY <1>2 DEF ImportIntoProject
  <2>3. id \in Ids
    BY DEF UniqueId
  <2>4. project' \in Projects
    BY <2>1, <2>2, <2>3, ImportType
  <2>5. meta' \in [Dirs -> Metas \cup {None, Torn}]
    BY <2>2, <2>4, SaveMetaType
  <2>6. imports' \in [Dirs -> [Ids -> Bins \cup {None}]]
    BY <2>1, <2>2, <2>3, CopyType DEF CopyIn
  <2>7. program' \in Programs \cup {None}
    BY <2>1, <2>2, <2>3, Stored, LoadedType DEF UiTypeOK
  <2> QED
    BY <1>2, <2>2, <2>3, <2>4, <2>5, <2>6, <2>7 DEF ImportIntoProject, StoreTypeOK, UiTypeOK
<1>3. ASSUME NEW d \in Dirs, CreateProject(d) PROVE StoreTypeOK' /\ UiTypeOK'
  <2>1. project' \in Projects
    BY <1>3 DEF CreateProject, Projects
  <2>2. meta' \in [Dirs -> Metas \cup {None, Torn}]
    BY <1>3, <2>1, SaveMetaType DEF CreateProject
  <2> QED
    BY <1>3, <2>1, <2>2 DEF CreateProject, StoreTypeOK, UiTypeOK
<1>4. ASSUME NEW d \in Dirs, OpenProject(d) PROVE StoreTypeOK' /\ UiTypeOK'
  <2>1. project' \in Projects /\ meta[d] \in Metas
    BY <1>4, OpenType DEF OpenProject
  <2>2. active_file_id' \in Ids \cup {None} /\ active_file_id' = meta[d].active_id
    BY <1>4, <2>1 DEF OpenProject, Metas
  <2>3. program' \in Programs \cup {None}
    BY <1>4, <2>2, Stored, LoadedType DEF OpenProject, UiTypeOK
  <2> QED
    BY <1>4, <2>1, <2>2, <2>3, Untouched DEF OpenProject, UiTypeOK
<1>5. ASSUME NEW id \in Ids, OpenFromTree(id) PROVE StoreTypeOK' /\ UiTypeOK'
  <2>1. project' \in Projects /\ program' \in Programs /\ active_file_id' = id
    BY <1>5, ShowType DEF OpenFromTree, Show
  <2>2. meta' \in [Dirs -> Metas \cup {None, Torn}]
    BY <1>5, <2>1, SaveMetaType DEF OpenFromTree, Show
  <2> QED
    BY <1>5, <2>1, <2>2 DEF OpenFromTree, StoreTypeOK, UiTypeOK
<1>6. ASSUME ConfirmDelete PROVE StoreTypeOK' /\ UiTypeOK'
  <2>1. CASE ~Listed(project, pending_delete.id)
    BY <1>6, <2>1, Untouched DEF ConfirmDelete
  <2>2. CASE Listed(project, pending_delete.id)
    <3> DEFINE id == pending_delete.id  left == RemoveFile(project, id)  next == left.active_id
    <3>1. project \in Projects /\ project.root \in Dirs /\ id \in Ids
      BY <1>6 DEF ConfirmDelete, UiTypeOK, AsksTypeOK, Projects
    <3>2. DeleteFrom(project, id)
      BY <1>6, <2>2 DEF ConfirmDelete
    <3>3. left \in Projects /\ next \in Ids \cup {None}
      BY <2>2, <3>1, RemoveType DEF Projects
    <3> HIDE DEF left, id
    <3>4. project' = left /\ SaveMeta(left) /\ DropCopy(project.root, id) /\ DropSaved(project.root, id)
      BY <3>2 DEF DeleteFrom, left
    <3>5. meta' \in [Dirs -> Metas \cup {None, Torn}]
      BY <3>3, <3>4, SaveMetaType
    <3>6. /\ imports' \in [Dirs -> [Ids -> Bins \cup {None}]]
          /\ results' \in [Dirs -> [Ids -> Programs \cup {None, Torn}]]
      BY <3>1, <3>4, CopyType, SavedType DEF DropCopy, DropSaved
    <3>7. active_file_id' \in Ids \cup {None} /\ program' \in Programs \cup {None}
      <4>1. CASE active_file_id # id
        BY <3>2, <4>1 DEF DeleteFrom, UiTypeOK
      <4>2. CASE active_file_id = id
        <5>1. /\ active_file_id' = next
              /\ program' = IF next # None /\ Loads(imports[project.root][next], results[project.root][next])
                            THEN Loaded(imports[project.root][next], results[project.root][next]) ELSE None
          BY <3>2, <4>2 DEF DeleteFrom, left
        <5>2. next # None => next \in Ids /\ results[project.root][next] \in Programs \cup {None, Torn}
          BY <3>1, <3>3, Stored
        <5> QED
          BY <3>3, <5>1, <5>2, LoadedType
      <4> QED
        BY <4>1, <4>2
    <3> QED
      BY <3>3, <3>4, <3>5, <3>6, <3>7 DEF StoreTypeOK, UiTypeOK
  <2> QED
    BY <2>1, <2>2
<1>7. ASSUME SaveResults PROVE StoreTypeOK' /\ UiTypeOK'
  <2>1. project.root \in Dirs /\ active_file_id \in Ids /\ program \in Programs
    BY <1>7 DEF SaveResults, CanSave, UiTypeOK, Projects
  <2>2. results' \in [Dirs -> [Ids -> Programs \cup {None, Torn}]]
    BY <1>7, <2>1, SavedType DEF SaveResults, SaveAnalysis
  <2> QED
    BY <1>7, <2>2, Untouched DEF SaveResults, StoreTypeOK
<1>8. ASSUME CloseProgram PROVE UiTypeOK'
  BY <1>8 DEF CloseProgram, UiTypeOK
<1>9. ASSUME NEW e \in Edits, Edit(e) PROVE UiTypeOK'
  BY <1>9 DEF Edit, UiTypeOK, Programs
<1> QED
  BY <1>1, <1>2, <1>3, <1>4, <1>5, <1>6, <1>7, <1>8, <1>9

\* an analysis under way too,
LEMMA JobType ==
  ASSUME StoreTypeOK, UiTypeOK, AsksTypeOK, JobTypeOK
  PROVE  /\ BeginAnalysis => StoreTypeOK' /\ UiTypeOK' /\ AsksTypeOK' /\ JobTypeOK'
         /\ WorkerActs => JobTypeOK'
         /\ PollAnalysis => StoreTypeOK' /\ UiTypeOK' /\ JobTypeOK'
<1> USE AnalyzerAssumption
<1>0. ASSUME NEW prog \in Programs, HandOver(prog)
      PROVE  program' \in Programs \cup {None} /\ JobTypeOK'
  <2>0. << >> \in Seq(Msgs)
    OBVIOUS
  <2>1. CASE program' = prog /\ UNCHANGED job
    BY <2>1, Untouched
  <2>2. CASE /\ worker' = [program |-> prog, left |-> NAnalyzers]
             /\ program' = None /\ analysis_job' = TRUE /\ msgs' = << >>
    BY <2>0, <2>2 DEF JobTypeOK
  <2> QED
    BY <1>0, <2>1, <2>2 DEF HandOver
<1>1. ASSUME BeginAnalysis PROVE StoreTypeOK' /\ UiTypeOK' /\ AsksTypeOK' /\ JobTypeOK'
  <2> DEFINE id == pending_analyze_file_id
  <2>0. AsksTypeOK'
    BY <1>1 DEF BeginAnalysis, AsksTypeOK
  <2>1. CASE id = None
    <3>1. program \in Programs /\ HandOver(program) /\ UNCHANGED <<store, project, active_file_id>>
      BY <1>1, <2>1 DEF BeginAnalysis, UiTypeOK
    <3> QED
      BY <1>0, <2>0, <3>1, Untouched DEF UiTypeOK
  <2>2. CASE id # None /\ CanOpen(id)
    <3>1. id \in Ids
      BY <2>2 DEF AsksTypeOK
    <3> DEFINE prog == Loaded(imports[project.root][id], results[project.root][id])
    <3>2. prog \in Programs /\ [project EXCEPT !.active_id = id] \in Projects
      BY <2>2, <3>1, ShowType
    <3> HIDE DEF prog
    <3>3. /\ active_file_id' = id /\ project' = [project EXCEPT !.active_id = id]
          /\ SaveMeta(project') /\ HandOver(prog) /\ UNCHANGED <<imports, results>>
      BY <1>1, <2>2 DEF BeginAnalysis, prog
    <3>4. meta' \in [Dirs -> Metas \cup {None, Torn}]
      BY <3>2, <3>3, SaveMetaType
    <3> QED
      BY <1>0, <2>0, <3>1, <3>2, <3>3, <3>4 DEF UiTypeOK, StoreTypeOK
  <2>3. CASE id # None /\ ~CanOpen(id)
    BY <1>1, <2>0, <2>3, Untouched DEF BeginAnalysis
  <2> QED
    BY <2>1, <2>2, <2>3
<1>2. ASSUME RunAnalyzer PROVE JobTypeOK'
  <2>1. [kind |-> "step"] \in Msgs
    BY DEF Msgs
  <2>2. msgs' \in Seq(Msgs)
    BY <1>2, <2>1, AppendProperties DEF RunAnalyzer, JobTypeOK
  <2>3. worker' \in [program : Programs, left : 0 .. NAnalyzers]
    BY <1>2 DEF RunAnalyzer, JobTypeOK
  <2> QED
    BY <1>2, <2>2, <2>3 DEF RunAnalyzer, JobTypeOK
<1>3. ASSUME NEW kind \in {"done", "failed"}, worker # None, GiveBack(kind) PROVE JobTypeOK'
  <2>1. [kind |-> kind, program |-> worker.program] \in Msgs
    BY <1>3 DEF Msgs, JobTypeOK
  <2>2. msgs' \in Seq(Msgs)
    BY <1>3, <2>1, AppendProperties DEF GiveBack, JobTypeOK
  <2> QED
    BY <1>3, <2>2 DEF GiveBack, JobTypeOK
<1>4. ASSUME PollAnalysis PROVE StoreTypeOK' /\ UiTypeOK' /\ JobTypeOK'
  <2> DEFINE last == IF msgs = << >> THEN [kind |-> "none"] ELSE msgs[Len(msgs)]
  <2>1. last.kind \in {"done", "failed"} => last.program \in Programs
    <3>1. CASE msgs = << >>
      BY <3>1
    <3>2. CASE msgs # << >>
      <4>1. msgs[Len(msgs)] \in Msgs
        BY <3>2, ElementOfSeq, EmptySeq, LenProperties DEF JobTypeOK
      <4> QED
        BY <3>2, <4>1 DEF Msgs
    <3> QED
      BY <3>1, <3>2
  <2> HIDE DEF last
  <2>2. /\ msgs' = << >> /\ analysis_job' \in BOOLEAN
        /\ UNCHANGED <<meta, imports, project, active_file_id, asks, worker>>
        /\ program' = IF last.kind \in {"done", "failed"} THEN last.program ELSE program
        /\ IF last.kind = "done" /\ project # None /\ active_file_id # None
           THEN SaveAnalysis(project.root, active_file_id, last.program)
           ELSE UNCHANGED results
    BY <1>4 DEF PollAnalysis, last
  <2>3. program' \in Programs \cup {None}
    BY <2>1, <2>2 DEF UiTypeOK
  <2>4. results' \in [Dirs -> [Ids -> Programs \cup {None, Torn}]]
    <3>1. CASE last.kind = "done" /\ project # None /\ active_file_id # None
      BY <2>1, <2>2, <3>1, SavedType DEF SaveAnalysis, UiTypeOK, Projects
    <3>2. CASE ~(last.kind = "done" /\ project # None /\ active_file_id # None)
      BY <2>2, <3>2 DEF StoreTypeOK
    <3> QED
      BY <3>1, <3>2
  <2> QED
    BY <2>2, <2>3, <2>4 DEF UiTypeOK, StoreTypeOK, JobTypeOK
<1> QED
  BY <1>1, <1>2, <1>3, <1>4 DEF WorkerActs, AnalyzerFails, WorkerDone

\* and the command line and crashes.
LEMMA OutsideType ==
  ASSUME StoreTypeOK, UiTypeOK, AsksTypeOK, JobTypeOK, CliActs \/ Crashes
  PROVE  StoreTypeOK' /\ UiTypeOK' /\ AsksTypeOK' /\ JobTypeOK'
<1>0. ASSUME Restart PROVE UiTypeOK' /\ AsksTypeOK' /\ JobTypeOK'
  <2>1. << >> \in Seq(Msgs)
    OBVIOUS
  <2> QED
    BY <1>0, <2>1 DEF Restart, UiTypeOK, AsksTypeOK, JobTypeOK
<1>1. ASSUME NEW d \in Dirs, NEW b \in Bins, CliImport(d, b) PROVE StoreTypeOK'
  <2>1. PICK id \in UniqueId(NameOf[b], meta[d].files) :
          SaveMeta(ImportFile(Open(d), id)) /\ CopyIn(d, id, b)
    BY <1>1 DEF CliImport
  <2>2. id \in Ids
    BY DEF UniqueId
  <2>3. ImportFile(Open(d), id) \in Projects
    BY <1>1, <2>2, OpenType, ImportType DEF CliImport
  <2>4. meta' \in [Dirs -> Metas \cup {None, Torn}]
    BY <2>1, <2>3, SaveMetaType
  <2>5. imports' \in [Dirs -> [Ids -> Bins \cup {None}]]
    BY <2>1, <2>2, CopyType DEF CopyIn
  <2> QED
    BY <1>1, <2>4, <2>5 DEF CliImport, StoreTypeOK
<1>2. ASSUME NEW d \in Dirs, NEW id \in Ids, CliAnalyze(d, id) PROVE StoreTypeOK'
  <2>1. [bin |-> imports[d][id], edits |-> {}] \in Programs
    BY <1>2, BinAssumption DEF CliAnalyze, Programs
  <2>2. results' \in [Dirs -> [Ids -> Programs \cup {None, Torn}]]
    BY <1>2, <2>1, SavedType DEF CliAnalyze, AnalyzeFile, SaveAnalysis
  <2> QED
    BY <1>2, <2>2 DEF CliAnalyze, StoreTypeOK
<1>3. ASSUME Crash PROVE StoreTypeOK'
  BY <1>3, Untouched DEF Crash
<1>4. ASSUME CrashInSave PROVE StoreTypeOK'
  <2>1. project.root \in Dirs /\ active_file_id \in Ids
    BY <1>4 DEF CrashInSave, CanSave, UiTypeOK, Projects
  <2>2. results' \in [Dirs -> [Ids -> Programs \cup {None, Torn}]]
    BY <1>4, <2>1, SavedType DEF CrashInSave, SaveAnalysis
  <2> QED
    BY <1>4, <2>2 DEF CrashInSave, StoreTypeOK
<1>5. ASSUME NEW id \in Ids, CrashInSaveMeta(id) PROVE StoreTypeOK'
  BY <1>5 DEF CrashInSaveMeta, StoreTypeOK
<1>6. ASSUME CrashInRemove PROVE StoreTypeOK'
  <2>1. project.root \in Dirs /\ pending_delete.id \in Ids
    BY <1>6 DEF CrashInRemove, UiTypeOK, AsksTypeOK, Projects
  <2>2. /\ imports' \in [Dirs -> [Ids -> Bins \cup {None}]]
        /\ results' \in [Dirs -> [Ids -> Programs \cup {None, Torn}]]
    BY <1>6, <2>1, CopyType, SavedType DEF CrashInRemove, DropCopy, DropSaved, StoreTypeOK
  <2> QED
    BY <1>6, <2>2 DEF CrashInRemove, StoreTypeOK
<1>7. CASE CliActs
  BY <1>1, <1>2, <1>7, Untouched DEF CliActs, CliImport, CliAnalyze
<1>8. CASE Crashes
  BY <1>0, <1>3, <1>4, <1>5, <1>6, <1>8
     DEF Crashes, Crash, CrashInSave, CrashInSaveMeta, CrashInRemove
<1> QED
  BY <1>7, <1>8

\* Every step keeps the types.
LEMMA TypeStep == TypeOK /\ [Next]_vars => TypeOK'
<1> SUFFICES ASSUME StoreTypeOK, UiTypeOK, AsksTypeOK, JobTypeOK, [Next]_vars
             PROVE  StoreTypeOK' /\ UiTypeOK' /\ AsksTypeOK' /\ JobTypeOK'
  BY DEF TypeOK, UiTypeOK, AsksTypeOK, JobTypeOK
<1>1. ASSUME NEW b \in Bins, LoadBinary(b) \/ ImportIntoProject(b)
      PROVE  StoreTypeOK' /\ UiTypeOK' /\ AsksTypeOK' /\ JobTypeOK'
  BY <1>1, UserType, Untouched DEF LoadBinary, ImportIntoProject
<1>2. ASSUME NEW d \in Dirs, CreateProject(d) \/ OpenProject(d)
      PROVE  StoreTypeOK' /\ UiTypeOK' /\ AsksTypeOK' /\ JobTypeOK'
  BY <1>2, UserType, Untouched DEF CreateProject, OpenProject
<1>3. ASSUME NEW id \in Ids, OpenFromTree(id)
      PROVE  StoreTypeOK' /\ UiTypeOK' /\ AsksTypeOK' /\ JobTypeOK'
  BY <1>3, UserType, Untouched DEF OpenFromTree
<1>4. ASSUME NEW id \in Ids, RequestDelete(id) \/ AnalyzeFromTree(id)
      PROVE  StoreTypeOK' /\ UiTypeOK' /\ AsksTypeOK' /\ JobTypeOK'
  <2>1. project # None => project.root \in Dirs
    BY DEF UiTypeOK, Projects
  <2>2. AsksTypeOK'
    BY <1>4, <2>1 DEF RequestDelete, AnalyzeFromTree, AsksTypeOK
  <2> QED
    BY <1>4, <2>2, Untouched DEF RequestDelete, AnalyzeFromTree
<1>5. CASE CancelDelete \/ ForgetAnalyze
  <2>1. AsksTypeOK'
    BY <1>5 DEF CancelDelete, ForgetAnalyze, AsksTypeOK
  <2> QED
    BY <1>5, <2>1, Untouched DEF CancelDelete, ForgetAnalyze
<1>6. CASE ConfirmDelete
  <2>1. AsksTypeOK'
    BY <1>6 DEF ConfirmDelete, AsksTypeOK
  <2> QED
    BY <1>6, <2>1, UserType, Untouched DEF ConfirmDelete
<1>7. CASE SaveResults
  BY <1>7, UserType, Untouched DEF SaveResults
<1>8. CASE CloseProgram \/ \E e \in Edits : Edit(e)
  BY <1>8, UserType, Untouched DEF CloseProgram, Edit
<1>9. CASE BeginAnalysis
  BY <1>9, JobType
<1>10. CASE WorkerActs
  BY <1>10, JobType, Untouched
     DEF WorkerActs, RunAnalyzer, AnalyzerFails, WorkerDone, GiveBack
<1>11. CASE PollAnalysis
  BY <1>11, JobType, Untouched DEF PollAnalysis
<1>12. CASE CliActs \/ Crashes
  BY <1>12, OutsideType
<1>13. CASE UNCHANGED vars
  BY <1>13, Untouched DEF vars
<1> QED
  BY <1>1, <1>2, <1>3, <1>4, <1>5, <1>6, <1>7, <1>8, <1>9, <1>10, <1>11, <1>12, <1>13
     DEF Next, UserActs

-----------------------------------------------------------------------------
(* The active file *)

\* The active file of a project, or of the metadata of one, is listed in it.
ActiveListed(p) == p.active_id # None => Listed(p, p.active_id)

ProjectInv == project # None => ActiveListed(project)
MetaInv    == \A d \in Dirs : Readable(d) => ActiveListed(meta[d])
Agreement  == ActiveAgrees /\ ProjectInv /\ MetaInv

\* Metadata written from a project whose active file is listed.
LEMMA SaveMetaListed ==
  ASSUME StoreTypeOK, MetaInv, NEW p \in Projects, SaveMeta(p), ActiveListed(p)
  PROVE  MetaInv'
<1> SUFFICES ASSUME NEW d \in Dirs, Readable(d)' PROVE ActiveListed(meta'[d])
  BY DEF MetaInv, ActiveListed, Listed
<1>1. CASE d = p.root
  <2>1. meta'[d].files = p.files /\ meta'[d].active_id = p.active_id
    BY <1>1 DEF SaveMeta, StoreTypeOK
  <2> QED
    BY <2>1 DEF ActiveListed, Listed
<1>2. CASE d # p.root
  <2>1. meta'[d] = meta[d]
    BY <1>2 DEF SaveMeta, StoreTypeOK
  <2> QED
    BY <2>1 DEF MetaInv, Readable
<1> QED
  BY <1>1, <1>2

\* A step that writes the project and its metadata alike.
LEMMA AgreementSaved ==
  ASSUME StoreTypeOK, MetaInv, project' \in Projects, SaveMeta(project'), ActiveListed(project'),
         active_file_id' # None => project' # None /\ active_file_id' = project'.active_id
  PROVE  Agreement'
<1>1. MetaInv'
  BY SaveMetaListed
<1>2. ActiveAgrees'
  BY DEF ActiveAgrees, ActiveListed, Listed
<1>3. ProjectInv'
  BY DEF ProjectInv, ActiveListed, Listed
<1> QED
  BY <1>1, <1>2, <1>3 DEF Agreement

\* A step that writes neither.
LEMMA AgreementUntouched ==
  ASSUME Agreement, UNCHANGED <<meta, project>>,
         active_file_id' \in {active_file_id, None}
  PROVE  Agreement'
  BY DEF Agreement, ActiveAgrees, ProjectInv, MetaInv, ActiveListed, Listed, Readable

\* None is no project.
LEMMA NoneIsNoProject == None \notin Projects
  BY NoneAssumption DEF Projects

\* Every step leaves UI and project in agreement.
LEMMA AgreementStep == TypeOK /\ Agreement /\ [Next]_vars => Agreement'
<1> SUFFICES ASSUME TypeOK, Agreement, [Next]_vars PROVE Agreement'
  OBVIOUS
<1>0. StoreTypeOK /\ UiTypeOK /\ AsksTypeOK /\ MetaInv
  BY TypeParts DEF Agreement
<1>1. ASSUME NEW b \in Bins, ImportIntoProject(b) PROVE Agreement'
  <2>1. PICK id \in UniqueId(NameOf[b], project.files) :
          /\ project' = ImportFile(project, id) /\ SaveMeta(project')
          /\ active_file_id' = id
    BY <1>1 DEF ImportIntoProject
  <2>2. project \in Projects /\ id \in Ids
    BY <1>0, <1>1 DEF ImportIntoProject, UiTypeOK, UniqueId
  <2>3. project' \in Projects /\ project'.active_id = id /\ Listed(project', id)
    BY <2>1, <2>2, ImportType
  <2>4. project' # None
    BY <2>3, NoneIsNoProject
  <2> QED
    BY <1>0, <2>1, <2>3, <2>4, AgreementSaved DEF ActiveListed
<1>2. ASSUME NEW d \in Dirs, CreateProject(d) PROVE Agreement'
  <2>1. project' \in Projects /\ project'.active_id = None
    BY <1>2 DEF CreateProject, Projects
  <2> QED
    BY <1>0, <1>2, <2>1, AgreementSaved DEF CreateProject, ActiveListed
<1>3. ASSUME NEW d \in Dirs, OpenProject(d) PROVE Agreement'
  <2>1. project' = Open(d) /\ project' \in Projects /\ active_file_id' = meta[d].active_id
    BY <1>0, <1>3, OpenType DEF OpenProject
  <2>2. ActiveListed(meta[d]) /\ project'.files = meta[d].files /\ project'.active_id = meta[d].active_id
    BY <1>3, <2>1 DEF Agreement, MetaInv, OpenProject, Open
  <2>3. project' # None
    BY <2>1, NoneIsNoProject
  <2>4. MetaInv'
    BY <1>0, <1>3 DEF OpenProject, store, MetaInv, Readable
  <2> QED
    BY <2>1, <2>2, <2>3, <2>4 DEF Agreement, ActiveAgrees, ProjectInv, ActiveListed, Listed
<1>4. ASSUME NEW id \in Ids, CanOpen(id), active_file_id' = id, SaveMeta(project'),
             project' = [project EXCEPT !.active_id = id]
      PROVE  Agreement'
  <2>1. project \in Projects /\ Listed(project, id)
    BY <1>0, <1>4 DEF CanOpen, UiTypeOK
  <2>2. project' \in Projects /\ project'.active_id = id /\ project'.files = project.files
    BY <1>4, <2>1 DEF Projects
  <2>3. project' # None
    BY <2>2, NoneIsNoProject
  <2> QED
    BY <1>0, <1>4, <2>1, <2>2, <2>3, AgreementSaved DEF ActiveListed, Listed
<1>5. CASE \E id \in Ids : OpenFromTree(id)
  BY <1>4, <1>5 DEF OpenFromTree, Show
<1>6. CASE BeginAnalysis
  <2>1. CASE pending_analyze_file_id = None
    BY <1>6, <2>1, AgreementUntouched DEF BeginAnalysis, store
  <2>2. CASE pending_analyze_file_id # None /\ CanOpen(pending_analyze_file_id)
    <3>1. pending_analyze_file_id \in Ids
      BY <1>0, <2>2 DEF AsksTypeOK
    <3> QED
      BY <1>4, <1>6, <2>2, <3>1 DEF BeginAnalysis
  <2>3. CASE pending_analyze_file_id # None /\ ~CanOpen(pending_analyze_file_id)
    BY <1>6, <2>3, AgreementUntouched DEF BeginAnalysis, store, ui
  <2> QED
    BY <2>1, <2>2, <2>3
<1>7. CASE ConfirmDelete
  <2> DEFINE id == pending_delete.id  left == RemoveFile(project, id)
  <2>1. CASE ~Listed(project, id)
    BY <1>7, <2>1, AgreementUntouched DEF ConfirmDelete, store, ui
  <2>2. CASE Listed(project, id)
    <3>1. project \in Projects /\ id \in Ids /\ active_file_id \in Ids \cup {None}
      BY <1>0, <1>7 DEF ConfirmDelete, UiTypeOK, AsksTypeOK
    <3>2. /\ left \in Projects
          /\ \A other \in Ids : other # id /\ Listed(project, other) => Listed(left, other)
          /\ IF project.active_id # id THEN left.active_id = project.active_id
             ELSE left.active_id = None \/ Listed(left, left.active_id)
      BY <2>2, <3>1, RemoveType
    <3>3. /\ project' = left /\ SaveMeta(left)
          /\ IF active_file_id # id THEN active_file_id' = active_file_id
             ELSE active_file_id' = left.active_id
      BY <1>7, <2>2 DEF ConfirmDelete, DeleteFrom
    <3> HIDE DEF left, id
    <3>4. left # None
      BY <3>2, NoneIsNoProject
    <3>5. project.active_id \in Ids \cup {None}
      BY <3>1 DEF Projects
    <3>6. ActiveListed(left)
      BY <1>7, <3>2, <3>5 DEF ConfirmDelete, Agreement, ProjectInv, ActiveListed
    <3>7. active_file_id' # None => active_file_id' = left.active_id
      BY <3>2, <3>3 DEF Agreement, ActiveAgrees
    <3> QED
      BY <1>0, <3>2, <3>3, <3>4, <3>6, <3>7, AgreementSaved
  <2> QED
    BY <2>1, <2>2
<1>8. ASSUME NEW d \in Dirs, NEW b \in Bins, CliImport(d, b) PROVE Agreement'
  <2>1. PICK id \in UniqueId(NameOf[b], meta[d].files) : SaveMeta(ImportFile(Open(d), id))
    BY <1>8 DEF CliImport
  <2>2. id \in Ids /\ Open(d) \in Projects
    BY <1>0, <1>8, OpenType DEF UniqueId, CliImport
  <2> DEFINE q == ImportFile(Open(d), id)
  <2>3. q \in Projects /\ q.active_id = id /\ Listed(q, id)
    BY <2>2, ImportType
  <2> HIDE DEF q
  <2>4. MetaInv'
    BY <1>0, <2>1, <2>3, SaveMetaListed DEF q, ActiveListed
  <2>5. UNCHANGED ui
    BY <1>8 DEF CliImport
  <2> QED
    BY <2>4, <2>5 DEF ui, Agreement, ActiveAgrees, ProjectInv, ActiveListed, Listed
<1>9. ASSUME Restart, MetaInv' PROVE Agreement'
  BY <1>9 DEF Restart, Agreement, ActiveAgrees, ProjectInv
<1>10. CASE Crashes
  <2>1. CASE Crash \/ CrashInSave \/ CrashInRemove
    <3>1. Restart /\ UNCHANGED meta
      BY <2>1 DEF Crash, CrashInSave, CrashInRemove, store
    <3> QED
      BY <1>0, <1>9, <3>1 DEF MetaInv, Readable
  <2>2. ASSUME NEW id \in Ids, CrashInSaveMeta(id) PROVE Agreement'
    <3>1. Restart /\ meta' = [meta EXCEPT ![project.root] = Torn]
      BY <2>2 DEF CrashInSaveMeta
    <3>2. \A d \in Dirs : meta'[d] \in {meta[d], Torn}
      BY <1>0, <3>1 DEF StoreTypeOK
    <3> QED
      BY <1>0, <1>9, <3>1, <3>2 DEF MetaInv, Readable
  <2> QED
    BY <1>10, <2>1, <2>2 DEF Crashes
<1>11. CASE \/ (\E b \in Bins : LoadBinary(b))
            \/ (\E id \in Ids : RequestDelete(id) \/ AnalyzeFromTree(id))
            \/ CancelDelete \/ ForgetAnalyze \/ SaveResults \/ CloseProgram
            \/ (\E e \in Edits : Edit(e))
  <2>1. UNCHANGED <<meta, project>> /\ active_file_id' \in {active_file_id, None}
    BY <1>11 DEF LoadBinary, RequestDelete, AnalyzeFromTree, CancelDelete, ForgetAnalyze,
                 SaveResults, CloseProgram, Edit, store, ui
  <2> QED
    BY <2>1, AgreementUntouched
<1>12. CASE \/ WorkerActs \/ PollAnalysis \/ UNCHANGED vars
            \/ (\E d \in Dirs, id \in Ids : CliAnalyze(d, id))
  <2>1. UNCHANGED <<meta, project>> /\ active_file_id' \in {active_file_id, None}
    BY <1>12 DEF WorkerActs, RunAnalyzer, AnalyzerFails, WorkerDone, GiveBack, PollAnalysis,
                 CliAnalyze, vars, store, ui
  <2> QED
    BY <2>1, AgreementUntouched
<1> QED
  BY <1>1, <1>2, <1>3, <1>5, <1>6, <1>7, <1>8, <1>10, <1>11, <1>12
     DEF Next, UserActs, CliActs

-----------------------------------------------------------------------------
(* The program *)

\* A worker at work has sent no last message, the last message is last and is
\* on its way when the worker is gone, and without a job the channel is empty.
ChannelInv ==
  /\ worker # None => analysis_job /\ Messages = {}
  /\ Messages \subseteq {Len(msgs)}
  /\ analysis_job => worker # None \/ Messages # {}
  /\ ~analysis_job => msgs = << >>

\* A message sent.
LEMMA Sent ==
  ASSUME JobTypeOK, NEW m, msgs' = Append(msgs, m)
  PROVE  Messages' = Messages \cup (IF m.kind = "step" THEN {} ELSE {Len(msgs')})
<1>1. /\ Len(msgs) \in Nat /\ Len(msgs') = Len(msgs) + 1
      /\ \A i \in 1 .. Len(msgs) : msgs'[i] = msgs[i]
      /\ msgs'[Len(msgs')] = m
  BY AppendProperties DEF JobTypeOK
<1>2. 1 .. Len(msgs') = (1 .. Len(msgs)) \cup {Len(msgs')}
  BY <1>1
<1> QED
  BY <1>1, <1>2 DEF Messages

\* An empty channel.
LEMMA NothingSent ==
  ASSUME msgs' = << >>
  PROVE  Messages' = {}
  BY DEF Messages

\* Nor is there a last message in one.
LEMMA NothingWaits ==
  ASSUME msgs = << >>
  PROVE  Messages = {}
  BY DEF Messages

\* A frame that finds the last message, and one that does not.
LEMMA Polled ==
  ASSUME JobTypeOK, ChannelInv, PollAnalysis
  PROVE  /\ Messages' = {} /\ msgs' = << >> /\ worker' = worker
         /\ \/ /\ program' \in Programs /\ analysis_job' = FALSE /\ worker = None
            \/ /\ Messages = {} /\ program' = program
               /\ analysis_job' = ~(msgs = << >> /\ worker = None)
<1> DEFINE last == IF msgs = << >> THEN [kind |-> "none"] ELSE msgs[Len(msgs)]
           ended == last.kind \in {"done", "failed"}
<1>0. /\ msgs' = << >> /\ worker' = worker
      /\ analysis_job' = ~(ended \/ (msgs = << >> /\ worker = None))
      /\ program' = IF ended THEN last.program ELSE program
  BY DEF PollAnalysis, Disconnected
<1>1. Messages' = {}
  BY <1>0, NothingSent
<1>2. msgs # << >> => Len(msgs) \in 1 .. Len(msgs) /\ last \in Msgs /\ last = msgs[Len(msgs)]
  BY ElementOfSeq, EmptySeq, LenProperties DEF JobTypeOK
<1>3. msgs = << >> => ~ended /\ Messages = {}
  BY DEF Messages
<1> HIDE DEF last
<1>4. CASE ended
  <2>1. msgs # << >> /\ last.program \in Programs /\ last.kind # "step"
    BY <1>2, <1>3, <1>4 DEF Msgs
  <2>2. Len(msgs) \in Messages
    BY <1>2, <2>1 DEF Messages
  <2> QED
    BY <1>0, <1>1, <1>4, <2>1, <2>2 DEF ChannelInv
<1>5. CASE ~ended
  <2>1. Messages = {}
    <3>1. CASE msgs = << >>
      BY <1>3, <3>1
    <3>2. CASE msgs # << >>
      <4>1. last.kind = "step"
        BY <1>2, <1>5, <3>2 DEF Msgs
      <4>2. Len(msgs) \notin Messages
        BY <1>2, <3>2, <4>1 DEF Messages
      <4> QED
        BY <4>2 DEF ChannelInv
    <3> QED
      BY <3>1, <3>2
  <2> QED
    BY <1>0, <1>1, <1>5, <2>1
<1> QED
  BY <1>4, <1>5

\* A worker started.
LEMMA Started ==
  ASSUME NEW prog, HandOver(prog)
  PROVE  \/ program' = prog /\ UNCHANGED job
         \/ /\ worker' = [program |-> prog, left |-> NAnalyzers]
            /\ program' = None /\ analysis_job' = TRUE /\ Messages' = {} /\ msgs' = << >>
  BY NothingSent DEF HandOver

\* What begin_analysis_job hands over.
LEMMA Begun ==
  ASSUME StoreTypeOK, UiTypeOK, AsksTypeOK, BeginAnalysis
  PROVE  (\E prog \in Programs : HandOver(prog)) \/ UNCHANGED <<program, job>>
<1> DEFINE id == pending_analyze_file_id
<1>1. CASE id = None
  BY <1>1 DEF BeginAnalysis, UiTypeOK
<1>2. CASE id # None /\ CanOpen(id)
  <2>1. id \in Ids
    BY <1>2 DEF AsksTypeOK
  <2>2. Loaded(imports[project.root][id], results[project.root][id]) \in Programs
    BY <1>2, <2>1, ShowType
  <2>3. HandOver(Loaded(imports[project.root][id], results[project.root][id]))
    BY <1>2 DEF BeginAnalysis
  <2> QED
    BY <2>2, <2>3
<1>3. CASE id # None /\ ~CanOpen(id)
  BY <1>3 DEF BeginAnalysis, ui
<1> QED
  BY <1>1, <1>2, <1>3

\* A program is not absent, and neither is a worker that has one.
LEMMA Present ==
  /\ None \notin Programs
  /\ \A prog \in Programs, n \in 0 .. NAnalyzers : [program |-> prog, left |-> n] # None
  BY NoneAssumption, WorkerAssumption

\* A worker that goes on has its program.
LEMMA StillWorks ==
  ASSUME JobTypeOK, RunAnalyzer
  PROVE  worker # None /\ worker' # None /\ worker'.program = worker.program
<1>1. worker' = [worker EXCEPT !.left = @ - 1] /\ worker # None /\ worker.left > 0
  BY DEF RunAnalyzer
<1>2. worker' = [program |-> worker.program, left |-> worker.left - 1]
      /\ worker.program \in Programs /\ worker.left - 1 \in 0 .. NAnalyzers
  BY <1>1, AnalyzerAssumption DEF JobTypeOK
<1> QED
  BY <1>1, <1>2, Present

\* Steps that leave the channel alone.
LEMMA ElsewhereInChannel ==
  ASSUME [Next]_vars, ~BeginAnalysis, ~WorkerActs, ~PollAnalysis, ~Crashes
  PROVE  UNCHANGED job
<1>1. CASE \/ \E b \in Bins : LoadBinary(b) \/ ImportIntoProject(b)
           \/ \E d \in Dirs : CreateProject(d) \/ OpenProject(d)
           \/ \E id \in Ids : OpenFromTree(id) \/ RequestDelete(id) \/ AnalyzeFromTree(id)
  BY <1>1 DEF LoadBinary, ImportIntoProject, CreateProject, OpenProject, OpenFromTree,
              RequestDelete, AnalyzeFromTree
<1>2. CASE \/ CancelDelete \/ ConfirmDelete \/ SaveResults \/ CloseProgram \/ ForgetAnalyze
           \/ \E e \in Edits : Edit(e)
  BY <1>2 DEF CancelDelete, ConfirmDelete, SaveResults, CloseProgram, ForgetAnalyze, Edit
<1>3. CASE CliActs \/ UNCHANGED vars
  BY <1>3 DEF CliActs, CliImport, CliAnalyze, vars
<1> QED
  BY <1>1, <1>2, <1>3 DEF Next, UserActs

\* Every step keeps the channel in order.
LEMMA ChannelStep == TypeOK /\ ChannelInv /\ [Next]_vars => ChannelInv'
<1> SUFFICES ASSUME TypeOK, ChannelInv, [Next]_vars PROVE ChannelInv'
  OBVIOUS
<1>0. StoreTypeOK /\ UiTypeOK /\ AsksTypeOK /\ JobTypeOK
  BY TypeParts
<1>1. CASE UNCHANGED job
  BY <1>1 DEF job, ChannelInv, Messages
<1>2. CASE BeginAnalysis
  <2>1. ASSUME NEW prog \in Programs, HandOver(prog) PROVE ChannelInv'
    <3>1. NAnalyzers \in 0 .. NAnalyzers
      BY AnalyzerAssumption
    <3>2. [program |-> prog, left |-> NAnalyzers] # None
      BY <3>1, Present
    <3> QED
      BY <1>1, <2>1, <3>2, Started DEF ChannelInv
  <2> QED
    BY <1>0, <1>1, <1>2, <2>1, Begun
<1>3. CASE RunAnalyzer
  <2> DEFINE m == [kind |-> "step"]
  <2>0. msgs' = Append(msgs, m) /\ m.kind = "step"
    BY <1>3 DEF RunAnalyzer
  <2> HIDE DEF m
  <2>1. Messages' = Messages
    BY <1>0, <2>0, Sent
  <2>2. worker # None /\ UNCHANGED analysis_job /\ worker' # None
    BY <1>0, <1>3, StillWorks DEF RunAnalyzer
  <2> QED
    BY <2>1, <2>2 DEF ChannelInv
<1>4. ASSUME NEW kind \in {"done", "failed"}, worker # None, GiveBack(kind) PROVE ChannelInv'
  <2>1. Messages' = Messages \cup {Len(msgs')}
    BY <1>0, <1>4, Sent DEF GiveBack
  <2> QED
    BY <1>4, <2>1 DEF GiveBack, ChannelInv
<1>5. CASE PollAnalysis
  BY <1>0, <1>5, Polled DEF ChannelInv
<1>6. CASE Crashes
  <2>1. worker' = None /\ msgs' = << >> /\ analysis_job' = FALSE
    BY <1>6 DEF Crashes, Crash, CrashInSave, CrashInSaveMeta, CrashInRemove, Restart
  <2> QED
    BY <2>1, NothingSent DEF ChannelInv
<1> QED
  BY <1>1, <1>2, <1>3, <1>4, <1>5, <1>6, ElsewhereInChannel
     DEF WorkerActs, AnalyzerFails, WorkerDone

\* Every step keeps every program, but for one the user gives up or displaces.
LEMMA KeptStep ==
  ASSUME TypeOK, ChannelInv, "busy" \notin Habits => OneHolder, [Next]_vars, ~Crashes,
         NEW prog \in Held, ~(prog = program /\ (Chosen \/ Displaced))
  PROVE  Stays(prog)
<1>0. StoreTypeOK /\ UiTypeOK /\ AsksTypeOK /\ JobTypeOK
  BY TypeParts
<1>1. prog \in Held' => Stays(prog)
  BY DEF Stays
<1>2. \/ prog = program /\ program # None
      \/ prog \in Held /\ worker # None /\ prog = worker.program
      \/ \E i \in Messages : prog = msgs[i].program
  BY DEF Held
<1>3. ASSUME UNCHANGED job, prog = program => program' = program PROVE Stays(prog)
  <2>1. Messages' = Messages
    BY <1>3 DEF job, Messages
  <2> QED
    BY <1>1, <1>2, <1>3, <2>1 DEF Held, job
<1>4. CASE BeginAnalysis
  <2>1. ~analysis_job
    BY <1>4 DEF BeginAnalysis
  <2>2. worker = None /\ Messages = {}
    BY <2>1, NothingWaits DEF ChannelInv
  <2>3. prog = program /\ program # None
    BY <1>2, <2>2
  <2>4. pending_analyze_file_id = None
    BY <1>4, <2>3 DEF Chosen
  <2>5. HandOver(program) /\ program \in Programs
    BY <1>0, <1>4, <2>3, <2>4 DEF BeginAnalysis, UiTypeOK
  <2>6. CASE UNCHANGED <<program, job>>
    BY <1>3, <2>6
  <2>7. CASE worker' = [program |-> program, left |-> NAnalyzers]
    <3>1. NAnalyzers \in 0 .. NAnalyzers
      BY AnalyzerAssumption
    <3>2. worker' # None /\ worker'.program = program
      BY <2>5, <2>7, <3>1, Present
    <3> QED
      BY <1>1, <2>3, <3>2 DEF Held
  <2> QED
    BY <2>5, <2>6, <2>7, Started
<1>5. CASE RunAnalyzer
  <2>1. /\ worker # None /\ worker' # None /\ worker'.program = worker.program
        /\ program' = program
    BY <1>0, <1>5, StillWorks DEF RunAnalyzer, ui
  <2>2. Messages = {}
    BY <2>1 DEF ChannelInv
  <2> QED
    BY <1>1, <1>2, <2>1, <2>2 DEF Held
<1>6. ASSUME NEW kind \in {"done", "failed"}, worker # None, GiveBack(kind) PROVE Stays(prog)
  <2> DEFINE m == [kind |-> kind, program |-> worker.program]
  <2>1. /\ msgs' = Append(msgs, m) /\ m.program = worker.program /\ program' = program
        /\ m.kind # "step"
    BY <1>6 DEF GiveBack, ui
  <2> HIDE DEF m
  <2>2. Messages' = Messages \cup {Len(msgs')}
    BY <1>0, <2>1, Sent
  <2>3. msgs'[Len(msgs')] = m
    BY <1>0, <2>1, AppendProperties DEF JobTypeOK
  <2>4. Messages = {}
    BY <1>6 DEF ChannelInv
  <2>5. worker.program \in Held' /\ (program # None => program \in Held')
    BY <2>1, <2>2, <2>3 DEF Held
  <2> QED
    BY <1>1, <1>2, <2>4, <2>5
<1>7. CASE PollAnalysis
  <2>1. ~(prog = program /\ program # None)
    <3>1. CASE "busy" \in Habits
      BY <1>7, <3>1 DEF Displaced
    <3>2. CASE "busy" \notin Habits
      BY <1>7, <3>2 DEF OneHolder, PollAnalysis
    <3> QED
      BY <3>1, <3>2
  <2>2. CASE worker # None /\ prog = worker.program
    <3>1. worker' = worker
      BY <1>7 DEF PollAnalysis
    <3> QED
      BY <1>1, <2>2, <3>1 DEF Held
  <2>3. ASSUME NEW i \in Messages, prog = msgs[i].program PROVE Stays(prog)
    <3>1. i = Len(msgs) /\ msgs # << >>
      BY <2>3 DEF ChannelInv, Messages
    <3>2. i \in 1 .. Len(msgs) /\ msgs[i] \in Msgs /\ msgs[i].kind # "step"
      BY <1>0, ElementOfSeq DEF JobTypeOK, Messages
    <3>3. msgs[i].kind \in {"done", "failed"} /\ prog \in Programs
      BY <2>3, <3>2 DEF Msgs
    <3>4. program' = prog
      BY <1>7, <2>3, <3>1, <3>3 DEF PollAnalysis
    <3>5. prog # None
      BY <3>3, Present
    <3> QED
      BY <1>1, <3>4, <3>5 DEF Held
  <2> QED
    BY <1>2, <2>1, <2>2, <2>3
<1>8. CASE ~BeginAnalysis /\ ~WorkerActs /\ ~PollAnalysis
  <2>1. UNCHANGED job
    BY <1>8, ElsewhereInChannel
  <2>2. ASSUME NEW e \in Edits, Edit(e), prog = program PROVE Stays(prog)
    <3>1. program \in Programs /\ program' = [program EXCEPT !.edits = @ \cup {e}]
      BY <1>0, <2>2 DEF Edit, UiTypeOK
    <3>2. program' \in Programs /\ program'.bin = prog.bin /\ prog.edits \subseteq program'.edits
      BY <2>2, <3>1 DEF Programs
    <3>3. program' # None
      BY <3>2, Present
    <3> QED
      BY <3>2, <3>3 DEF Stays, Held
  <2>3. CASE prog = program /\ ~(\E e \in Edits : Edit(e))
    <3>1. \/ \E d \in Dirs : CreateProject(d)
          \/ \E id \in Ids : RequestDelete(id) \/ AnalyzeFromTree(id)
          \/ CancelDelete \/ SaveResults \/ ForgetAnalyze \/ CliActs \/ UNCHANGED vars
      BY <1>8, <2>3 DEF Next, UserActs, Chosen
    <3>2. program' = program
      BY <3>1 DEF CreateProject, RequestDelete, AnalyzeFromTree, CancelDelete, SaveResults,
                  ForgetAnalyze, CliActs, CliImport, CliAnalyze, vars, ui
    <3> QED
      BY <1>3, <2>1, <3>2
  <2> QED
    BY <1>3, <2>1, <2>2, <2>3
<1> QED
  BY <1>4, <1>5, <1>6, <1>7, <1>8 DEF WorkerActs, AnalyzerFails, WorkerDone

\* Without files opened during an analysis, every step keeps the program in
\* one place.
LEMMA HolderStep ==
  ASSUME "busy" \notin Habits
  PROVE  TypeOK /\ ChannelInv /\ OneHolder /\ [Next]_vars => OneHolder'
<1> SUFFICES ASSUME TypeOK, ChannelInv, OneHolder, [Next]_vars PROVE OneHolder'
  OBVIOUS
<1>0. StoreTypeOK /\ UiTypeOK /\ AsksTypeOK /\ JobTypeOK /\ ChannelInv'
  BY TypeParts, ChannelStep
<1> DEFINE Alone == /\ program # None => ~analysis_job
                    /\ analysis_job => worker # None \/ Messages # {}
<1>1. SUFFICES Alone'
  BY <1>0 DEF OneHolder, ChannelInv, Messages
<1>2. Alone
  BY DEF OneHolder
<1>3. ASSUME UNCHANGED job, program' = program \/ program' = None \/ ~analysis_job PROVE Alone'
  BY <1>2, <1>3 DEF job, Messages
<1>4. CASE BeginAnalysis
  <2>1. CASE UNCHANGED <<program, job>>
    BY <1>3, <2>1
  <2>2. ASSUME NEW prog \in Programs, HandOver(prog) PROVE Alone'
    <3>1. NAnalyzers \in 0 .. NAnalyzers /\ ~analysis_job
      BY <1>4, AnalyzerAssumption DEF BeginAnalysis
    <3> QED
      BY <1>3, <2>2, <3>1, Started, Present
  <2> QED
    BY <1>0, <1>4, <2>1, <2>2, Begun
<1>5. CASE RunAnalyzer
  <2>1. worker' = [worker EXCEPT !.left = @ - 1] /\ worker # None /\ worker.left > 0
        /\ UNCHANGED <<program, analysis_job>>
    BY <1>5 DEF RunAnalyzer, ui
  <2>2. worker' = [program |-> worker.program, left |-> worker.left - 1]
        /\ worker.program \in Programs /\ worker.left - 1 \in 0 .. NAnalyzers
    BY <1>0, <2>1, AnalyzerAssumption DEF JobTypeOK
  <2> QED
    BY <1>2, <2>1, <2>2, Present
<1>6. ASSUME NEW kind \in {"done", "failed"}, GiveBack(kind) PROVE Alone'
  <2>1. Messages' = Messages \cup {Len(msgs')}
    BY <1>0, <1>6, Sent DEF GiveBack
  <2> QED
    BY <1>2, <1>6, <2>1 DEF GiveBack, ui
<1>7. CASE PollAnalysis
  <2>1. analysis_job
    BY <1>7 DEF PollAnalysis
  <2> QED
    BY <1>0, <1>2, <1>7, <2>1, Polled
<1>8. CASE Crashes
  BY <1>8 DEF Crashes, Crash, CrashInSave, CrashInSaveMeta, CrashInRemove, Restart
<1>9. CASE ~BeginAnalysis /\ ~WorkerActs /\ ~PollAnalysis /\ ~Crashes
  <2>1. UNCHANGED job
    BY <1>9, ElsewhereInChannel
  <2>2. program' = program \/ program' = None \/ ~analysis_job
    <3>1. CASE \/ \E b \in Bins : LoadBinary(b) \/ ImportIntoProject(b)
               \/ \E d \in Dirs : OpenProject(d)
               \/ \E id \in Ids : OpenFromTree(id)
               \/ ConfirmDelete
      BY <3>1 DEF LoadBinary, ImportIntoProject, OpenProject, OpenFromTree, ConfirmDelete, AtRest
    <3>2. CASE \E e \in Edits : Edit(e)
      BY <1>2, <3>2 DEF Edit
    <3>3. CASE \/ \E d \in Dirs : CreateProject(d)
               \/ \E id \in Ids : RequestDelete(id) \/ AnalyzeFromTree(id)
               \/ CancelDelete \/ SaveResults \/ CloseProgram \/ ForgetAnalyze \/ CliActs
               \/ UNCHANGED vars
      BY <3>3 DEF CreateProject, RequestDelete, AnalyzeFromTree, CancelDelete, SaveResults,
                  CloseProgram, ForgetAnalyze, CliActs, CliImport, CliAnalyze, vars, ui
    <3> QED
      BY <1>9, <3>1, <3>2, <3>3 DEF Next, UserActs
  <2> QED
    BY <1>3, <2>1, <2>2
<1> QED
  BY <1>4, <1>5, <1>6, <1>7, <1>8, <1>9 DEF WorkerActs, AnalyzerFails, WorkerDone

-----------------------------------------------------------------------------
(* Theorems *)

IInv == TypeOK /\ Agreement /\ ChannelInv

LEMMA InitInductive == Init => IInv /\ OneHolder
<1> SUFFICES ASSUME Init PROVE IInv /\ OneHolder
  OBVIOUS
<1>1. << >> \in Seq(Msgs)
  OBVIOUS
<1>2. TypeOK
  BY <1>1 DEF Init, StoreInit, NothingOpen, TypeOK, StoreTypeOK
<1>3. Agreement
  BY DEF Init, StoreInit, NothingOpen, Agreement, ActiveAgrees, ProjectInv, MetaInv, Readable
<1>4. Messages = {}
  BY DEF Init, NothingOpen, Messages
<1>5. ChannelInv /\ OneHolder
  BY <1>4 DEF Init, NothingOpen, ChannelInv, OneHolder
<1> QED
  BY <1>2, <1>3, <1>5 DEF IInv

LEMMA StepInductive == IInv /\ [Next]_vars => IInv'
  BY TypeStep, AgreementStep, ChannelStep DEF IInv

\* The invariant the theorems rest on holds in every state.
THEOREM Inductive == Spec => []IInv
  BY InitInductive, StepInductive, PTL DEF Spec

\* Every variable keeps to its range, whatever the users, the command line and
\* the system do.
THEOREM TypeCorrect == Spec => []TypeOK
<1>1. IInv => TypeOK
  BY DEF IInv
<1> QED
  BY <1>1, Inductive, PTL

\* The UI's active file is the active file of the project it holds, and is
\* registered in it, under every habit.
THEOREM ActiveSound == Spec => []ActiveAgrees
<1>1. IInv => ActiveAgrees
  BY DEF IInv, Agreement
<1> QED
  BY <1>1, Inductive, PTL

\* A user who opens no other file during an analysis has the program in one
\* place at a time.
THEOREM HoldsOnce == "busy" \notin Habits => (Spec => []OneHolder)
<1> SUFFICES ASSUME "busy" \notin Habits PROVE Spec => []OneHolder
  OBVIOUS
<1>1. IInv /\ OneHolder /\ [Next]_vars => OneHolder'
  BY HolderStep DEF IInv
<1> QED
  BY <1>1, InitInductive, Inductive, PTL DEF Spec

\* No program is lost between the UI, the worker and the channel, nor an edit to
\* it, under every habit: it goes when the user puts another in its place, with a
\* crash, or, opened during an analysis, when the worker's comes back.
THEOREM KeepsProgram == Spec => ProgramKept
<1> DEFINE Orderly == "busy" \notin Habits => OneHolder
<1>1. IInv /\ Orderly /\ [Next]_vars => Orderly'
  BY HolderStep DEF IInv
<1>2. IInv /\ Orderly /\ [Next]_vars
        => [\A prog \in Held : Stays(prog) \/ (prog = program /\ (Chosen \/ Displaced)) \/ Crashes]_vars
  BY KeptStep DEF IInv
<1>3. Init => Orderly
  BY InitInductive
<1> HIDE DEF Orderly
<1> QED
  BY <1>1, <1>2, <1>3, Inductive, PTL DEF Spec, ProgramKept

-----------------------------------------------------------------------------
(* The job channel *)

\* A message sent is one more in the channel.
LEMMA SentOne ==
  ASSUME JobTypeOK, NEW m, msgs' = Append(msgs, m)
  PROVE  Channel!OneMore
<1>1. /\ Len(msgs) \in Nat /\ Len(msgs') = Len(msgs) + 1 /\ DOMAIN msgs' = 1 .. Len(msgs')
      /\ msgs'[Len(msgs')] = m
  BY AppendProperties DEF JobTypeOK
<1> QED
  BY <1>1 DEF Channel!OneMore

\* A poll takes all that waits, and the job is over when the worker is gone.
LEMMA PollTakes ==
  ASSUME JobTypeOK, ChannelInv, PollAnalysis
  PROVE  Channel!Take
<1>1. analysis_job /\ msgs' = << >> /\ worker' = worker
  BY DEF PollAnalysis
<1>2. analysis_job' = (worker # None)
  BY <1>1, Polled DEF ChannelInv
<1> QED
  BY <1>1, <1>2 DEF Channel!Take

LEMMA StepOfChannel == IInv /\ [Next]_vars => [Channel!Next \/ Crashes]_(Channel!vars)
<1> SUFFICES ASSUME IInv, [Next]_vars, ~Crashes
             PROVE  Channel!Next \/ UNCHANGED Channel!vars
  OBVIOUS
<1> USE DEF Channel!Next
<1>0. StoreTypeOK /\ UiTypeOK /\ AsksTypeOK /\ JobTypeOK /\ ChannelInv
  BY TypeParts DEF IInv
<1>1. CASE UNCHANGED job
  BY <1>1 DEF job, Channel!vars
<1>2. CASE BeginAnalysis
  <2>1. ASSUME NEW prog \in Programs, HandOver(prog) PROVE Channel!Start \/ UNCHANGED job
    <3>1. NAnalyzers \in 0 .. NAnalyzers /\ ~analysis_job
      BY <1>2, AnalyzerAssumption DEF BeginAnalysis
    <3>2. ~analysis_job /\ worker = None /\ msgs = << >>
      BY <1>0, <3>1 DEF ChannelInv
    <3>3. CASE /\ worker' = [program |-> prog, left |-> NAnalyzers]
               /\ analysis_job' = TRUE /\ msgs' = << >>
      <4>1. worker' # None
        BY <2>1, <3>1, <3>3, Present
      <4>2. DOMAIN msgs' = {}
        BY <3>3
      <4> QED
        BY <3>2, <3>3, <4>1, <4>2 DEF Channel!Start
    <3> QED
      BY <2>1, <3>3, Started
  <2> QED
    BY <1>0, <1>1, <1>2, <2>1, Begun
<1>3. CASE RunAnalyzer
  <2>1. worker # None /\ worker' # None /\ UNCHANGED analysis_job
    BY <1>0, <1>3, StillWorks DEF RunAnalyzer
  <2>2. Channel!OneMore
    BY <1>0, <1>3, SentOne DEF RunAnalyzer
  <2> QED
    BY <1>0, <2>1, <2>2 DEF Channel!Send, ChannelInv
<1>4. ASSUME NEW kind \in {"done", "failed"}, worker # None, GiveBack(kind) PROVE Channel!End
  <2>1. worker' = None /\ UNCHANGED analysis_job
    BY <1>4 DEF GiveBack
  <2>2. Channel!OneMore
    BY <1>0, <1>4, SentOne DEF GiveBack
  <2> QED
    BY <1>0, <1>4, <2>1, <2>2 DEF Channel!End, ChannelInv
<1>5. CASE PollAnalysis
  BY <1>0, <1>5, PollTakes
<1> QED
  BY <1>1, <1>2, <1>3, <1>4, <1>5, ElsewhereInChannel DEF WorkerActs, AnalyzerFails, WorkerDone

\* The analysis implements the job channel, a crash apart, under every habit: it is
\* started only when none is under way, its messages wait in the order sent and are
\* taken out when read, and it is over once its worker has ended (begin_analysis_job,
\* poll_analysis_job).
THEOREM ImplementsChannel == Spec => ChannelKept
<1>1. Init => Channel!Init
  BY DEF Init, NothingOpen, Channel!Init
<1> QED
  BY <1>1, Inductive, StepOfChannel, PTL DEF Spec, ChannelKept

-----------------------------------------------------------------------------
(***************************************************************************)
(* What is on disk, when the user is orderly: one application works on the    *)
(* folders, opens no file during an analysis and none it has not imported,    *)
(* and is interrupted between two handlers only.  Registered files have their *)
(* copies, results are those of the copy, and saved work stays.               *)
(***************************************************************************)

Orderly == Habits \subseteq {"delete", "crash"} /\ Loadable = Bins

-----------------------------------------------------------------------------
(* The invariant *)

\* A file not registered has neither copy nor results.
FileOK(d, id) ==
  IF id \in Registered(d)
  THEN /\ imports[d][id] # None /\ results[d][id] # Torn
       /\ results[d][id] # None => results[d][id].bin = imports[d][id]
  ELSE imports[d][id] = None /\ results[d][id] = None

FilesApart(d) == meta[d] # Torn /\ (Readable(d) => IsInjective(meta[d].files))

FoldersInv == \A d \in Dirs : FilesApart(d) /\ \A id \in Ids : FileOK(d, id)

\* The project in memory is the one on disk.
AsSaved(p) == [files |-> p.files, active_id |-> p.active_id]
OnDisk     == project # None => meta[project.root] = AsSaved(project)

\* A program of the active file was loaded from its copy with all that was
\* saved for it, wherever the program is.
Belongs(prog) ==
  active_file_id # None =>
    /\ prog.bin = imports[project.root][active_file_id]
    /\ SavedEdits(results[project.root][active_file_id]) \subseteq prog.edits

HeldInv ==
  /\ program # None => Belongs(program)
  /\ analysis_job => /\ worker # None => Belongs(worker.program)
                     /\ \A i \in Messages : Belongs(msgs[i].program)

StoredInv == FoldersInv /\ OnDisk /\ HeldInv

\* What a step does to saved work.
WorkStays ==
  \A d \in Dirs, id \in Ids :
    \/ SavedEdits(results[d][id]) \subseteq SavedEdits(results'[d][id])
    \/ imports'[d][id] = None

-----------------------------------------------------------------------------
(* Lists of files *)

\* What is left of a list without one of its positions, in its order.
LEMMA RemoveAtPlaces ==
  ASSUME NEW s \in Seq(Ids), NEW i \in DOMAIN s
  PROVE  /\ RemoveAt(s, i) \in Seq(Ids) /\ Len(RemoveAt(s, i)) = Len(s) - 1
         /\ \A k \in 1 .. Len(s) - 1 : RemoveAt(s, i)[k] = s[IF k < i THEN k ELSE k + 1]
<1> DEFINE left == SubSeq(s, 1, i - 1)
           right == SubSeq(s, i + 1, Len(s))
           rest == RemoveAt(s, i)
<1>0. i \in 1 .. Len(s) /\ Len(s) \in Nat
  OBVIOUS
<1>1. left \in Seq(Ids) /\ Len(left) = i - 1 /\ \A k \in 1 .. i - 1 : left[k] = s[k]
  BY <1>0, SubSeqProperties
<1>2. right \in Seq(Ids) /\ Len(right) = Len(s) - i /\ \A k \in 1 .. Len(s) - i : right[k] = s[i + k]
  BY <1>0, SubSeqProperties
<1>3. rest = left \o right
  BY DEF RemoveAt
<1> HIDE DEF left, right, rest
<1>4. /\ rest \in Seq(Ids) /\ Len(rest) = Len(left) + Len(right)
      /\ \A k \in 1 .. Len(left) + Len(right) :
           rest[k] = IF k <= Len(left) THEN left[k] ELSE right[k - Len(left)]
  BY <1>1, <1>2, <1>3, ConcatProperties
<1>5. rest \in Seq(Ids) /\ Len(rest) = Len(s) - 1
  BY <1>0, <1>1, <1>2, <1>4
<1>6. ASSUME NEW k \in 1 .. Len(s) - 1 PROVE rest[k] = s[IF k < i THEN k ELSE k + 1]
  <2>1. CASE k < i
    <3>1. k \in 1 .. Len(left) + Len(right) /\ k <= Len(left) /\ k \in 1 .. i - 1
      BY <1>0, <1>1, <1>2, <2>1
    <3> QED
      BY <1>1, <1>4, <2>1, <3>1
  <2>2. CASE ~(k < i)
    <3>1. /\ k \in 1 .. Len(left) + Len(right) /\ ~(k <= Len(left))
          /\ k - (i - 1) \in 1 .. Len(s) - i /\ i + (k - (i - 1)) = k + 1 /\ Len(left) = i - 1
      BY <1>0, <1>1, <1>2, <2>2
    <3>2. rest[k] = right[k - (i - 1)]
      BY <1>4, <3>1
    <3> QED
      BY <1>2, <2>2, <3>1, <3>2
  <2> QED
    BY <2>1, <2>2
<1> QED
  BY <1>5, <1>6 DEF rest

\* Without repetitions, one position removed is one element removed.
LEMMA RemoveAtApart ==
  ASSUME NEW s \in Seq(Ids), NEW i \in DOMAIN s, IsInjective(s)
  PROVE  IsInjective(RemoveAt(s, i)) /\ ToSet(RemoveAt(s, i)) = ToSet(s) \ {s[i]}
<1> DEFINE rest == RemoveAt(s, i)
           Place(k) == IF k < i THEN k ELSE k + 1
<1>0. i \in 1 .. Len(s) /\ Len(s) \in Nat /\ DOMAIN s = 1 .. Len(s)
  OBVIOUS
<1>1. rest \in Seq(Ids) /\ Len(rest) = Len(s) - 1 /\ \A k \in 1 .. Len(s) - 1 : rest[k] = s[Place(k)]
  BY RemoveAtPlaces
<1> HIDE DEF rest
<1>2. DOMAIN rest = 1 .. Len(s) - 1
  BY <1>0, <1>1
<1>3. \A k \in 1 .. Len(s) - 1 : Place(k) \in DOMAIN s /\ Place(k) # i
  BY <1>0
<1>4. \A j, k \in 1 .. Len(s) - 1 : Place(j) = Place(k) => j = k
  BY <1>0
<1>5. \A j \in 1 .. Len(s) : j # i => \E k \in 1 .. Len(s) - 1 : Place(k) = j
  <2> SUFFICES ASSUME NEW j \in 1 .. Len(s), j # i PROVE \E k \in 1 .. Len(s) - 1 : Place(k) = j
    OBVIOUS
  <2>1. CASE j < i
    BY <1>0, <2>1
  <2>2. CASE j > i
    <3>1. j - 1 \in 1 .. Len(s) - 1 /\ Place(j - 1) = j
      BY <1>0, <2>2
    <3> QED
      BY <3>1
  <2> QED
    BY <1>0, <2>1, <2>2
<1> HIDE DEF Place
<1>6. IsInjective(rest)
  BY <1>1, <1>2, <1>3, <1>4 DEF IsInjective
<1>7. ToSet(rest) \subseteq ToSet(s) \ {s[i]}
  BY <1>1, <1>2, <1>3 DEF IsInjective, ToSet
<1>8. ASSUME NEW id \in ToSet(s), id # s[i] PROVE id \in ToSet(rest)
  <2>1. PICK j \in 1 .. Len(s) : s[j] = id
    BY <1>0, <1>8 DEF ToSet
  <2>2. PICK k \in 1 .. Len(s) - 1 : Place(k) = j
    BY <1>5, <1>8, <2>1
  <2> QED
    BY <1>1, <1>2, <2>1, <2>2 DEF ToSet
<1> QED
  BY <1>6, <1>7, <1>8 DEF rest

\* A file removed is no longer listed, and the others are.
LEMMA RemovedFile ==
  ASSUME NEW p \in Projects, NEW id, Listed(p, id), IsInjective(p.files)
  PROVE  /\ IsInjective(RemoveFile(p, id).files)
         /\ ToSet(RemoveFile(p, id).files) = ToSet(p.files) \ {id}
<1> DEFINE i == CHOOSE i \in DOMAIN p.files : p.files[i] = id
           rest == RemoveAt(p.files, i)
<1>1. p.files \in Seq(Ids)
  BY DEF Projects
<1>2. i \in DOMAIN p.files /\ p.files[i] = id
  BY DEF Listed, ToSet
<1>3. RemoveFile(p, id).files = rest
  BY DEF RemoveFile, Projects
<1> HIDE DEF i
<1> QED
  BY <1>1, <1>2, <1>3, RemoveAtApart

\* A file imported under an id that is free.
LEMMA ImportedFile ==
  ASSUME NEW p \in Projects, NEW id \in Ids, id \notin ToSet(p.files), IsInjective(p.files)
  PROVE  /\ IsInjective(ImportFile(p, id).files)
         /\ ToSet(ImportFile(p, id).files) = ToSet(p.files) \cup {id}
<1> DEFINE q == Append(p.files, id)
<1>1. p.files \in Seq(Ids) /\ Len(p.files) \in Nat
  BY DEF Projects
<1>2. ImportFile(p, id).files = q
  BY DEF ImportFile, Projects
<1>3. /\ DOMAIN q = 1 .. Len(p.files) + 1 /\ q[Len(p.files) + 1] = id
      /\ DOMAIN p.files = 1 .. Len(p.files)
      /\ \A k \in 1 .. Len(p.files) : q[k] = p.files[k]
  BY <1>1, AppendProperties
<1> HIDE DEF q
<1>4. DOMAIN q = DOMAIN p.files \cup {Len(p.files) + 1}
  BY <1>1, <1>3
<1>5. \A k \in DOMAIN p.files : p.files[k] # id
  BY DEF ToSet
<1> QED
  BY <1>2, <1>3, <1>4, <1>5 DEF IsInjective, ToSet

-----------------------------------------------------------------------------
(* Writing to the store *)

\* Metadata is neither absent nor torn, and what is saved is a program.
LEMMA Something ==
  /\ \A m \in Metas : m \notin {None, Torn}
  /\ \A p \in Programs : p \notin {None, Torn}
  /\ \A b \in Bins : b # None
  /\ None # Torn /\ None \notin Ids
  BY NoneAssumption, AbsentAssumption

\* The project file written lists the project's files, and no other changes.
LEMMA Written ==
  ASSUME StoreTypeOK, NEW p \in Projects, SaveMeta(p)
  PROVE  /\ meta'[p.root] = AsSaved(p) /\ Readable(p.root)'
         /\ Registered(p.root)' = ToSet(p.files)
         /\ \A d \in Dirs : d # p.root => meta'[d] = meta[d]
<1>1. p.root \in Dirs /\ AsSaved(p) \in Metas
  BY DEF Projects, Metas, AsSaved
<1>2. meta' = [meta EXCEPT ![p.root] = AsSaved(p)]
  BY DEF SaveMeta, AsSaved
<1>3. meta'[p.root] = AsSaved(p) /\ \A d \in Dirs : d # p.root => meta'[d] = meta[d]
  BY <1>1, <1>2 DEF StoreTypeOK
<1>4. Readable(p.root)'
  BY <1>1, <1>3, Something DEF Readable
<1>5. AsSaved(p).files = p.files
  BY DEF AsSaved
<1> QED
  BY <1>3, <1>4, <1>5 DEF Registered

\* The files of the project in memory are the registered ones.
LEMMA InMemory ==
  ASSUME StoreTypeOK, UiTypeOK, FoldersInv, OnDisk, project # None
  PROVE  /\ project \in Projects /\ project.root \in Dirs
         /\ Readable(project.root) /\ Registered(project.root) = ToSet(project.files)
         /\ IsInjective(project.files)
<1>1. project \in Projects /\ project.root \in Dirs /\ AsSaved(project) \in Metas
  BY DEF UiTypeOK, Projects, Metas, AsSaved
<1>2. meta[project.root] = AsSaved(project)
  BY DEF OnDisk
<1>3. Readable(project.root)
  BY <1>1, <1>2, Something DEF Readable
<1>4. AsSaved(project).files = project.files
  BY DEF AsSaved
<1> QED
  BY <1>1, <1>2, <1>3, <1>4 DEF Registered, FoldersInv, FilesApart

\* A step that writes one folder, whose files are then in order.
LEMMA OneFolder ==
  ASSUME StoreTypeOK, FoldersInv, NEW p \in Projects, SaveMeta(p), IsInjective(p.files),
         \A d \in Dirs : d # p.root => imports'[d] = imports[d] /\ results'[d] = results[d],
         \A id \in Ids : FileOK(p.root, id)'
  PROVE  FoldersInv' /\ (project' = p => OnDisk')
<1>1. /\ meta'[p.root] = AsSaved(p) /\ AsSaved(p) \in Metas /\ AsSaved(p).files = p.files
      /\ \A d \in Dirs : d # p.root => meta'[d] = meta[d]
  BY Written DEF Projects, Metas, AsSaved
<1>2. ASSUME NEW d \in Dirs PROVE FilesApart(d)' /\ \A id \in Ids : FileOK(d, id)'
  <2>1. CASE d = p.root
    BY <1>1, <2>1, Something DEF FilesApart
  <2>2. CASE d # p.root
    <3>1. meta'[d] = meta[d] /\ imports'[d] = imports[d] /\ results'[d] = results[d]
      BY <1>1, <2>2
    <3> QED
      BY <3>1 DEF FoldersInv, FilesApart, FileOK, Registered, Readable
  <2> QED
    BY <2>1, <2>2
<1> QED
  BY <1>1, <1>2 DEF FoldersInv, OnDisk

\* A program saved for the copy it was loaded from.
LEMMA OneSave ==
  ASSUME StoreTypeOK, FoldersInv, UNCHANGED <<meta, imports>>,
         NEW d \in Dirs, NEW id \in Registered(d), NEW prog \in Programs,
         id \in Ids, prog.bin = imports[d][id], SaveAnalysis(d, id, prog),
         SavedEdits(results[d][id]) \subseteq prog.edits
  PROVE  FoldersInv' /\ WorkStays /\ results'[d][id] = prog
<1>1. results' = [results EXCEPT ![d][id] = prog]
  BY DEF SaveAnalysis
<1>2. /\ results'[d][id] = prog
      /\ \A e \in Dirs, i \in Ids : e # d \/ i # id => results'[e][i] = results[e][i]
  BY <1>1 DEF StoreTypeOK
<1>3. prog \notin {None, Torn}
  BY Something
<1>4. FoldersInv'
  BY <1>2, <1>3 DEF FoldersInv, FilesApart, FileOK, Registered, Readable
<1>5. WorkStays
  BY <1>2, <1>3 DEF WorkStays, SavedEdits
<1> QED
  BY <1>2, <1>4, <1>5

\* A registered file loads, with all that was saved for it.
LEMMA LoadsWhole ==
  ASSUME Orderly, StoreTypeOK, FoldersInv, NEW d \in Dirs, NEW id \in Ids, id \in Registered(d)
  PROVE  LET prog == Loaded(imports[d][id], results[d][id]) IN
         /\ Loads(imports[d][id], results[d][id])
         /\ prog \in Programs /\ prog.bin = imports[d][id]
         /\ SavedEdits(results[d][id]) \subseteq prog.edits
<1>1. imports[d][id] \in Bins /\ results[d][id] \in Programs \cup {None, Torn} /\ results[d][id] # Torn
  BY Stored DEF FoldersInv, FileOK
<1>2. Loads(imports[d][id], results[d][id])
  BY <1>1 DEF Loads, Orderly
<1> QED
  BY <1>1, <1>2, LoadedType DEF Loaded, SavedEdits

-----------------------------------------------------------------------------
(* Programs held *)

\* No analysis is under way after the step.
LEMMA HeldAtRest ==
  ASSUME ~analysis_job, UNCHANGED job, program' # None => Belongs(program)'
  PROVE  HeldInv'
  BY DEF HeldInv, job

\* A step that moves no program.
LEMMA HeldUntouched ==
  ASSUME HeldInv, UNCHANGED <<project, imports, results, job>>,
         active_file_id' \in {active_file_id, None}, program' \in {program, None}
  PROVE  HeldInv'
  BY DEF HeldInv, Belongs, Messages, job

\* What an orderly user does not do.
LEMMA OrderlySteps ==
  ASSUME Orderly, [Next]_vars
  PROVE  \/ \E b \in Bins : ImportIntoProject(b)
         \/ \E d \in Dirs : CreateProject(d) \/ OpenProject(d)
         \/ \E id \in Ids : OpenFromTree(id) \/ RequestDelete(id) \/ AnalyzeFromTree(id)
         \/ CancelDelete \/ ConfirmDelete \/ SaveResults \/ CloseProgram
         \/ \E e \in Edits : Edit(e)
         \/ ForgetAnalyze \/ BeginAnalysis
         \/ RunAnalyzer \/ AnalyzerFails \/ WorkerDone \/ PollAnalysis
         \/ Crash \/ UNCHANGED vars
<1>1. {"load", "busy", "recreate", "cli", "torn"} \cap Habits = {}
  BY DEF Orderly
<1>2. ~(\E b \in Bins : LoadBinary(b))
  BY <1>1 DEF LoadBinary
<1>3. ~CliActs
  BY <1>1 DEF CliActs, CliImport, CliAnalyze
<1>4. Crashes => Crash
  BY <1>1 DEF Crashes, CrashInSave, CrashInRemove, CrashInSaveMeta
<1> QED
  BY <1>2, <1>3, <1>4 DEF Next, UserActs, WorkerActs

-----------------------------------------------------------------------------
(* The steps *)

\* What the steps start from.
Before == TypeOK /\ Agreement /\ ChannelInv /\ OneHolder /\ StoredInv
After  == StoredInv' /\ WorkStays

LEMMA BeforeParts ==
  Before => /\ StoreTypeOK /\ UiTypeOK /\ AsksTypeOK /\ JobTypeOK
            /\ FoldersInv /\ OnDisk /\ HeldInv
  BY TypeParts DEF Before, StoredInv

\* A project is created in an empty folder only.
LEMMA CreateStores ==
  ASSUME Orderly, Before, NEW d \in Dirs, CreateProject(d)
  PROVE  After
<1>0. StoreTypeOK /\ FoldersInv /\ HeldInv
  BY BeforeParts
<1>1. /\ meta[d] = None /\ project' = [root |-> d, files |-> << >>, active_id |-> None]
      /\ SaveMeta(project') /\ active_file_id' = None
      /\ UNCHANGED <<imports, results, program, job>>
  BY DEF CreateProject, Orderly
<1> DEFINE p == [root |-> d, files |-> << >>, active_id |-> None]
<1>2. p \in Projects /\ p.root = d /\ p.files = << >> /\ IsInjective(p.files) /\ ToSet(p.files) = {}
  BY DEF Projects, IsInjective, ToSet
<1> HIDE DEF p
<1>3. Registered(d) = {} /\ Registered(d)' = {}
  BY <1>0, <1>1, <1>2, Written DEF Registered, Readable, p
<1>4. \A id \in Ids : FileOK(d, id)'
  BY <1>0, <1>1, <1>3 DEF FoldersInv, FileOK
<1>5. FoldersInv' /\ OnDisk'
  BY <1>0, <1>1, <1>2, <1>4, OneFolder DEF p
<1>6. HeldInv'
  BY <1>0, <1>1 DEF HeldInv, Belongs, Messages, job
<1> QED
  BY <1>1, <1>5, <1>6 DEF After, StoredInv, WorkStays

\* A project opened shows its active file with all that was saved for it.
LEMMA OpenStores ==
  ASSUME Orderly, Before, NEW d \in Dirs, OpenProject(d)
  PROVE  After
<1>0. StoreTypeOK /\ FoldersInv /\ HeldInv /\ MetaInv
  BY BeforeParts DEF Before, Agreement
<1> DEFINE id == meta[d].active_id
<1>1. /\ ~analysis_job /\ Readable(d) /\ project' = Open(d) /\ active_file_id' = id
      /\ program' = IF id # None /\ Loads(imports[d][id], results[d][id])
                    THEN Loaded(imports[d][id], results[d][id]) ELSE program
      /\ UNCHANGED <<store, job>>
  BY DEF OpenProject, AtRest, Orderly
<1>2. meta[d] \in Metas /\ id \in Ids \cup {None}
  BY <1>0, <1>1, OpenType DEF Metas
<1>3. OnDisk'
  BY <1>1, <1>2 DEF OnDisk, Open, AsSaved, Metas, store
<1>4. FoldersInv' /\ WorkStays
  BY <1>0, <1>1 DEF store, FoldersInv, FilesApart, FileOK, Registered, Readable, WorkStays
<1>5. Belongs(program)'
  <2>1. CASE id = None
    BY <1>1, <2>1 DEF Belongs
  <2>2. CASE id # None
    <3>1. id \in Ids /\ id \in Registered(d)
      BY <1>0, <1>1, <1>2, <2>2 DEF MetaInv, ActiveListed, Listed, Registered
    <3>2. /\ Loads(imports[d][id], results[d][id])
          /\ Loaded(imports[d][id], results[d][id]).bin = imports[d][id]
          /\ SavedEdits(results[d][id]) \subseteq Loaded(imports[d][id], results[d][id]).edits
      BY <1>0, <3>1, LoadsWhole
    <3>3. project'.root = d
      BY <1>1 DEF Open
    <3> HIDE DEF id
    <3> QED
      BY <1>1, <2>2, <3>2, <3>3 DEF Belongs, store
  <2> QED
    BY <2>1, <2>2
<1>6. HeldInv'
  BY <1>1, <1>5, HeldAtRest
<1> QED
  BY <1>3, <1>4, <1>6 DEF After, StoredInv

\* An import gets an id for which nothing is on disk.
LEMMA ImportStores ==
  ASSUME Orderly, Before, NEW b \in Bins, ImportIntoProject(b)
  PROVE  After
<1>0. StoreTypeOK /\ UiTypeOK /\ FoldersInv /\ OnDisk /\ HeldInv
  BY BeforeParts
<1>1. /\ ~analysis_job /\ project # None /\ UNCHANGED <<results, job>>
  BY DEF ImportIntoProject, AtRest, Orderly
<1>a. PICK d \in Dirs : d = project.root
  BY <1>0, <1>1, InMemory
<1>2. PICK id \in UniqueId(NameOf[b], project.files) :
        /\ project' = ImportFile(project, id)
        /\ CopyIn(d, id, b) /\ SaveMeta(project')
        /\ active_file_id' = id
        /\ program' = IF Loads(b, results[d][id]) THEN Loaded(b, results[d][id]) ELSE program
  BY <1>a DEF ImportIntoProject
<1>3. id \in Ids /\ id \notin ToSet(project.files)
  BY DEF UniqueId
<1>4. /\ project \in Projects /\ Registered(d) = ToSet(project.files)
      /\ IsInjective(project.files)
  BY <1>0, <1>1, <1>a, InMemory
<1>b. PICK q : q = ImportFile(project, id)
  OBVIOUS
<1>5. q \in Projects /\ q.root = d /\ IsInjective(q.files) /\ ToSet(q.files) = ToSet(project.files) \cup {id}
  BY <1>3, <1>4, <1>a, <1>b, ImportType, ImportedFile
<1>6. imports[d][id] = None /\ results[d][id] = None
  BY <1>0, <1>3, <1>4 DEF FoldersInv, FileOK
<1>7. /\ imports'[d][id] = b
      /\ \A i \in Ids : i # id => imports'[d][i] = imports[d][i]
      /\ \A e \in Dirs : e # d => imports'[e] = imports[e]
  BY <1>0, <1>2, <1>3, <1>4 DEF CopyIn, StoreTypeOK
<1>8. Registered(d)' = Registered(d) \cup {id}
  <2>1. SaveMeta(q)
    BY <1>2, <1>b
  <2> QED
    BY <1>0, <1>4, <1>5, <2>1, Written
<1>9. ASSUME NEW i \in Ids PROVE FileOK(d, i)'
  <2>1. CASE i = id
    BY <1>1, <1>6, <1>7, <1>8, <2>1, Something DEF FileOK
  <2>2. CASE i # id
    BY <1>0, <1>1, <1>4, <1>7, <1>8, <2>2 DEF FoldersInv, FileOK
  <2> QED
    BY <2>1, <2>2
<1>10. FoldersInv' /\ OnDisk'
  <2>1. SaveMeta(q) /\ project' = q
    BY <1>2, <1>b
  <2> QED
    BY <1>0, <1>1, <1>5, <1>7, <1>9, <2>1, OneFolder
<1>11. program' = Loaded(b, None)
  BY <1>2, <1>6, Something DEF Loads, Orderly
<1>12. Belongs(program)'
  <2>1. project'.root = d
    BY <1>2, <1>5, <1>b
  <2> QED
    BY <1>1, <1>2, <1>6, <1>7, <1>11, <2>1 DEF Belongs, Loaded, SavedEdits
<1>13. HeldInv'
  BY <1>1, <1>12, HeldAtRest
<1>14. WorkStays
  BY <1>1 DEF WorkStays
<1> QED
  BY <1>10, <1>13, <1>14 DEF After, StoredInv

\* A registered file made the active one, with its program in the UI or with
\* the worker.
LEMMA ShowStores ==
  ASSUME Orderly, Before, NEW id \in Ids, CanOpen(id),
         project' = [project EXCEPT !.active_id = id], SaveMeta(project'),
         UNCHANGED <<imports, results>>
  PROVE  /\ FoldersInv' /\ OnDisk' /\ WorkStays /\ project'.root = project.root
         /\ LET prog == Loaded(imports[project.root][id], results[project.root][id]) IN
            /\ prog \in Programs /\ prog.bin = imports[project.root][id]
            /\ SavedEdits(results[project.root][id]) \subseteq prog.edits
<1>0. StoreTypeOK /\ UiTypeOK /\ FoldersInv /\ OnDisk
  BY BeforeParts
<1>1. PICK d \in Dirs : d = project.root
  BY <1>0, InMemory DEF CanOpen
<1>2. /\ project \in Projects /\ Registered(d) = ToSet(project.files)
      /\ IsInjective(project.files) /\ id \in Registered(d)
  BY <1>0, <1>1, InMemory DEF CanOpen, Listed
<1>3. PICK q : q = [project EXCEPT !.active_id = id]
  OBVIOUS
<1>4. q \in Projects /\ q.root = d /\ q.files = project.files /\ project' = q /\ SaveMeta(q)
  BY <1>1, <1>2, <1>3 DEF Projects
<1>5. Registered(d)' = Registered(d)
  BY <1>0, <1>2, <1>4, Written
<1>6. \A i \in Ids : FileOK(d, i)'
  BY <1>0, <1>5 DEF FoldersInv, FileOK
<1>7. FoldersInv' /\ OnDisk'
  BY <1>0, <1>2, <1>4, <1>6, OneFolder
<1>8. WorkStays
  BY DEF WorkStays
<1> QED
  BY <1>0, <1>1, <1>2, <1>4, <1>7, <1>8, LoadsWhole

LEMMA TreeStores ==
  ASSUME Orderly, Before, NEW id \in Ids, OpenFromTree(id)
  PROVE  After
<1> DEFINE prog == Loaded(imports[project.root][id], results[project.root][id])
<1>1. /\ ~analysis_job /\ CanOpen(id) /\ program' = prog /\ active_file_id' = id
      /\ project' = [project EXCEPT !.active_id = id] /\ SaveMeta(project')
      /\ UNCHANGED <<imports, results, job>>
  BY DEF OpenFromTree, Show, AtRest, Orderly
<1>2. /\ FoldersInv' /\ OnDisk' /\ WorkStays /\ project'.root = project.root
      /\ prog.bin = imports[project.root][id]
      /\ SavedEdits(results[project.root][id]) \subseteq prog.edits
  BY <1>1, ShowStores
<1> HIDE DEF prog
<1>3. Belongs(program)'
  BY <1>1, <1>2 DEF Belongs
<1> QED
  BY <1>1, <1>2, <1>3, HeldAtRest DEF After, StoredInv

\* An analysis begins on the open program or on the file it was asked for.
LEMMA BeginStores ==
  ASSUME Orderly, Before, BeginAnalysis
  PROVE  After
<1>0. StoreTypeOK /\ UiTypeOK /\ AsksTypeOK /\ FoldersInv /\ OnDisk /\ HeldInv /\ ~analysis_job
  BY BeforeParts DEF BeginAnalysis
<1>1. ASSUME NEW prog \in Programs, HandOver(prog),
             active_file_id' # None =>
               /\ prog.bin = imports'[project'.root][active_file_id']
               /\ SavedEdits(results'[project'.root][active_file_id']) \subseteq prog.edits
      PROVE  HeldInv'
  <2>1. CASE program' = prog /\ UNCHANGED job
    BY <1>0, <1>1, <2>1, HeldAtRest DEF Belongs
  <2>2. CASE /\ worker' = [program |-> prog, left |-> NAnalyzers]
             /\ program' = None /\ Messages' = {}
    BY <1>1, <2>2 DEF HeldInv, Belongs
  <2> QED
    BY <1>1, <2>1, <2>2, Started
<1>2. CASE pending_analyze_file_id = None
  <2>1. program \in Programs /\ program # None /\ HandOver(program)
        /\ UNCHANGED <<store, project, active_file_id>>
    BY <1>0, <1>2 DEF BeginAnalysis, UiTypeOK
  <2>2. HeldInv'
    BY <1>0, <1>1, <2>1 DEF HeldInv, Belongs, store
  <2>3. FoldersInv' /\ OnDisk' /\ WorkStays
    BY <1>0, <2>1 DEF store, FoldersInv, FilesApart, FileOK, Registered, Readable, OnDisk, AsSaved,
                      WorkStays
  <2> QED
    BY <2>2, <2>3 DEF After, StoredInv
<1>3. CASE pending_analyze_file_id # None /\ CanOpen(pending_analyze_file_id)
  <2>1. PICK id \in Ids : id = pending_analyze_file_id
    BY <1>0, <1>3 DEF AsksTypeOK
  <2> DEFINE prog == Loaded(imports[project.root][id], results[project.root][id])
  <2>2. /\ CanOpen(id) /\ HandOver(prog) /\ active_file_id' = id
        /\ project' = [project EXCEPT !.active_id = id] /\ SaveMeta(project')
        /\ UNCHANGED <<imports, results>>
    BY <1>3, <2>1 DEF BeginAnalysis
  <2>3. /\ FoldersInv' /\ OnDisk' /\ WorkStays /\ project'.root = project.root
        /\ prog \in Programs /\ prog.bin = imports[project.root][id]
        /\ SavedEdits(results[project.root][id]) \subseteq prog.edits
    BY <2>2, ShowStores
  <2> HIDE DEF prog
  <2>4. PICK handed \in Programs : handed = prog
    BY <2>3
  <2>5. HeldInv'
    BY <1>1, <2>2, <2>3, <2>4
  <2> QED
    BY <2>3, <2>5 DEF After, StoredInv
<1>4. CASE pending_analyze_file_id # None /\ ~CanOpen(pending_analyze_file_id)
  <2>1. UNCHANGED <<store, ui, job>>
    BY <1>4 DEF BeginAnalysis
  <2> QED
    BY <1>0, <2>1, HeldUntouched
       DEF After, StoredInv, store, ui, FoldersInv, FilesApart, FileOK, Registered, Readable, OnDisk,
           AsSaved, WorkStays
<1> QED
  BY <1>2, <1>3, <1>4

\* What is open is saved as the active file, which it was loaded from.
LEMMA ActiveIsRegistered ==
  ASSUME Before, active_file_id # None
  PROVE  /\ project # None /\ project.root \in Dirs /\ active_file_id \in Ids
         /\ active_file_id \in Registered(project.root)
<1>0. StoreTypeOK /\ UiTypeOK /\ FoldersInv /\ OnDisk /\ ActiveAgrees
  BY BeforeParts DEF Before, Agreement
<1>1. project # None /\ Listed(project, active_file_id) /\ active_file_id \in Ids
  BY <1>0 DEF ActiveAgrees, UiTypeOK
<1> QED
  BY <1>0, <1>1, InMemory DEF Listed

LEMMA SaveStores ==
  ASSUME Before, SaveResults
  PROVE  After
<1>0. StoreTypeOK /\ UiTypeOK /\ FoldersInv /\ OnDisk /\ HeldInv
  BY BeforeParts
<1>1. /\ active_file_id # None /\ program \in Programs /\ program # None
      /\ SaveAnalysis(project.root, active_file_id, program)
      /\ UNCHANGED <<meta, imports, ui, job>>
  BY <1>0 DEF SaveResults, CanSave, UiTypeOK
<1>2. ~analysis_job
  BY <1>1 DEF Before, OneHolder
<1>3. PICK d \in Dirs, id \in Ids : d = project.root /\ id = active_file_id /\ id \in Registered(d)
  BY <1>1, ActiveIsRegistered
<1>4. PICK prog \in Programs : prog = program
  BY <1>1
<1>5. prog.bin = imports[d][id] /\ SavedEdits(results[d][id]) \subseteq prog.edits
  BY <1>0, <1>1, <1>3, <1>4 DEF HeldInv, Belongs
<1>6. FoldersInv' /\ WorkStays /\ results'[d][id] = prog
  BY <1>0, <1>1, <1>3, <1>4, <1>5, OneSave
<1>7. Belongs(program)'
  BY <1>1, <1>3, <1>4, <1>5, <1>6, Something DEF ui, Belongs, SavedEdits
<1>8. OnDisk'
  BY <1>0, <1>1 DEF ui, OnDisk, AsSaved
<1> QED
  BY <1>1, <1>2, <1>6, <1>7, <1>8, HeldAtRest DEF After, StoredInv

LEMMA EditStores ==
  ASSUME Before, NEW e \in Edits, Edit(e)
  PROVE  After
<1>0. UiTypeOK /\ FoldersInv /\ OnDisk /\ HeldInv
  BY BeforeParts
<1>1. /\ program \in Programs /\ program # None /\ program' = [program EXCEPT !.edits = @ \cup {e}]
      /\ UNCHANGED <<store, project, active_file_id, job>>
  BY <1>0 DEF Edit, UiTypeOK
<1>2. ~analysis_job
  BY <1>1 DEF Before, OneHolder
<1>3. program'.bin = program.bin /\ program.edits \subseteq program'.edits
  BY <1>1 DEF Programs
<1>4. Belongs(program)'
  BY <1>0, <1>1, <1>3 DEF HeldInv, Belongs, store
<1>5. FoldersInv' /\ OnDisk' /\ WorkStays
  BY <1>0, <1>1 DEF store, FoldersInv, FilesApart, FileOK, Registered, Readable, OnDisk, AsSaved,
                    WorkStays
<1> QED
  BY <1>1, <1>2, <1>4, <1>5, HeldAtRest DEF After, StoredInv

\* A file deleted leaves with its copy and its results; the next one, when it
\* is shown, is another.
LEMMA DeleteStores ==
  ASSUME Orderly, Before, ConfirmDelete, Listed(project, pending_delete.id)
  PROVE  After
<1>0. /\ StoreTypeOK /\ UiTypeOK /\ AsksTypeOK /\ FoldersInv /\ OnDisk /\ HeldInv
      /\ project # None
  BY BeforeParts DEF ConfirmDelete
<1>1. PICK d \in Dirs, id \in Ids : d = project.root /\ id = pending_delete.id
  BY <1>0, InMemory DEF ConfirmDelete, AsksTypeOK
<1>2. /\ project \in Projects /\ Registered(d) = ToSet(project.files) /\ Readable(d)
      /\ IsInjective(project.files) /\ Listed(project, id)
  BY <1>0, <1>1, InMemory
<1>3. PICK left : left = RemoveFile(project, id)
  OBVIOUS
<1>4. /\ left \in Projects /\ left.root = d /\ IsInjective(left.files)
      /\ ToSet(left.files) = Registered(d) \ {id}
      /\ left.active_id = project.active_id \/ left.active_id = None \/ Listed(left, left.active_id)
      /\ project.active_id = id => left.active_id = None \/ Listed(left, left.active_id)
  BY <1>1, <1>2, <1>3, RemoveType, RemovedFile
<1>5. PICK next : next = left.active_id
  OBVIOUS
<1>6. /\ ~analysis_job /\ UNCHANGED job
      /\ project' = left /\ SaveMeta(left) /\ DropCopy(d, id) /\ DropSaved(d, id)
      /\ IF active_file_id # id THEN UNCHANGED <<program, active_file_id>>
         ELSE /\ active_file_id' = next
              /\ program' = IF next # None /\ Loads(imports[d][next], results[d][next])
                            THEN Loaded(imports[d][next], results[d][next]) ELSE None
  BY <1>1, <1>3, <1>5 DEF ConfirmDelete, DeleteFrom, AtRest, Orderly
<1>7. /\ imports'[d][id] = None /\ results'[d][id] = None
      /\ \A i \in Ids : i # id => imports'[d][i] = imports[d][i] /\ results'[d][i] = results[d][i]
      /\ \A e \in Dirs : e # d => imports'[e] = imports[e] /\ results'[e] = results[e]
  BY <1>0, <1>6 DEF DropCopy, DropSaved, StoreTypeOK
<1>8. Registered(d)' = Registered(d) \ {id}
  BY <1>0, <1>4, <1>6, Written
<1>9. \A i \in Ids : FileOK(d, i)'
  BY <1>0, <1>7, <1>8 DEF FoldersInv, FileOK
<1>10. FoldersInv' /\ OnDisk'
  BY <1>0, <1>4, <1>6, <1>7, <1>9, OneFolder
<1>11. WorkStays
  BY <1>7 DEF WorkStays
<1>12. program' # None => Belongs(program)'
  <2>1. CASE active_file_id # id
    <3>1. active_file_id # None => active_file_id \in Ids
      BY <1>0 DEF UiTypeOK
    <3> QED
      BY <1>0, <1>1, <1>4, <1>6, <1>7, <2>1, <3>1 DEF HeldInv, Belongs
  <2>2. CASE active_file_id = id /\ next = None
    BY <1>6, <2>2
  <2>3. CASE active_file_id = id /\ next # None
    <3>1. project.active_id = id
      BY <2>3, Something DEF Before, Agreement, ActiveAgrees
    <3>2. next \in Ids /\ next \in Registered(d) /\ next # id
      BY <1>4, <1>5, <2>3, <3>1 DEF Listed, Projects
    <3>3. /\ Loads(imports[d][next], results[d][next])
          /\ Loaded(imports[d][next], results[d][next]).bin = imports[d][next]
          /\ SavedEdits(results[d][next]) \subseteq Loaded(imports[d][next], results[d][next]).edits
      BY <1>0, <3>2, LoadsWhole
    <3> QED
      BY <1>4, <1>6, <1>7, <2>3, <3>2, <3>3 DEF Belongs
  <2> QED
    BY <2>1, <2>2, <2>3
<1> QED
  BY <1>6, <1>10, <1>11, <1>12, HeldAtRest DEF After, StoredInv

\* The worker has the program until it gives it back in its last message.
LEMMA WorkerStores ==
  ASSUME Before, RunAnalyzer \/ AnalyzerFails \/ WorkerDone
  PROVE  After
<1>0. JobTypeOK /\ FoldersInv /\ OnDisk /\ HeldInv /\ ChannelInv /\ worker # None
  BY BeforeParts DEF Before, RunAnalyzer, AnalyzerFails, WorkerDone
<1>1. UNCHANGED <<store, ui, analysis_job>> /\ Messages = {} /\ worker.program = worker.program
  BY <1>0 DEF ChannelInv, RunAnalyzer, AnalyzerFails, WorkerDone, GiveBack
<1>2. FoldersInv' /\ OnDisk' /\ WorkStays
  BY <1>0, <1>1 DEF store, ui, FoldersInv, FilesApart, FileOK, Registered, Readable, OnDisk, AsSaved,
                    WorkStays
<1>3. CASE RunAnalyzer
  <2>1. PICK m : m = [kind |-> "step"]
    OBVIOUS
  <2>2. msgs' = Append(msgs, m) /\ m.kind = "step"
    BY <1>3, <2>1 DEF RunAnalyzer
  <2>3. Messages' = {}
    BY <1>0, <1>1, <2>2, Sent
  <2>4. worker' = [worker EXCEPT !.left = @ - 1]
    BY <1>3 DEF RunAnalyzer
  <2>5. worker'.program = worker.program
    BY <1>0, <2>4 DEF JobTypeOK
  <2>6. HeldInv'
    BY <1>0, <1>1, <2>3, <2>5 DEF HeldInv, Belongs, store, ui
  <2> QED
    BY <1>2, <2>6 DEF After, StoredInv
<1>4. ASSUME NEW kind \in {"done", "failed"}, GiveBack(kind) PROVE After
  <2>1. PICK m : m = [kind |-> kind, program |-> worker.program]
    OBVIOUS
  <2>2. msgs' = Append(msgs, m) /\ m.kind # "step" /\ m.program = worker.program /\ worker' = None
    BY <1>4, <2>1 DEF GiveBack
  <2>3. Messages' = {Len(msgs')}
    BY <1>0, <1>1, <2>2, Sent
  <2>4. msgs'[Len(msgs')] = m
    BY <1>0, <2>2, AppendProperties DEF JobTypeOK
  <2>5. HeldInv'
    BY <1>0, <1>1, <2>2, <2>3, <2>4 DEF HeldInv, Belongs, store, ui
  <2> QED
    BY <1>2, <2>5 DEF After, StoredInv
<1> QED
  BY <1>3, <1>4 DEF AnalyzerFails, WorkerDone

\* What comes back is saved as the file it belongs to.
LEMMA PollStores ==
  ASSUME Before, PollAnalysis
  PROVE  After
<1>0. StoreTypeOK /\ UiTypeOK /\ JobTypeOK /\ FoldersInv /\ OnDisk /\ HeldInv /\ ChannelInv
  BY BeforeParts DEF Before
<1> DEFINE last == IF msgs = << >> THEN [kind |-> "none"] ELSE msgs[Len(msgs)]
           ended == last.kind \in {"done", "failed"}
<1>1. /\ analysis_job /\ msgs' = << >>
      /\ analysis_job' = ~(ended \/ (msgs = << >> /\ worker = None))
      /\ program' = IF ended THEN last.program ELSE program
      /\ IF last.kind = "done" /\ project # None /\ active_file_id # None
         THEN SaveAnalysis(project.root, active_file_id, last.program)
         ELSE UNCHANGED results
      /\ UNCHANGED <<meta, imports, project, active_file_id, worker>>
  BY DEF PollAnalysis, Disconnected
<1>2. OnDisk' /\ Messages' = {}
  BY <1>0, <1>1, NothingSent DEF OnDisk, AsSaved
<1>3. ended => last.program \in Programs /\ Belongs(last.program)
  <2>1. msgs = << >> => ~ended
    OBVIOUS
  <2>2. msgs # << >> => Len(msgs) \in 1 .. Len(msgs) /\ last \in Msgs /\ last = msgs[Len(msgs)]
    BY <1>0, ElementOfSeq, EmptySeq, LenProperties DEF JobTypeOK
  <2> HIDE DEF last
  <2>3. ended => last.program \in Programs /\ last.kind # "step" /\ Len(msgs) \in Messages
    BY <2>1, <2>2 DEF Msgs, Messages
  <2> QED
    BY <1>0, <1>1, <2>1, <2>2, <2>3 DEF HeldInv
<1> HIDE DEF last
<1>4. CASE last.kind = "done" /\ active_file_id # None
  <2>1. PICK d \in Dirs, id \in Ids : d = project.root /\ id = active_file_id /\ id \in Registered(d)
    BY <1>4, ActiveIsRegistered
  <2>2. PICK prog \in Programs : prog = last.program
    BY <1>3, <1>4
  <2>3. project # None /\ SaveAnalysis(d, id, prog)
    BY <1>1, <1>4, <2>1, <2>2, ActiveIsRegistered
  <2>4. prog.bin = imports[d][id] /\ SavedEdits(results[d][id]) \subseteq prog.edits
    BY <1>3, <1>4, <2>1, <2>2 DEF Belongs
  <2>5. FoldersInv' /\ WorkStays /\ results'[d][id] = prog
    BY <1>0, <1>1, <2>1, <2>2, <2>3, <2>4, OneSave
  <2>6. program' = prog /\ ~analysis_job'
    BY <1>1, <1>4, <2>2
  <2>7. HeldInv'
    BY <1>1, <2>1, <2>4, <2>5, <2>6, Something DEF HeldInv, Belongs, SavedEdits
  <2> QED
    BY <1>2, <2>5, <2>7 DEF After, StoredInv
<1>5. CASE ~(last.kind = "done" /\ active_file_id # None)
  <2>1. UNCHANGED results
    BY <1>1, <1>5
  <2>2. FoldersInv' /\ WorkStays
    BY <1>0, <1>1, <2>1 DEF FoldersInv, FilesApart, FileOK, Registered, Readable, WorkStays
  <2>3. HeldInv'
    BY <1>0, <1>1, <1>2, <1>3, <2>1 DEF HeldInv, Belongs
  <2> QED
    BY <1>2, <2>2, <2>3 DEF After, StoredInv
<1> QED
  BY <1>4, <1>5

\* The other steps write nothing and move no program.
LEMMA OtherStores ==
  ASSUME Before, \/ \E id \in Ids : RequestDelete(id) \/ AnalyzeFromTree(id)
                 \/ CancelDelete \/ CloseProgram \/ ForgetAnalyze \/ Crash
                 \/ ConfirmDelete /\ ~Listed(project, pending_delete.id)
                 \/ UNCHANGED vars
  PROVE  After
<1>0. FoldersInv /\ OnDisk /\ HeldInv
  BY BeforeParts
<1>1. UNCHANGED store
  BY DEF RequestDelete, AnalyzeFromTree, CancelDelete, CloseProgram, ForgetAnalyze, Crash,
         ConfirmDelete, vars
<1>2. FoldersInv' /\ WorkStays
  BY <1>0, <1>1 DEF store, FoldersInv, FilesApart, FileOK, Registered, Readable, WorkStays
<1>3. CASE Crash
  <2>1. project' = None /\ program' = None /\ analysis_job' = FALSE
    BY <1>3 DEF Crash, Restart
  <2> QED
    BY <1>2, <2>1 DEF After, StoredInv, OnDisk, HeldInv
<1>4. CASE ~Crash
  <2>1. /\ UNCHANGED <<project, job>> /\ active_file_id' \in {active_file_id, None}
        /\ program' \in {program, None}
    BY <1>4 DEF RequestDelete, AnalyzeFromTree, CancelDelete, CloseProgram, ForgetAnalyze,
                ConfirmDelete, ui, vars
  <2>2. OnDisk'
    BY <1>0, <1>1, <2>1 DEF store, OnDisk, AsSaved
  <2>3. HeldInv'
    BY <1>0, <1>1, <2>1, HeldUntouched DEF store
  <2> QED
    BY <1>2, <2>2, <2>3 DEF After, StoredInv
<1> QED
  BY <1>3, <1>4

LEMMA StepStores ==
  ASSUME Orderly
  PROVE  Before /\ [Next]_vars => After
<1> SUFFICES ASSUME Before, [Next]_vars PROVE After
  OBVIOUS
<1> QED
  BY OrderlySteps, ImportStores, CreateStores, OpenStores, TreeStores, BeginStores, DeleteStores,
     SaveStores, EditStores, WorkerStores, PollStores, OtherStores

-----------------------------------------------------------------------------
(* Theorems *)

LEMMA InitStored == Init => StoredInv
<1> SUFFICES ASSUME Init PROVE StoredInv
  OBVIOUS
<1>1. /\ \A d \in Dirs : meta[d] = None
      /\ \A d \in Dirs, id \in Ids : imports[d][id] = None /\ results[d][id] = None
      /\ project = None /\ program = None /\ analysis_job = FALSE
  BY DEF Init, StoreInit, NothingOpen
<1>2. FoldersInv
  BY <1>1, AbsentAssumption DEF FoldersInv, FilesApart, FileOK, Registered, Readable
<1> QED
  BY <1>1, <1>2 DEF StoredInv, OnDisk, HeldInv

\* What is on disk and in hand belongs together, for an orderly user.
THEOREM StoredTogether == Orderly => (Spec => []StoredInv)
<1> SUFFICES ASSUME Orderly PROVE Spec => []StoredInv
  OBVIOUS
<1>1. "busy" \notin Habits
  BY DEF Orderly
<1>2. Spec => []OneHolder
  BY <1>1, HoldsOnce
<1>3. IInv /\ OneHolder /\ StoredInv /\ [Next]_vars => StoredInv'
  BY StepStores DEF Before, After, IInv
<1> QED
  BY <1>2, <1>3, InitStored, Inductive, PTL DEF Spec

\* A registered file has an id.
LEMMA RegisteredIds ==
  ASSUME TypeOK, NEW d \in Dirs
  PROVE  Registered(d) \subseteq Ids
<1>1. CASE ~Readable(d)
  BY <1>1 DEF Registered
<1>2. CASE Readable(d)
  <2>1. meta[d].files \in Seq(Ids)
    BY <1>2, OpenType DEF TypeOK, Metas
  <2>2. \A i \in DOMAIN meta[d].files : meta[d].files[i] \in Ids
    BY <2>1
  <2> QED
    BY <1>2, <2>2 DEF Registered, ToSet
<1> QED
  BY <1>1, <1>2

\* Registered files have their copies, and ids of their own, for an orderly
\* user (import_file, remove_file, unique_id).
THEOREM CopiesRegistered == Orderly => (Spec => []RegisteredHasCopy)
<1> SUFFICES ASSUME Orderly PROVE Spec => []RegisteredHasCopy
  OBVIOUS
<1>1. TypeOK /\ StoredInv => RegisteredHasCopy
  <2> SUFFICES ASSUME TypeOK, StoredInv, NEW d \in Dirs
               PROVE  /\ \A id \in Registered(d) : imports[d][id] # None
                      /\ Readable(d) => IsInjective(meta[d].files)
    BY DEF RegisteredHasCopy
  <2>1. Registered(d) \subseteq Ids
    BY RegisteredIds
  <2> QED
    BY <2>1 DEF StoredInv, FoldersInv, FilesApart, FileOK
<1>2. Spec => []StoredInv
  BY StoredTogether
<1> QED
  BY <1>1, <1>2, TypeCorrect, PTL

\* Saved results are those of the registered copy, for an orderly user
\* (save_analysis_results after an open, an import, an analysis).
THEOREM ResultsOfCopy == Orderly => (Spec => []ResultsMatchCopy)
<1> SUFFICES ASSUME Orderly PROVE Spec => []ResultsMatchCopy
  OBVIOUS
<1>1. TypeOK /\ StoredInv => ResultsMatchCopy
  <2> SUFFICES ASSUME TypeOK, StoredInv, NEW d \in Dirs, NEW id \in Registered(d),
                      results[d][id] \in Programs
               PROVE  results[d][id].bin = imports[d][id]
    BY DEF ResultsMatchCopy
  <2>1. id \in Ids
    BY RegisteredIds
  <2> QED
    BY <2>1, Something DEF StoredInv, FoldersInv, FileOK
<1>2. Spec => []StoredInv
  BY StoredTogether
<1> QED
  BY <1>1, <1>2, TypeCorrect, PTL

\* No step takes saved edits away but with their file, for an orderly user:
\* what is saved over them had loaded them first (save_results,
\* poll_analysis_job).
THEOREM SavedWorkStays == Orderly => (Spec => SavedWorkKept)
<1> SUFFICES ASSUME Orderly PROVE Spec => SavedWorkKept
  OBVIOUS
<1>1. "busy" \notin Habits
  BY DEF Orderly
<1>2. Spec => []OneHolder
  BY <1>1, HoldsOnce
<1>3. Spec => []StoredInv
  BY StoredTogether
<1>4. IInv /\ OneHolder /\ StoredInv /\ [Next]_vars
        => [\A d \in Dirs, id \in Ids :
              \/ SavedEdits(results[d][id]) \subseteq SavedEdits(results'[d][id])
              \/ imports'[d][id] = None]_vars
  BY StepStores DEF Before, After, IInv, WorkStays
<1> QED
  BY <1>2, <1>3, <1>4, Inductive, PTL DEF Spec, SavedWorkKept
=============================================================================
