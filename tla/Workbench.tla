----------------------------- MODULE Workbench -----------------------------
(***************************************************************************)
(* The desktop application over one ProjectStore: the program the user has   *)
(* open, the project it belongs to, and the background analysis of           *)
(* crates/ghidrust-gui/src/app (project_io.rs, analysis_job.rs, menus.rs,    *)
(* program_edit.rs).                                                         *)
(*                                                                         *)
(* The UI thread runs one handler at a time.  An analysis hands the program  *)
(* to a WORKER thread, which reports in a channel the UI drains every        *)
(* frame; until then the user goes on using the UI.  The command line is     *)
(* another process that reads and writes the same folders.                   *)
(***************************************************************************)
EXTENDS ProjectStore

CONSTANTS
  NAnalyzers,  \* the analyzers selected for a run
  Habits       \* what happens beside the ordinary use of one project:
               \*   "load"      a binary is opened without importing it
               \*   "busy"      the user opens other files during an analysis
               \*   "delete"    files are deleted, "recreate": projects created
               \*               over an existing one
               \*   "cli"       the command line works on the same folders
               \*   "crash"     the application stops between two handlers,
               \*   "torn"      or while it writes a file

ASSUME AnalyzerAssumption == NAnalyzers \in Nat \ {0}
ASSUME WorkerAssumption == None \notin [program : Programs, left : 0 .. NAnalyzers]
ASSUME HabitAssumption == Habits \subseteq {"load", "busy", "delete", "recreate", "cli", "crash", "torn"}

VARIABLES
  project,                 \* the Project in memory
  program, active_file_id, \* the open program and the file it came from
  pending_delete,          \* the file whose deletion the user is asked about
                           \* (its folder is history: the code keeps the id)
  pending_analyze_file_id, \* the file the analysis dialog was opened for
  analysis_job,            \* an analysis is under way
  worker,                  \* the worker's program and the analyzers left
  msgs                     \* its channel to the UI

ui   == <<project, program, active_file_id>>
asks == <<pending_delete, pending_analyze_file_id>>
job  == <<analysis_job, worker, msgs>>
vars == <<store, ui, asks, job>>

Msgs == {[kind |-> "step"]} \cup [kind : {"done", "failed"}, program : Programs]

TypeOK ==
  /\ StoreTypeOK
  /\ project \in Projects \cup {None}
  /\ program \in Programs \cup {None}
  /\ active_file_id \in Ids \cup {None}
  /\ pending_delete \in [root : Dirs, id : Ids] \cup {None}
  /\ pending_analyze_file_id \in Ids \cup {None}
  /\ analysis_job \in BOOLEAN
  /\ worker \in [program : Programs, left : 0 .. NAnalyzers] \cup {None}
  /\ msgs \in Seq(Msgs)

NothingOpen ==
  /\ project = None /\ program = None /\ active_file_id = None
  /\ pending_delete = None /\ pending_analyze_file_id = None
  /\ analysis_job = FALSE /\ worker = None /\ msgs = << >>

Init == StoreInit /\ NothingOpen

(* No handler that replaces the program looks at analysis_job: whether the   *)
(* user calls one during an analysis is the user's habit.                    *)
AtRest == analysis_job => "busy" \in Habits

----------------------------------------------------------------------------
(* project_io.rs *)

LoadBinary(b) ==
  /\ "load" \in Habits /\ AtRest /\ b \in Loadable
  /\ program' = Loaded(b, None)
  /\ UNCHANGED <<store, project, active_file_id, asks, job>>

\* BUG: the active file is still that of the project before.
CreateProjectOver(d) ==
  /\ meta[d] = None \/ "recreate" \in Habits
  /\ project' = [root |-> d, files |-> << >>, active_id |-> None]
  /\ SaveMeta(project')
  /\ UNCHANGED <<imports, results, program, active_file_id, asks, job>>

CreateProject(d) ==
  /\ meta[d] = None \/ "recreate" \in Habits
  /\ project' = [root |-> d, files |-> << >>, active_id |-> None]
  /\ SaveMeta(project')
  /\ active_file_id' = None
  /\ UNCHANGED <<imports, results, program, asks, job>>

(* The active file is opened as well; when that fails it stays the active one. *)
OpenProject(d) ==
  LET id == meta[d].active_id IN
  /\ AtRest /\ Readable(d)
  /\ project' = Open(d)
  /\ active_file_id' = id
  /\ program' = IF id # None /\ Loads(imports[d][id], results[d][id])
                THEN Loaded(imports[d][id], results[d][id]) ELSE program
  /\ UNCHANGED <<store, asks, job>>

(* The import is the active file before it is opened. *)
ImportIntoProject(b) ==
  /\ AtRest /\ project # None
  /\ \E id \in UniqueId(NameOf[b], project.files) : LET d == project.root IN
       /\ project' = ImportFile(project, id)
       /\ CopyIn(d, id, b) /\ SaveMeta(project')
       /\ active_file_id' = id
       /\ program' = IF Loads(b, results[d][id]) THEN Loaded(b, results[d][id]) ELSE program
  /\ UNCHANGED <<results, asks, job>>

CanOpen(id) ==
  /\ project # None /\ Listed(project, id)
  /\ Loads(imports[project.root][id], results[project.root][id])

(* open_project_file where it succeeds; its early returns change nothing. *)
Show(id) ==
  /\ program' = Loaded(imports[project.root][id], results[project.root][id])
  /\ active_file_id' = id
  /\ project' = [project EXCEPT !.active_id = id]
  /\ SaveMeta(project')

OpenFromTree(id) ==
  /\ AtRest /\ CanOpen(id)
  /\ Show(id)
  /\ UNCHANGED <<imports, results, asks, job>>

RequestDelete(id) ==
  /\ "delete" \in Habits /\ project # None /\ Listed(project, id)
  /\ pending_delete' = [root |-> project.root, id |-> id]
  /\ UNCHANGED <<store, ui, pending_analyze_file_id, job>>

CancelDelete ==
  /\ pending_delete # None
  /\ pending_delete' = None
  /\ UNCHANGED <<store, ui, pending_analyze_file_id, job>>

\* BUG: the metadata is not saved.
DeleteFromUnsaved(p, id) ==
  /\ project' = RemoveFile(p, id) /\ UNCHANGED <<meta, program>>
  /\ DropCopy(p.root, id) /\ DropSaved(p.root, id)
  /\ active_file_id' = IF active_file_id = id THEN None ELSE active_file_id

(* Of the open project, whichever the user was asked about; when the file is *)
(* the active one the next of the project takes its place, if it loads.      *)
DeleteFrom(p, id) ==
  LET left == RemoveFile(p, id)
      next == left.active_id
  IN
  /\ project' = left
  /\ SaveMeta(left) /\ DropCopy(p.root, id) /\ DropSaved(p.root, id)
  /\ IF active_file_id # id THEN UNCHANGED <<program, active_file_id>> ELSE
     /\ active_file_id' = next
     /\ program' = IF next # None /\ Loads(imports[p.root][next], results[p.root][next])
                   THEN Loaded(imports[p.root][next], results[p.root][next]) ELSE None

ConfirmDelete ==
  /\ pending_delete # None /\ project # None /\ AtRest
  /\ pending_delete' = None
  /\ IF Listed(project, pending_delete.id) THEN DeleteFrom(project, pending_delete.id)
                                           ELSE UNCHANGED <<store, ui>>
  /\ UNCHANGED <<pending_analyze_file_id, job>>

CanSave == active_file_id # None /\ program # None /\ project # None

SaveResults ==
  /\ CanSave
  /\ SaveAnalysis(project.root, active_file_id, program)
  /\ UNCHANGED <<meta, imports, ui, asks, job>>

----------------------------------------------------------------------------
(* menus.rs, program_edit.rs.  What an edit does to an earlier one is left    *)
(* out: clearing a comment is one more edit.                                 *)

CloseProgram ==
  /\ program' = None /\ active_file_id' = None
  /\ UNCHANGED <<store, project, asks, job>>

Edit(e) ==
  /\ program # None
  /\ program' = [program EXCEPT !.edits = @ \cup {e}]
  /\ UNCHANGED <<store, project, active_file_id, asks, job>>

----------------------------------------------------------------------------
(* analysis_job.rs *)

AnalyzeFromTree(id) ==
  /\ ~analysis_job /\ project # None /\ Listed(project, id)
  /\ pending_analyze_file_id' = id
  /\ UNCHANGED <<store, ui, pending_delete, job>>

(* The menu's Auto Analyze and the dialog's Cancel. *)
ForgetAnalyze ==
  /\ pending_analyze_file_id' = None
  /\ UNCHANGED <<store, ui, pending_delete, job>>

\* BUG: the worker gets a copy.
HandOverCopy(prog) ==
  \/ /\ worker' = [program |-> prog, left |-> NAnalyzers]
     /\ program' = prog /\ analysis_job' = TRUE /\ msgs' = << >>
  \/ program' = prog /\ UNCHANGED job

\* BUG: the worker loads the binary anew.
HandOverFresh(prog) ==
  \/ /\ worker' = [program |-> [prog EXCEPT !.edits = {}], left |-> NAnalyzers]
     /\ program' = None /\ analysis_job' = TRUE /\ msgs' = << >>
  \/ program' = prog /\ UNCHANGED job

(* The program leaves the UI only after the thread exists, whose first act is *)
(* to wait for it: prog_tx.send finds its receiver.                          *)
HandOver(prog) ==
  \/ /\ worker' = [program |-> prog, left |-> NAnalyzers]
     /\ program' = None /\ analysis_job' = TRUE /\ msgs' = << >>
  \/ program' = prog /\ UNCHANGED job

BeginAnalysis ==
  LET id == pending_analyze_file_id IN
  /\ ~analysis_job
  /\ pending_analyze_file_id' = None
  /\ IF id = None
     THEN /\ program # None /\ HandOver(program)
          /\ UNCHANGED <<store, project, active_file_id>>
     ELSE IF CanOpen(id)
     THEN /\ active_file_id' = id
          /\ project' = [project EXCEPT !.active_id = id]
          /\ SaveMeta(project')
          /\ HandOver(Loaded(imports[project.root][id], results[project.root][id]))
          /\ UNCHANGED <<imports, results>>
     ELSE UNCHANGED <<store, ui, job>>
  /\ UNCHANGED pending_delete

RunAnalyzer ==
  /\ worker # None /\ worker.left > 0
  /\ worker' = [worker EXCEPT !.left = @ - 1]
  /\ msgs' = Append(msgs, [kind |-> "step"])
  /\ UNCHANGED <<store, ui, asks, analysis_job>>

\* BUG: the thread unwinds with its program.
GiveBackNothing(kind) ==
  /\ worker' = None
  /\ UNCHANGED <<store, ui, asks, analysis_job, msgs>>

(* An analyzer's error and a caught panic both give the program back. *)
GiveBack(kind) ==
  /\ worker' = None
  /\ msgs' = Append(msgs, [kind |-> kind, program |-> worker.program])
  /\ UNCHANGED <<store, ui, asks, analysis_job>>

AnalyzerFails == worker # None /\ worker.left > 0 /\ GiveBack("failed")
WorkerDone    == worker # None /\ worker.left = 0 /\ GiveBack("done")

\* BUG: only Done ends the job, a closed channel reads as an empty one.
PollForDone ==
  LET last  == IF msgs = << >> THEN [kind |-> "none"] ELSE msgs[Len(msgs)]
      ended == last.kind \in {"done", "failed"}
  IN
  /\ analysis_job /\ msgs' = << >>
  /\ analysis_job' = (last.kind # "done")
  /\ program' = IF ended THEN last.program ELSE program
  /\ UNCHANGED <<store, project, active_file_id, asks, worker>>

\* BUG: any message ends the job, as a worker's last one does.
PollEndsOnStep ==
  LET last  == IF msgs = << >> THEN [kind |-> "none"] ELSE msgs[Len(msgs)]
      ended == last.kind \in {"done", "failed"}
  IN
  /\ analysis_job /\ msgs' = << >>
  /\ analysis_job' = (msgs = << >> /\ worker # None)
  /\ program' = IF ended THEN last.program ELSE program
  /\ UNCHANGED <<store, project, active_file_id, asks, worker>>

(* Nothing waits and nothing will: the worker is gone. *)
Disconnected == msgs = << >> /\ worker = None

(* One frame drains the channel.  The program that comes back becomes the    *)
(* open one and, after a full run, is saved as whatever file is active now.  *)
(* A channel whose worker is gone ends the job as well.                      *)
PollAnalysis ==
  LET last  == IF msgs = << >> THEN [kind |-> "none"] ELSE msgs[Len(msgs)]
      ended == last.kind \in {"done", "failed"}
  IN
  /\ analysis_job
  /\ msgs' = << >>
  /\ analysis_job' = ~(ended \/ Disconnected)
  /\ program' = IF ended THEN last.program ELSE program
  /\ IF last.kind = "done" /\ project # None /\ active_file_id # None
     THEN SaveAnalysis(project.root, active_file_id, last.program)
     ELSE UNCHANGED results
  /\ UNCHANGED <<meta, imports, project, active_file_id, asks, worker>>

----------------------------------------------------------------------------
(* The command line, another process: ghidrust project import and analyze. *)

CliImport(d, b) ==
  /\ "cli" \in Habits /\ Readable(d)
  /\ \E id \in UniqueId(NameOf[b], meta[d].files) :
       SaveMeta(ImportFile(Open(d), id)) /\ CopyIn(d, id, b)
  /\ UNCHANGED <<results, ui, asks, job>>

CliAnalyze(d, id) ==
  /\ "cli" \in Habits /\ id \in Registered(d) /\ imports[d][id] \in Loadable
  /\ AnalyzeFile(d, id)
  /\ UNCHANGED <<meta, imports, ui, asks, job>>

(* The application stops: between two handlers, while save_analysis writes   *)
(* analysis.bin, or in remove_file before it saves the metadata.             *)
Restart ==
  /\ project' = None /\ program' = None /\ active_file_id' = None
  /\ pending_delete' = None /\ pending_analyze_file_id' = None
  /\ analysis_job' = FALSE /\ worker' = None /\ msgs' = << >>

Crash ==
  /\ "crash" \in Habits
  /\ Restart /\ UNCHANGED store

CrashInSave ==
  /\ "torn" \in Habits /\ CanSave
  /\ SaveAnalysis(project.root, active_file_id, Torn)
  /\ Restart /\ UNCHANGED <<meta, imports>>

CrashInSaveMeta(id) ==
  /\ "torn" \in Habits /\ CanOpen(id)
  /\ meta' = [meta EXCEPT ![project.root] = Torn]
  /\ Restart /\ UNCHANGED <<imports, results>>

CrashInRemove ==
  /\ "torn" \in Habits /\ pending_delete # None /\ project # None
  /\ Listed(project, pending_delete.id)
  /\ DropCopy(project.root, pending_delete.id)
  /\ DropSaved(project.root, pending_delete.id) \/ UNCHANGED results
  /\ Restart /\ UNCHANGED meta

----------------------------------------------------------------------------
UserActs ==
  \/ \E b \in Bins : LoadBinary(b) \/ ImportIntoProject(b)
  \/ \E d \in Dirs : CreateProject(d) \/ OpenProject(d)
  \/ \E id \in Ids : OpenFromTree(id) \/ RequestDelete(id) \/ AnalyzeFromTree(id)
  \/ CancelDelete \/ ConfirmDelete \/ SaveResults \/ CloseProgram
  \/ \E e \in Edits : Edit(e)
  \/ ForgetAnalyze \/ BeginAnalysis

WorkerActs == RunAnalyzer \/ AnalyzerFails \/ WorkerDone

CliActs ==
  \/ \E d \in Dirs, b \in Bins : CliImport(d, b)
  \/ \E d \in Dirs, id \in Ids : CliAnalyze(d, id)

Crashes == Crash \/ CrashInSave \/ CrashInRemove \/ \E id \in Ids : CrashInSaveMeta(id)

Next == UserActs \/ WorkerActs \/ PollAnalysis \/ CliActs \/ Crashes

Spec == Init /\ [][Next]_vars

(* Analyzers end, and the UI repaints while an analysis is under way. *)
FairSpec == Spec /\ WF_vars(WorkerActs) /\ WF_vars(PollAnalysis)

----------------------------------------------------------------------------
(* Properties *)

(* The UI and the Project it holds never disagree on the active file, which  *)
(* is a registered one: save_results and Project::active_file mean the same. *)
ActiveAgrees ==
  active_file_id # None =>
    /\ project # None /\ Listed(project, active_file_id)
    /\ project.active_id = active_file_id

(* What is under results/<id>/ was computed from the copy under imports/. *)
ResultsMatchCopy ==
  \A d \in Dirs : \A id \in Registered(d) :
    results[d][id] \in Programs => results[d][id].bin = imports[d][id]

(* A registered file has a copy of its own under imports/. *)
RegisteredHasCopy ==
  \A d \in Dirs : /\ \A id \in Registered(d) : imports[d][id] # None
                  /\ Readable(d) => IsInjective(meta[d].files)

(* With a user who opens no other file during an analysis (without "busy")    *)
(* the open program is in one place: the UI, the worker or the channel.       *)
(* begin_analysis_job moves it out and the worker's last message moves it     *)
(* back, and neither meets a second program.                                 *)
Messages  == {i \in 1 .. Len(msgs) : msgs[i].kind # "step"}
OneHolder ==
  /\ program # None => ~analysis_job
  /\ worker # None => analysis_job /\ Messages = {}
  /\ Messages \subseteq {Len(msgs)}
  /\ analysis_job => worker # None \/ Messages # {}

(* The programs there are, on whichever thread. *)
Held ==
  ({program} \ {None}) \cup (IF worker = None THEN {} ELSE {worker.program})
    \cup {msgs[i].program : i \in Messages}

Stays(prog) == \E other \in Held' : other.bin = prog.bin /\ prog.edits \subseteq other.edits

(* The user puts another program in the place of the open one, or none.      *)
Chosen ==
  \/ \E b \in Bins : LoadBinary(b) \/ ImportIntoProject(b)
  \/ \E d \in Dirs : OpenProject(d)
  \/ \E id \in Ids : OpenFromTree(id)
  \/ CloseProgram \/ ConfirmDelete
  \/ BeginAnalysis /\ pending_analyze_file_id # None

(* One opened during an analysis gives way to the worker's.                  *)
Displaced == "busy" \in Habits /\ PollAnalysis /\ program # None

(* No step loses a program or an edit to it, in the UI, at the worker or in   *)
(* the channel: it stays with all its edits, but for the open program that    *)
(* the user puts another in the place of, one opened during an analysis that  *)
(* has ended, and a crash.                                                   *)
ProgramKept ==
  [][\A prog \in Held : Stays(prog) \/ (prog = program /\ (Chosen \/ Displaced)) \/ Crashes]_vars

(* What a user saved survives: edits leave results/<id>/ only with the file. *)
SavedEdits(saved) == IF saved \in {None, Torn} THEN {} ELSE saved.edits
SavedWorkKept ==
  [][\A d \in Dirs, id \in Ids :
       \/ SavedEdits(results[d][id]) \subseteq SavedEdits(results'[d][id])
       \/ imports'[d][id] = None]_vars

(* Every analysis ends: the UI leaves its progress display. *)
AnalysisEnds == analysis_job ~> ~analysis_job

(* The analysis job implements the job channel, a crash apart: one worker at  *)
(* a time, whose messages wait in the order sent, leave the channel when they *)
(* are read, and end the job with the last.                                  *)
Channel == INSTANCE JobChannel WITH
  on <- analysis_job, working <- worker # None, queue <- msgs
ChannelKept == Channel!Init /\ [][Channel!Next \/ Crashes]_(Channel!vars)
=============================================================================
