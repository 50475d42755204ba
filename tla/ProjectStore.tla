---------------------------- MODULE ProjectStore ----------------------------
(***************************************************************************)
(* The on-disk project of crates/ghidrust-core/src/project.rs: the project  *)
(* file with the registered files, the copies under imports/ and the saved  *)
(* analysis of each file under results/.                                    *)
(*                                                                         *)
(* A binary is a model value with the name it is imported under, a program  *)
(* is the binary it was loaded from and the user's edits to it: renames,     *)
(* comments and types differ in nothing the properties see.                 *)
(***************************************************************************)
EXTENDS Naturals, Sequences, SequencesExt

CONSTANTS
  Dirs,        \* project folders
  Bins,        \* contents of the binaries the user has
  NameOf,      \* the file name each of them is imported under
  Loadable,    \* those a loader accepts
  MaxCopies,   \* bound: files of one name registered in a project
  Edits,       \* edits a user makes to a program
  None,        \* the absent value
  Torn         \* a file that a crash left half written

ASSUME BinAssumption    == NameOf \in [Bins -> STRING] /\ Loadable \subseteq Bins
ASSUME CopyAssumption   == MaxCopies \in Nat \ {0}
ASSUME AbsentAssumption == None # Torn /\ {None, Torn} \cap (Bins \cup Dirs \cup Edits) = {}

VARIABLES
  meta,        \* ghidrust.project.json of each folder
  imports,     \* the copy under imports/ of each file
  results      \* results/<id>/analysis.bin of each file

store == <<meta, imports, results>>

Names    == {NameOf[b] : b \in Bins}
Ids      == [name : Names, n : 0 .. MaxCopies - 1]
Metas    == [files : Seq(Ids), active_id : Ids \cup {None}]
Programs == [bin : Bins, edits : SUBSET Edits]
Projects == [root : Dirs, files : Seq(Ids), active_id : Ids \cup {None}]

ASSUME NoneAssumption == {None, Torn} \cap (Programs \cup Ids \cup Metas \cup Projects) = {}

StoreTypeOK ==
  /\ meta \in [Dirs -> Metas \cup {None, Torn}]
  /\ imports \in [Dirs -> [Ids -> Bins \cup {None}]]
  /\ results \in [Dirs -> [Ids -> Programs \cup {None, Torn}]]

StoreInit ==
  /\ meta = [d \in Dirs |-> None]
  /\ imports = [d \in Dirs |-> [id \in Ids |-> None]]
  /\ results = [d \in Dirs |-> [id \in Ids |-> None]]

(***************************************************************************)
(* A Project is the folder and a copy of its metadata read earlier.         *)
(***************************************************************************)
Readable(d)    == meta[d] \notin {None, Torn}
Open(d)        == [root |-> d, files |-> meta[d].files, active_id |-> meta[d].active_id]
Listed(p, id)  == id \in ToSet(p.files)
Registered(d)  == IF Readable(d) THEN ToSet(meta[d].files) ELSE {}

\* BUG: the list is not looked at.
UniqueIdBare(name, files) == {[name |-> name, n |-> 0]}

(* The first name_n that no file of the list bears, if the bound has one. *)
UniqueId(name, files) ==
  {id \in Ids : /\ id.name = name /\ id \notin ToSet(files)
                /\ \A k \in 0 .. id.n - 1 : [name |-> name, n |-> k] \in ToSet(files)}

SaveMeta(p) == meta' = [meta EXCEPT ![p.root] = [files |-> p.files, active_id |-> p.active_id]]

(* import_file and remove_file: the project in memory and what it is on disk. *)
ImportFile(p, id) == [p EXCEPT !.files = Append(@, id), !.active_id = id]

RemoveFile(p, id) ==
  LET rest == RemoveAt(p.files, CHOOSE i \in DOMAIN p.files : p.files[i] = id)
  IN  [p EXCEPT !.files = rest,
                !.active_id = IF @ # id THEN @ ELSE IF rest = << >> THEN None ELSE rest[1]]

CopyIn(d, id, b)  == imports' = [imports EXCEPT ![d][id] = b]
DropCopy(d, id)   == imports' = [imports EXCEPT ![d][id] = None]
DropSaved(d, id)  == results' = [results EXCEPT ![d][id] = None]

(* load_program_with_results on a copy and what is saved for it: the loader  *)
(* must accept the one and the decoder the other, and the saved edits are    *)
(* replayed into the fresh program.                                          *)
Loads(copy, saved) == copy \in Loadable /\ saved # Torn
\* BUG: the saved edits are not replayed.
LoadedBare(copy, saved) == [bin |-> copy, edits |-> {}]

Loaded(copy, saved) == [bin |-> copy, edits |-> IF saved = None THEN {} ELSE saved.edits]

SaveAnalysis(d, id, prog) == results' = [results EXCEPT ![d][id] = prog]

(* analyze_file: a fresh program, whose edits are those of no one. *)
AnalyzeFile(d, id) == SaveAnalysis(d, id, [bin |-> imports[d][id], edits |-> {}])
=============================================================================
