---------------------------- MODULE MCWorkbench ----------------------------
(* Instances of Workbench for TLC. *)
EXTENDS Workbench

CONSTANTS a1, a2, d1, d2, e1

(* Two builds of one program: they are imported under the same name. *)
TwoBuilds  == {a1, a2}
OneBuild   == {a1}
SameName   == [b \in TwoBuilds |-> "app"]
TwoDirs    == {d1, d2}
OneEdit    == {e1}

(* Three files are registered at most: two of one name in a folder and one in  *)
(* the other.                                                                *)
ThreeFiles == \A dir1, dir2 \in Dirs :
  dir1 # dir2 => Cardinality(Registered(dir1)) + Cardinality(Registered(dir2)) <= 3

Disciplined == {"delete", "crash"}
Everything  == {"load", "busy", "delete", "recreate", "cli", "crash", "torn"}
=============================================================================
