--------------------------- MODULE MCDebuggerPane ---------------------------
(* Instances of DebuggerPane for TLC. *)
EXTENDS DebuggerPane

CONSTANTS t1, t2

TwoThreads == {t1, t2}
=============================================================================
