---------------------------- MODULE MCDebugPump ----------------------------
(* Instances of DebugPump for TLC. *)
EXTENDS DebugPump, TLC

CONSTANTS t1, t2, sys

OneThread  == {t1}
TwoThreads == {t1, t2}

OneAddr   == {0}
Adjacent  == {0, 1}

AllOps == {"continue", "pause", "query", "detach", "set_bp", "clear_id", "clear_addr",
           "set_context", "step", "step_out"}
BpOps   == {"continue", "set_bp", "clear_id", "clear_addr", "detach"}
RunOps  == {"continue", "pause"}
TimeOps == {"continue", "set_bp", "clear_id", "step", "detach"}

Symmetry == Permutations(Threads)
=============================================================================
