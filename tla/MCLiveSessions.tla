--------------------------- MODULE MCLiveSessions ---------------------------
(* Instances of LiveSessions for TLC. *)
EXTENDS LiveSessions

CONSTANTS c1, c2, p1, p2

TwoCallers == {c1, c2}
OneCaller  == {c1}
TwoPids    == {p1, p2}
FirstRuns  == {p1}
=============================================================================
