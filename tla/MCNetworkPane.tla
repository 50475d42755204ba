--------------------------- MODULE MCNetworkPane ---------------------------
(* Instances of NetworkPane for TLC. *)
EXTENDS NetworkPane

CONSTANTS x1, x2, h1, svc, app

TwoPaths == {x1, x2}
OneHost  == {h1}

Frame(src, dst, len, owner) == [src |-> src, dst |-> dst, len |-> len, owner |-> owner]

(* Both directions of a conversation; the third frame exceeds the limit unless *)
(* the filter leaves out the ones before, and the last would still fit.       *)
Mixed == << Frame(2, 1, 1, None), Frame(1, 2, 2, svc), Frame(3, 3, 3, app), Frame(2, 1, 1, app) >>

OneReplay   == {Mixed}
SomeFilters == {None, app}
=============================================================================
