----------------------------- MODULE JobChannel -----------------------------
(***************************************************************************)
(* What the desktop application promises of a background job: a worker is    *)
(* started only when no job is under way, its messages wait in the order it  *)
(* sent them, its end comes after all of them, and the UI takes what waits   *)
(* out of the channel and is free for the next job once the worker has ended. *)
(***************************************************************************)
EXTENDS Sequences

VARIABLES
  on,       \* the UI has a job
  working,  \* its worker has not ended
  queue     \* the messages sent and not yet taken

vars == <<on, working, queue>>

Init == on = FALSE /\ working = FALSE /\ queue = << >>

(* The worker may have said its first word. *)
Start ==
  /\ ~on /\ queue = << >>
  /\ on' = TRUE /\ working' = TRUE
  /\ DOMAIN queue' \in {{}, {1}}

OneMore == \E i \in DOMAIN queue' : queue' = Append(queue, queue'[i])

Send ==
  /\ on /\ working
  /\ OneMore
  /\ UNCHANGED <<on, working>>

(* With an outcome, or without a word. *)
End ==
  /\ on /\ working
  /\ working' = FALSE
  /\ OneMore \/ UNCHANGED queue
  /\ UNCHANGED on

Take ==
  /\ on
  /\ queue' = << >>
  /\ on' = working
  /\ UNCHANGED working

Next == Start \/ Send \/ End \/ Take

Spec == Init /\ [][Next]_vars
=============================================================================
