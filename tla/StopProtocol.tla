---------------------------- MODULE StopProtocol ----------------------------
(***************************************************************************)
(* What a debug session promises whoever reads it, the pump's threads and    *)
(* channels left out: one debug event is held at a time, the thread shown as *)
(* stopped is the one it is held for, and it is let go only together with    *)
(* the display, or when the session is given up.                             *)
(***************************************************************************)
CONSTANTS
  Tids,    \* the debuggee's threads
  None     \* the absent value

VARIABLES
  phase,   \* "serving", "closing" (detaching) or "closed"
  held,    \* the thread whose event is held
  view,    \* the run state shown
  shown    \* the thread shown as stopped

vars == <<phase, held, view, shown>>

Init == phase = "serving" /\ held = None /\ view = "Running" /\ shown = None

\* An event is taken, kept and shown in one step, and only when none is held.
Deliver(t) ==
  /\ phase = "serving" /\ held = None
  /\ held' = t /\ shown' = t
  /\ view' \in {"Stopped", "Exited"}
  /\ UNCHANGED phase

\* A reader may be told that the debuggee runs before it does, never after.
Announce ==
  /\ view' = "Running" /\ shown' = None
  /\ UNCHANGED <<phase, held>>

\* The event held is let go; after the exit of the process the session ends.
Resume ==
  /\ phase = "serving"
  /\ held' = None /\ view' = "Running"
  /\ shown' = None \/ (held = None /\ shown' = shown)
  /\ phase' \in {"serving", "closed"}

End ==
  /\ phase = "serving" /\ phase' = "closed"
  /\ UNCHANGED <<held, view, shown>>

\* Detaching lets the event go at once and tells so when it is over.
BeginDetach ==
  /\ phase = "serving" /\ phase' = "closing"
  /\ held' = None
  /\ UNCHANGED <<view, shown>>

EndDetach ==
  /\ phase = "closing" /\ phase' = "closed"
  /\ view' = "Detached"
  /\ UNCHANGED <<held, shown>>

Next == (\E t \in Tids : Deliver(t)) \/ Announce \/ Resume \/ End \/ BeginDetach \/ EndDetach

Spec == Init /\ [][Next]_vars
=============================================================================
