---------------------------- MODULE DebuggerPane ----------------------------
(***************************************************************************)
(* The debugger of the desktop application                                   *)
(* (crates/ghidrust-gui/src/debugger.rs): the session it drives, and what it *)
(* keeps to draw between two looks at the debuggee.                          *)
(*                                                                         *)
(* Every button is a call of the session table of LiveSessions, made on the  *)
(* UI thread.  Most are followed by a wait for the next stop (poll_stop); a  *)
(* stop that comes later is seen only when the user asks.  A thread's        *)
(* registers are told apart by the run of the debuggee they come from.       *)
(***************************************************************************)
EXTENDS Naturals

CONSTANTS
  Threads,      \* the debuggee's threads
  MaxSessions,  \* how often the user attaches or launches
  MaxStops,     \* stops of one debuggee
  None

ASSUME BoundAssumption == MaxSessions \in Nat /\ MaxStops \in Nat

Ids  == 1 .. MaxSessions
Regs == [id : Ids, tid : Threads, run : 0 .. MaxStops]
Stops == [id : Ids, tid : Threads, n : 1 .. MaxStops]
Modes == {"observe", "debug"}

ASSUME NoneAssumption ==
  None \notin [id : Ids, mode : Modes] \cup Stops \cup Regs \cup Threads

VARIABLES
  \* the library and the debuggee
  table,      \* the ids of the sessions in the table
  made,       \* sessions made so far
  view,       \* the run state the pump shows
  stop,       \* the last stop the pump shows
  stops,      \* stops of this debuggee so far
  exited,     \* it has ended
  context,    \* each thread's registers
  \* DebuggerState
  session, suspended, last_stop, active_thread_id, registers_cache,
  polling,    \* a handler is in its wait for a stop
  read_of,    \* history: the thread the registers were read from
  misread     \* history: the last read of registers failed

debuggee == <<view, stop, stops, exited, context>>
shown    == <<registers_cache, read_of>>
caches   == <<last_stop, active_thread_id, shown>>
pane     == <<session, suspended, caches, polling, misread>>
vars     == <<table, made, debuggee, pane>>

TypeOK ==
  /\ table \subseteq Ids /\ made \in 0 .. MaxSessions
  /\ view \in {"Running", "Stopped", "Exited"}
  /\ stop \in Stops \cup {None} /\ stops \in 0 .. MaxStops /\ exited \in BOOLEAN
  /\ context \in [Threads -> Regs \cup {None}]
  /\ session \in [id : Ids, mode : Modes] \cup {None}
  /\ suspended \in BOOLEAN
  /\ last_stop \in Stops \cup {None}
  /\ active_thread_id \in Threads \cup {None}
  /\ registers_cache \in Regs \cup {None} /\ read_of \in Threads \cup {None}
  /\ polling \in BOOLEAN /\ misread \in BOOLEAN

Init ==
  /\ table = {} /\ made = 0
  /\ view = "Running" /\ stop = None /\ stops = 0 /\ exited = FALSE
  /\ context = [t \in Threads |-> None]
  /\ session = None /\ suspended = FALSE
  /\ last_stop = None /\ active_thread_id = None /\ registers_cache = None /\ read_of = None
  /\ polling = FALSE /\ misread = FALSE

Debugs == session # None /\ session.mode = "debug"
Free == ~polling    \* the UI thread is between two handlers

----------------------------------------------------------------------------
(* the debuggee *)

\* A stop of one thread: all of them have run since the stop before.
DebuggeeStops(t) ==
  /\ Debugs /\ view = "Running" /\ ~exited /\ stops < MaxStops
  /\ exited' \in BOOLEAN
  /\ view' = IF exited' THEN "Exited" ELSE "Stopped"
  /\ stops' = stops + 1
  /\ stop' = [id |-> session.id, tid |-> t, n |-> stops']
  /\ context' = [u \in Threads |-> [id |-> session.id, tid |-> u, run |-> stops']]
  /\ UNCHANGED <<table, made, pane>>

Runs == view' = "Running" /\ stop' = None /\ UNCHANGED <<stops, exited, context>>

----------------------------------------------------------------------------
(* attach, launch, detach *)

\* The buttons are enabled without a session only; a failure changes nothing then.
Begin(mode, launched) ==
  LET id == made + 1 IN
  /\ Free /\ session = None /\ made < MaxSessions
  /\ launched => table = {}
  /\ table' = table \cup {id} /\ made' = id
  /\ session' = [id |-> id, mode |-> mode]
  /\ suspended' = launched
  /\ view' = "Running" /\ stop' = None /\ stops' = 0 /\ exited' = FALSE
  /\ context' = [t \in Threads |-> [id |-> id, tid |-> t, run |-> 0]]
  /\ polling' = (mode = "debug")
  /\ UNCHANGED <<caches, misread>>

attach_and_populate(mode) == Begin(mode, FALSE)
launch_and_populate(mode) == Begin(mode, TRUE)

\* BUG: the pane forgets the session and what it shows of it stays.
DetachKeepsCaches ==
  /\ Free /\ session # None
  /\ table' = table \ {session.id}
  /\ session' = None /\ suspended' = FALSE
  /\ UNCHANGED <<made, debuggee, caches, polling, misread>>

\* BUG: the session is forgotten, not detached.
DetachLocally ==
  /\ Free /\ session # None
  /\ session' = None /\ suspended' = FALSE
  /\ last_stop' = None /\ active_thread_id' = None /\ registers_cache' = None /\ read_of' = None
  /\ misread' = FALSE
  /\ UNCHANGED <<table, made, debuggee, polling>>

\* clear_live_caches
detach_session ==
  /\ Free /\ session # None
  /\ table' = table \ {session.id}
  /\ session' = None /\ suspended' = FALSE
  /\ last_stop' = None /\ active_thread_id' = None /\ registers_cache' = None /\ read_of' = None
  /\ misread' = FALSE
  /\ UNCHANGED <<made, debuggee, polling>>

----------------------------------------------------------------------------
(* looking at the debuggee *)

\* refresh_debug_views for the thread shown; a read that fails leaves the cache.
Views(t) ==
  \/ registers_cache' = context[t] /\ read_of' = t /\ misread' = FALSE
  \/ UNCHANGED shown /\ misread' = TRUE

ReadyStop == stop # None /\ view # "Running"

\* BUG: the stop is shown without looking at the debuggee again.
PollShowsStop ==
  /\ ReadyStop
  /\ last_stop' = stop /\ active_thread_id' = stop.tid
  /\ UNCHANGED <<shown, misread>>

\* The event brings the thread's registers, except that of the debuggee's end.
Polled ==
  /\ ReadyStop
  /\ last_stop' = stop /\ active_thread_id' = stop.tid
  /\ Views(stop.tid) /\ (misread' => exited)

PollTimesOut == ~ReadyStop /\ UNCHANGED <<caches, misread>>

poll_stop ==
  /\ polling \/ Debugs
  /\ polling' = FALSE
  /\ Polled \/ PollTimesOut
  /\ UNCHANGED <<table, made, debuggee, session, suspended>>

refresh_debug_views ==
  /\ Free /\ Debugs
  /\ \E t \in Threads :
       /\ active_thread_id \in {None, t}
       /\ active_thread_id' = t /\ Views(t)
  /\ UNCHANGED <<table, made, debuggee, session, suspended, last_stop, polling>>

SelectThread(t) ==
  /\ Free /\ Debugs /\ active_thread_id # None
  /\ active_thread_id' = t /\ Views(t)
  /\ UNCHANGED <<table, made, debuggee, session, suspended, last_stop, polling>>

\* The Register Manager reads the registers whenever it is drawn.
DrawRegisterManager ==
  /\ Free /\ Debugs /\ active_thread_id # None
  /\ Views(active_thread_id)
  /\ UNCHANGED <<table, made, debuggee, session, suspended, last_stop, active_thread_id, polling>>

----------------------------------------------------------------------------
(* commands *)

\* Continue and the steps wait for a stop; the console's continue, and a command
\* the pump answers with an error, do not.
Go(polls) ==
  /\ Free /\ Debugs
  /\ Runs /\ polling' = polls
  /\ UNCHANGED <<table, made, session, suspended, caches, misread>>

debug_continue == Go(TRUE)
debug_step     == Go(TRUE)
ConsoleContinue == Go(FALSE)

\* The break the pump asks for arrives as any other stop does.
debug_pause ==
  /\ Free /\ Debugs /\ polling' = TRUE
  /\ UNCHANGED <<table, made, debuggee, session, suspended, caches, misread>>

resume_session ==
  /\ Free /\ session # None /\ suspended
  /\ suspended' = FALSE
  /\ IF Debugs THEN Runs ELSE UNCHANGED debuggee
  /\ UNCHANGED <<table, made, session, caches, polling, misread>>

\* The whole cached set is written to the thread shown; without one, what the
\* thread has is read first.
apply_register_edit ==
  /\ Free /\ Debugs /\ active_thread_id # None
  /\ LET written == IF registers_cache = None THEN context[active_thread_id] ELSE registers_cache
     IN  /\ context' = [context EXCEPT ![active_thread_id] = written]
         /\ registers_cache' = written /\ read_of' = active_thread_id
  /\ UNCHANGED <<table, made, view, stop, stops, exited, session, suspended, last_stop,
                 active_thread_id, polling, misread>>

Next ==
  \/ \E t \in Threads : DebuggeeStops(t) \/ SelectThread(t)
  \/ \E mode \in Modes : attach_and_populate(mode) \/ launch_and_populate(mode)
  \/ detach_session \/ poll_stop \/ refresh_debug_views \/ DrawRegisterManager
  \/ debug_continue \/ debug_step \/ ConsoleContinue \/ debug_pause
  \/ resume_session \/ apply_register_edit

Spec == Init /\ [][Next]_vars

----------------------------------------------------------------------------
(* Properties *)

(* The pane is the table's only user: the session it shows is the one in the *)
(* table, and without one nothing is left attached behind its back.          *)
PaneOwnsTable == table = IF session = None THEN {} ELSE {session.id}

(* Nothing shown outlives the session it came from: the stop, the thread and *)
(* the registers of a debuggee are not kept, to be shown or written, for the *)
(* next one, though attach and launch clear nothing.                         *)
CachesAreOfTheSession ==
  /\ session = None => last_stop = None /\ active_thread_id = None /\ registers_cache = None
  /\ session # None => /\ last_stop # None => last_stop.id = session.id
                       /\ registers_cache # None => registers_cache.id = session.id

(* Once the stop the debuggee is at has been seen, the registers shown,     *)
(* which an edit writes back whole, are those the thread they were read from *)
(* has now, and that is the thread shown, unless the user selected one whose *)
(* registers could not be read: then the thread shown is given the registers *)
(* of the earlier one by an edit.  Of a stop that came after the wait was    *)
(* over, nothing is said until the user asks for it.                         *)
ShownStopHasItsRegisters ==
  Debugs /\ view = "Stopped" /\ last_stop = stop =>
    /\ read_of \in Threads /\ registers_cache = context[read_of]
    /\ read_of = active_thread_id \/ misread
=============================================================================
