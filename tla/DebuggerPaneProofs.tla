------------------------- MODULE DebuggerPaneProofs -------------------------
(***************************************************************************)
(* What holds of DebuggerPane for any number of threads, sessions and stops:  *)
(* the pane owns its session, and what it shows is of the debuggee it drives. *)
(***************************************************************************)
EXTENDS DebuggerPane, TLAPS

\* What the pump and the debuggee hold is of the session the pane drives.
DebuggeeSound ==
  session # None =>
    /\ stop # None => stop.id = session.id /\ stop.n <= stops
    /\ \A t \in Threads : context[t] # None => context[t].id = session.id

\* Only a debug session is waited for, and the stop shown is no later one.
PaneSound ==
  /\ polling => Debugs
  /\ last_stop # None => last_stop.n <= stops
  /\ exited => view # "Stopped"

Inv ==
  TypeOK /\ DebuggeeSound /\ PaneSound /\ PaneOwnsTable /\ CachesAreOfTheSession
    /\ ShownStopHasItsRegisters

USE BoundAssumption, NoneAssumption

-----------------------------------------------------------------------------
(* Types *)

LEMMA InitType == Init => TypeOK
<1> SUFFICES ASSUME Init PROVE TypeOK
  OBVIOUS
<1>1. context \in [Threads -> Regs \cup {None}]
  BY DEF Init
<1>2. made \in 0 .. MaxSessions /\ stops \in 0 .. MaxStops
  BY DEF Init
<1>3. table \subseteq Ids
  BY DEF Init
<1> QED
  BY <1>1, <1>2, <1>3 DEF Init, TypeOK

LEMMA DebuggeeStopsType ==
  ASSUME TypeOK, NEW t \in Threads, DebuggeeStops(t)
  PROVE  TypeOK'
<1>1. stops' \in 1 .. MaxStops /\ session.id \in Ids
  BY DEF DebuggeeStops, Debugs, TypeOK
<1>2. stop' \in Stops /\ context' \in [Threads -> Regs]
  BY <1>1 DEF DebuggeeStops, Stops, Regs
<1> QED
  BY <1>1, <1>2 DEF DebuggeeStops, TypeOK, pane, caches, shown

LEMMA BeginType ==
  ASSUME TypeOK, NEW mode \in Modes, NEW launched \in BOOLEAN, Begin(mode, launched)
  PROVE  TypeOK'
<1>1. made + 1 \in Ids /\ made' \in 0 .. MaxSessions /\ table' \subseteq Ids
  BY DEF Begin, TypeOK, Ids
<1>2. session' \in [id : Ids, mode : Modes]
  BY <1>1 DEF Begin
<1>3. context' \in [Threads -> Regs \cup {None}]
  BY <1>1 DEF Begin, Regs
<1>4. polling' \in BOOLEAN /\ suspended' \in BOOLEAN
  <2>1. polling' = (mode = "debug") /\ suspended' = launched
    BY Zenon DEF Begin
  <2> QED
    BY <2>1
<1>5. view' = "Running" /\ stop' = None /\ stops' = 0 /\ exited' = FALSE
  BY DEF Begin
<1>6. UNCHANGED <<last_stop, active_thread_id, registers_cache, read_of, misread>>
  BY DEF Begin, caches, shown
<1>7. made' \in 0 .. MaxSessions /\ stops' \in 0 .. MaxStops
  BY <1>1, <1>5
<1> QED
  BY <1>1, <1>2, <1>3, <1>4, <1>5, <1>6, <1>7 DEF TypeOK

LEMMA ViewsType ==
  ASSUME TypeOK, NEW t \in Threads, Views(t)
  PROVE  /\ registers_cache' \in Regs \cup {None} /\ misread' \in BOOLEAN
         /\ read_of' \in Threads \cup {None}
  BY DEF Views, TypeOK, shown

LEMMA StepType == TypeOK /\ [Next]_vars => TypeOK'
<1> SUFFICES ASSUME TypeOK, [Next]_vars
             PROVE  TypeOK'
  OBVIOUS
<1>1. ASSUME NEW t \in Threads, DebuggeeStops(t) PROVE TypeOK'
  BY <1>1, DebuggeeStopsType
<1>2. ASSUME NEW t \in Threads, SelectThread(t) PROVE TypeOK'
  BY <1>2, ViewsType DEF SelectThread, TypeOK, debuggee
<1>3. ASSUME NEW mode \in Modes, attach_and_populate(mode) \/ launch_and_populate(mode)
      PROVE  TypeOK'
  BY <1>3, BeginType DEF attach_and_populate, launch_and_populate
<1>4. CASE detach_session
  BY <1>4 DEF detach_session, TypeOK, debuggee, shown
<1>5. CASE poll_stop
  <2>1. CASE Polled
    <3>1. stop \in Stops /\ stop.tid \in Threads
      BY <2>1 DEF Polled, ReadyStop, TypeOK, Stops
    <3>2. registers_cache' \in Regs \cup {None} /\ misread' \in BOOLEAN /\ read_of' \in Threads \cup {None}
      BY <2>1, <3>1, ViewsType DEF Polled
    <3> QED
      BY <1>5, <2>1, <3>1, <3>2 DEF poll_stop, Polled, TypeOK, debuggee
  <2>2. CASE PollTimesOut
    BY <1>5, <2>2 DEF poll_stop, PollTimesOut, TypeOK, debuggee, caches, shown
  <2> QED
    BY <1>5, <2>1, <2>2 DEF poll_stop
<1>6. CASE refresh_debug_views
  <2>1. PICK t \in Threads : active_thread_id' = t /\ Views(t)
    BY <1>6 DEF refresh_debug_views
  <2>2. registers_cache' \in Regs \cup {None} /\ misread' \in BOOLEAN /\ read_of' \in Threads \cup {None}
    BY <2>1, ViewsType
  <2> QED
    BY <1>6, <2>1, <2>2 DEF refresh_debug_views, TypeOK, debuggee
<1>7. CASE DrawRegisterManager
  <2>1. active_thread_id \in Threads /\ Views(active_thread_id)
    BY <1>7 DEF DrawRegisterManager, TypeOK
  <2>2. registers_cache' \in Regs \cup {None} /\ misread' \in BOOLEAN /\ read_of' \in Threads \cup {None}
    BY <2>1, ViewsType
  <2> QED
    BY <1>7, <2>1, <2>2 DEF DrawRegisterManager, TypeOK, debuggee
<1>8. CASE debug_continue \/ debug_step \/ ConsoleContinue
  BY <1>8 DEF debug_continue, debug_step, ConsoleContinue, Go, Runs, TypeOK, caches, shown
<1>9. CASE debug_pause
  BY <1>9 DEF debug_pause, TypeOK, debuggee, caches, shown
<1>10. CASE resume_session
  BY <1>10 DEF resume_session, Runs, TypeOK, debuggee, caches, shown
<1>11. CASE apply_register_edit
  <2>1. PICK regs \in Regs \cup {None} :
          /\ context' = [context EXCEPT ![active_thread_id] = regs]
          /\ registers_cache' = regs /\ read_of' = active_thread_id
    BY <1>11 DEF apply_register_edit, TypeOK, shown
  <2> QED
    BY <1>11, <2>1 DEF apply_register_edit, TypeOK
<1>12. CASE UNCHANGED vars
  BY <1>12 DEF vars, debuggee, pane, caches, shown, TypeOK
<1> QED
  BY <1>1, <1>2, <1>3, <1>4, <1>5, <1>6, <1>7, <1>8, <1>9, <1>10, <1>11, <1>12 DEF Next

-----------------------------------------------------------------------------
(* The invariant *)

LEMMA InitInv == Init => Inv
<1> SUFFICES ASSUME Init PROVE Inv
  OBVIOUS
<1>1. TypeOK
  BY InitType
<1> QED
  BY <1>1 DEF Init, Inv, DebuggeeSound, PaneSound, PaneOwnsTable, CachesAreOfTheSession,
     ShownStopHasItsRegisters, Debugs, shown

\* A debuggee's next stop is later than the one shown.
LEMMA DebuggeeStopsInv ==
  ASSUME Inv, NEW t \in Threads, DebuggeeStops(t)
  PROVE  Inv'
<1>1. TypeOK' /\ stops' = stops + 1 /\ stops \in Nat /\ stops' \in 1 .. MaxStops /\ session.id \in Ids
  BY DebuggeeStopsType DEF DebuggeeStops, Debugs, Inv, TypeOK
<1>2. stop' = [id |-> session.id, tid |-> t, n |-> stops'] /\ stop' \in Stops
  BY <1>1 DEF DebuggeeStops, Stops
<1>3. \A u \in Threads : context'[u].id = session.id
  BY DEF DebuggeeStops
<1>4. /\ UNCHANGED <<table, session, suspended, last_stop, active_thread_id, registers_cache,
                     read_of, polling, misread>>
  BY DEF DebuggeeStops, pane, caches, shown
<1>5. DebuggeeSound'
  BY <1>1, <1>2, <1>3, <1>4 DEF DebuggeeSound
<1>6. last_stop # None => last_stop.n \in 1 .. stops /\ last_stop \in Stops
  BY <1>1 DEF Inv, TypeOK, PaneSound, Stops
<1>7. PaneSound'
  <2>1. exited' => view' # "Stopped"
    BY DEF DebuggeeStops
  <2> QED
    BY <1>1, <1>4, <1>6, <2>1 DEF Inv, PaneSound, Debugs
<1>8. last_stop' # stop'
  BY <1>1, <1>2, <1>4, <1>6
<1> QED
  BY <1>1, <1>4, <1>5, <1>7, <1>8
  DEF Inv, PaneOwnsTable, CachesAreOfTheSession, ShownStopHasItsRegisters

\* Nothing is left of the last session when the next begins.
LEMMA BeginInv ==
  ASSUME Inv, NEW mode \in Modes, NEW launched \in BOOLEAN, Begin(mode, launched)
  PROVE  Inv'
<1>1. TypeOK' /\ made + 1 \in Ids
  BY BeginType DEF Begin, Inv, TypeOK, Ids
<1>2. session' = [id |-> made + 1, mode |-> mode] /\ session' # None
  BY <1>1 DEF Begin
<1>3. table' = {session'.id}
  BY <1>2 DEF Begin, Inv, PaneOwnsTable
<1>4. stop' = None /\ view' = "Running" /\ \A t \in Threads : context'[t].id = session'.id
  BY <1>2 DEF Begin
<1>5. last_stop' = None /\ registers_cache' = None
  BY DEF Begin, Inv, CachesAreOfTheSession, caches, shown
<1>6. polling' => Debugs'
  <2>1. polling' = (mode = "debug")
    BY Zenon DEF Begin
  <2> QED
    BY <1>2, <2>1 DEF Debugs
<1> QED
  BY <1>1, <1>2, <1>3, <1>4, <1>5, <1>6
  DEF Inv, DebuggeeSound, PaneSound, PaneOwnsTable, CachesAreOfTheSession, ShownStopHasItsRegisters

\* The registers of a thread are read, or the cache stays.
LEMMA ViewsInv ==
  ASSUME Inv, TypeOK', NEW t \in Threads, Views(t), Debugs, active_thread_id' = t,
         \/ last_stop' = last_stop
         \/ last_stop' = stop /\ (misread' => view # "Stopped"),
         ~polling',
         UNCHANGED <<table, made, debuggee, session, suspended>>
  PROVE  Inv'
<1>1. UNCHANGED <<table, view, stop, stops, exited, context, session>>
  BY DEF debuggee
<1>2. registers_cache' # None => registers_cache'.id = session.id
  BY DEF Views, shown, Debugs, Inv, DebuggeeSound, CachesAreOfTheSession
<1>3. last_stop' # None => last_stop'.id = session.id /\ last_stop'.n <= stops
  BY DEF Debugs, Inv, DebuggeeSound, PaneSound, CachesAreOfTheSession
<1>4. ASSUME view = "Stopped", last_stop' = stop
      PROVE  read_of' \in Threads /\ registers_cache' = context[read_of'] /\ (read_of' = t \/ misread')
  BY <1>4 DEF Views, shown, Inv, ShownStopHasItsRegisters
<1>5. PaneSound' /\ DebuggeeSound' /\ PaneOwnsTable'
  BY <1>1, <1>3 DEF Inv, PaneSound, DebuggeeSound, PaneOwnsTable
<1>6. CachesAreOfTheSession'
  BY <1>1, <1>2, <1>3 DEF CachesAreOfTheSession, Debugs
<1>7. ShownStopHasItsRegisters'
  BY <1>1, <1>4 DEF ShownStopHasItsRegisters
<1> QED
  BY <1>5, <1>6, <1>7 DEF Inv

\* Steps that let the debuggee run, or wait for it.
LEMMA RunsInv ==
  ASSUME Inv, TypeOK', Runs \/ UNCHANGED debuggee, polling' => Debugs,
         UNCHANGED <<table, session, caches, misread>>
  PROVE  Inv'
<1>1. UNCHANGED <<table, session, last_stop, active_thread_id, registers_cache, read_of,
                  misread, stops, context>>
  BY DEF Runs, debuggee, caches, shown
<1>2. stop' \in {stop, None}
  BY DEF Runs, debuggee
<1>3. DebuggeeSound' /\ PaneSound' /\ PaneOwnsTable' /\ CachesAreOfTheSession'
  <2>1. exited' => view' # "Stopped"
    BY DEF Runs, debuggee, Inv, PaneSound
  <2> QED
    BY <1>1, <1>2, <2>1
    DEF Inv, DebuggeeSound, PaneSound, PaneOwnsTable, CachesAreOfTheSession, Debugs
<1>4. ShownStopHasItsRegisters'
  BY <1>1 DEF Inv, ShownStopHasItsRegisters, Runs, debuggee, Debugs
<1> QED
  BY <1>3, <1>4 DEF Inv

LEMMA StepInv == Inv /\ [Next]_vars => Inv'
<1> SUFFICES ASSUME Inv, [Next]_vars
             PROVE  Inv'
  OBVIOUS
<1>0. TypeOK /\ TypeOK'
  BY StepType DEF Inv
<1>1. ASSUME NEW t \in Threads, DebuggeeStops(t) PROVE Inv'
  BY <1>1, DebuggeeStopsInv
<1>2. ASSUME NEW t \in Threads, SelectThread(t) PROVE Inv'
  <2>1. ~polling' /\ Views(t) /\ Debugs /\ active_thread_id' = t
        /\ UNCHANGED <<table, made, debuggee, session, suspended, last_stop>>
    BY <1>2 DEF SelectThread, Free
  <2> QED
    BY <1>0, <2>1, ViewsInv
<1>3. ASSUME NEW mode \in Modes, attach_and_populate(mode) \/ launch_and_populate(mode)
      PROVE  Inv'
  BY <1>3, BeginInv DEF attach_and_populate, launch_and_populate
<1>4. CASE detach_session
  BY <1>0, <1>4 DEF detach_session, Free, debuggee, Debugs, Inv, DebuggeeSound, PaneSound,
     PaneOwnsTable, CachesAreOfTheSession, ShownStopHasItsRegisters, shown
<1>5. CASE poll_stop
  <2>1. ~polling' /\ Debugs /\ UNCHANGED <<table, made, debuggee, session, suspended>>
    BY <1>5 DEF poll_stop, Inv, PaneSound
  <2>2. CASE Polled
    <3>1. stop.tid \in Threads /\ Views(stop.tid) /\ active_thread_id' = stop.tid /\ last_stop' = stop
      BY <1>0, <2>2 DEF Polled, ReadyStop, TypeOK, Stops
    <3>2. misread' => view # "Stopped"
      BY <2>2 DEF Polled, Inv, PaneSound
    <3> QED
      BY <1>0, <2>1, <3>1, <3>2, ViewsInv
  <2>3. CASE PollTimesOut
    BY <1>0, <2>1, <2>3, RunsInv DEF PollTimesOut
  <2> QED
    BY <1>5, <2>2, <2>3 DEF poll_stop
<1>6. CASE refresh_debug_views
  <2>1. PICK t \in Threads : active_thread_id' = t /\ Views(t)
    BY <1>6 DEF refresh_debug_views
  <2>2. ~polling' /\ Debugs /\ UNCHANGED <<table, made, debuggee, session, suspended, last_stop>>
    BY <1>6 DEF refresh_debug_views, Free
  <2> QED
    BY <1>0, <2>1, <2>2, ViewsInv
<1>7. CASE DrawRegisterManager
  <2>1. active_thread_id \in Threads /\ Views(active_thread_id) /\ active_thread_id' = active_thread_id
    BY <1>0, <1>7 DEF DrawRegisterManager, TypeOK
  <2>2. ~polling' /\ Debugs /\ UNCHANGED <<table, made, debuggee, session, suspended, last_stop>>
    BY <1>7 DEF DrawRegisterManager, Free
  <2> QED
    BY <1>0, <2>1, <2>2, ViewsInv
<1>8. CASE debug_continue \/ debug_step \/ ConsoleContinue
  BY <1>0, <1>8, RunsInv DEF debug_continue, debug_step, ConsoleContinue, Go
<1>9. CASE debug_pause
  BY <1>0, <1>9, RunsInv DEF debug_pause
<1>10. CASE resume_session
  BY <1>0, <1>10, RunsInv DEF resume_session, Inv, PaneSound
<1>11. CASE apply_register_edit
  <2>1. PICK regs \in Regs \cup {None} :
          /\ context' = [context EXCEPT ![active_thread_id] = regs]
          /\ registers_cache' = regs /\ read_of' = active_thread_id
          /\ regs \in {registers_cache, context[active_thread_id]}
    BY <1>0, <1>11 DEF apply_register_edit, TypeOK, shown
  <2>2. /\ active_thread_id \in Threads /\ Debugs
        /\ UNCHANGED <<table, made, view, stop, stops, exited, session, suspended, last_stop,
                       active_thread_id, polling, misread>>
    BY <1>0, <1>11 DEF apply_register_edit, TypeOK
  <2>3. context'[active_thread_id] = regs
    BY <1>0, <2>1, <2>2 DEF TypeOK
  <2>4. regs # None => regs.id = session.id
    BY <2>1, <2>2 DEF Inv, DebuggeeSound, CachesAreOfTheSession, Debugs
  <2>5. DebuggeeSound'
    BY <1>0, <2>1, <2>2, <2>4 DEF Inv, DebuggeeSound, TypeOK, Debugs
  <2>6. CachesAreOfTheSession'
    BY <2>1, <2>2, <2>4 DEF Inv, CachesAreOfTheSession, Debugs
  <2> QED
    BY <1>0, <2>1, <2>2, <2>3, <2>5, <2>6
    DEF Inv, PaneSound, Debugs, PaneOwnsTable, ShownStopHasItsRegisters
<1>12. CASE UNCHANGED vars
  BY <1>12, <1>0, RunsInv DEF vars, pane, caches, Inv, PaneSound
<1> QED
  BY <1>1, <1>2, <1>3, <1>4, <1>5, <1>6, <1>7, <1>8, <1>9, <1>10, <1>11, <1>12 DEF Next

-----------------------------------------------------------------------------

(* The session the pane shows is the one in the table, and none is left      *)
(* attached behind its back (attach_and_populate, detach_session).           *)
THEOREM TableOwned == Spec => []PaneOwnsTable
<1>1. Inv => PaneOwnsTable
  BY DEF Inv
<1> QED
  BY <1>1, InitInv, StepInv, PTL DEF Spec

(* What one debuggee has shown is never shown for, nor written to, the next  *)
(* (clear_live_caches on detach, where attach and launch clear nothing).     *)
THEOREM CachesOwned == Spec => []CachesAreOfTheSession
<1>1. Inv => CachesAreOfTheSession
  BY DEF Inv
<1> QED
  BY <1>1, InitInv, StepInv, PTL DEF Spec

(* Once the debuggee's stop has been seen, the registers shown, which an     *)
(* edit writes back whole, are those the thread they were read from has, and *)
(* it is the thread shown unless its registers could not be read (poll_stop, *)
(* refresh_debug_views, apply_register_edit).                                *)
THEOREM StopShownWhole == Spec => []ShownStopHasItsRegisters
<1>1. Inv => ShownStopHasItsRegisters
  BY DEF Inv
<1> QED
  BY <1>1, InitInv, StepInv, PTL DEF Spec
=============================================================================
