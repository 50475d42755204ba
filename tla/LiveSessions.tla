---------------------------- MODULE LiveSessions ----------------------------
(***************************************************************************)
(* The table of live sessions of crates/ghidrust-core/src/process/mod.rs and *)
(* the processes, debug pumps and handles its entries stand for.             *)
(*                                                                         *)
(* The table is behind one lock, but an attach, a launch and a read do their *)
(* work outside it: they take a token, a look or a copy under the lock and   *)
(* come back later.  Any number of CALLERS use the API at once.  A debug     *)
(* session is seen here as its readers see it, through the run state it      *)
(* shows (StopProtocol); DebugPump is what is behind.                        *)
(***************************************************************************)
EXTENDS Naturals, FiniteSets

CONSTANTS
  Callers,     \* the threads that use the API
  Pids,        \* process ids; those in Started run before anyone attaches
  Started,
  MaxHandle,   \* the values a handle has: one that was closed is given again
  MaxToken,    \* the attaches and launches that are tried
  None

ASSUME PidAssumption == Started \subseteq Pids /\ None \notin Pids
ASSUME BoundAssumption == MaxHandle \in Nat /\ MaxToken \in Nat
ASSUME CallerAssumption == None \notin Callers /\ Callers \cap Nat = {}

Handles == 1 .. MaxHandle
Tokens  == 1 .. MaxToken    \* a session id is ps-<pid>-<token>
Modes   == {"observe", "debug"}
Views   == {"Running", "Stopped", "Exited"}

VARIABLES
  sessions,  \* SESSIONS: token -> Attached
  lock,      \* the caller that keeps the table locked, when one does so for long
  call,      \* where each caller is in a call that leaves the lock
  token,     \* now_token: no two sessions are given the same millisecond
  process,   \* what each process does
  debugged,  \* the processes this one debugs
  pump,      \* the debug session of a process: what it shows, and whether
             \* its thread still serves commands
  handles    \* the handle table of this process

library == <<sessions, lock, call, token>>
system  == <<process, debugged, pump, handles>>
vars    == <<library, system>>

Attached == [pid : Pids, mode : Modes, run_state : Views \cup {"Attached", "Suspended"},
             handle : Handles, thread : Handles \cup {None}, suspended : BOOLEAN,
             failed : BOOLEAN]   \* history: the last command told its caller it failed
Calls == [op : {"attach", "launch"}, token : Tokens, pid : Pids, mode : Modes,
          handle : Handles, thread : Handles \cup {None}]
         \cup [op : {"checked"}]
         \cup [op : {"wait"}, token : Tokens]
         \cup [op : {"read"}, token : Tokens, pid : Pids, handle : Handles,
               mode : Modes]   \* history: the mode of the session it copied from
Pumps == [view : Views, serves : BOOLEAN]
Objects == [kind : {"process", "thread"}, pid : Pids]

ASSUME NoneAssumption ==
  None \notin Nat \cup Attached \cup Calls \cup Pumps \cup Objects

TypeOK ==
  /\ sessions \in [Tokens -> Attached \cup {None}]
  /\ lock \in Callers \cup {None}
  /\ call \in [Callers -> Calls \cup {None}]
  /\ token \in 0 .. MaxToken
  /\ process \in [Pids -> {"none", "running", "suspended", "gone"}]
  /\ debugged \subseteq Pids
  /\ pump \in [Pids -> Pumps \cup {None}]
  /\ handles \in [Handles -> Objects \cup {None}]

Init ==
  /\ sessions = [t \in Tokens |-> None]
  /\ lock = None
  /\ call = [c \in Callers |-> None]
  /\ token = 0
  /\ process = [p \in Pids |-> IF p \in Started THEN "running" ELSE "none"]
  /\ debugged = {}
  /\ pump = [p \in Pids |-> None]
  /\ handles = [h \in Handles |-> None]

Live(t) == sessions[t] # None
Idle(c) == call[c] = None

\* The handle table gives its lowest free values: what was closed comes back at once.
Given(hs) == \A h \in Handles, k \in hs : handles[k] = None /\ (h < k => handles[h] # None \/ h \in hs)
Alive(p) == process[p] \in {"running", "suspended"}

----------------------------------------------------------------------------
(* attach and launch *)

\* OpenProcess; a target the tool then rejects (WOW64) leaves the handle open.
Opened(c, p, mode, debug) ==
  \E h \in Handles :
    /\ Given({h})
    /\ handles' = [handles EXCEPT ![h] = [kind |-> "process", pid |-> p]]
    /\ \/ /\ call' = [call EXCEPT ![c] =
                 [op |-> "attach", token |-> token', pid |-> p, mode |-> mode,
                  handle |-> h, thread |-> None]]
          /\ pump' = IF debug THEN [pump EXCEPT ![p] = [view |-> "Running", serves |-> TRUE]]
                              ELSE pump
       \/ UNCHANGED <<call, pump>>

AttachObserve(c, p) ==
  /\ Idle(c) /\ Alive(p) /\ token < MaxToken
  /\ token' = token + 1
  /\ Opened(c, p, "observe", FALSE)
  /\ UNCHANGED <<sessions, lock, process, debugged>>

(* DebugActiveProcess comes first: when OpenProcess fails after it, the      *)
(* process stays debugged and no session tells so.                           *)
AttachDebug(c, p) ==
  /\ Idle(c) /\ Alive(p) /\ p \notin debugged /\ token < MaxToken
  /\ token' = token + 1
  /\ debugged' = debugged \cup {p}
  /\ \/ Opened(c, p, "debug", TRUE)
     \/ UNCHANGED <<handles, call, pump>>
  /\ UNCHANGED <<sessions, lock, process>>

LaunchCheck(c) ==
  /\ Idle(c) /\ lock = None
  /\ \A t \in Tokens : ~Live(t)
  /\ call' = [call EXCEPT ![c] = [op |-> "checked"]]
  /\ UNCHANGED <<sessions, lock, token, system>>

Checked(c) == ~Idle(c) /\ call[c].op = "checked"

LaunchFails(c) ==
  /\ Checked(c)
  /\ call' = [call EXCEPT ![c] = None]
  /\ UNCHANGED <<sessions, lock, token, system>>

CreateProcess(c, p, mode) ==
  /\ Checked(c) /\ process[p] = "none" /\ token < MaxToken
  /\ token' = token + 1
  /\ \E h, th \in Handles :
       /\ h < th /\ Given({h, th})
       /\ handles' = [handles EXCEPT ![h] = [kind |-> "process", pid |-> p],
                                     ![th] = [kind |-> "thread", pid |-> p]]
       /\ call' = [call EXCEPT ![c] =
            [op |-> "launch", token |-> token', pid |-> p, mode |-> mode,
             handle |-> h, thread |-> th]]
  /\ process' = [process EXCEPT ![p] = IF mode = "observe" THEN "suspended" ELSE "running"]
  /\ IF mode = "debug"
     THEN /\ debugged' = debugged \cup {p}
          /\ pump' = [pump EXCEPT ![p] = [view |-> "Running", serves |-> TRUE]]
     ELSE UNCHANGED <<debugged, pump>>
  /\ UNCHANGED <<sessions, lock>>

Inserts(c) == ~Idle(c) /\ call[c].op \in {"attach", "launch"}

\* The first break was waited for; a debug session keeps no thread handle.
Entry(k) ==
  LET debug  == k.mode = "debug"
      launch == k.op = "launch"
  IN [pid |-> k.pid, mode |-> k.mode,
      run_state |-> IF debug THEN pump[k.pid].view
                    ELSE IF launch THEN "Suspended" ELSE "Attached",
      handle |-> k.handle,
      thread |-> IF debug THEN None ELSE k.thread,
      suspended |-> launch /\ (debug => pump[k.pid].view = "Stopped"),
      failed |-> FALSE]

Closed(hs) == [h \in Handles |-> IF h \in hs THEN None ELSE handles[h]]

\* BUG: the primary thread's handle is closed for an observe session too.
InsertClosingThread(c) ==
  LET k == call[c] IN
  /\ Inserts(c) /\ lock = None
  /\ sessions' = [sessions EXCEPT ![k.token] = Entry(k)]
  /\ handles' = Closed({k.thread})
  /\ call' = [call EXCEPT ![c] = None]
  /\ UNCHANGED <<lock, token, process, debugged, pump>>

Insert(c) ==
  LET k == call[c] IN
  /\ Inserts(c) /\ lock = None
  /\ sessions' = [sessions EXCEPT ![k.token] = Entry(k)]
  /\ handles' = Closed(IF k.mode = "debug" THEN {k.thread} ELSE {})
  /\ call' = [call EXCEPT ![c] = None]
  /\ UNCHANGED <<lock, token, process, debugged, pump>>

----------------------------------------------------------------------------
(* the operations under the lock *)

CanUse(c, t) == Idle(c) /\ lock = None /\ Live(t)
Debugs(c, t) == CanUse(c, t) /\ sessions[t].mode = "debug"

\* BUG: the entry keeps the run state it had.
GoKeepsState(c, t, resumes) ==
  LET s == sessions[t] IN
  /\ Debugs(c, t)
  /\ pump' = [pump EXCEPT ![s.pid].view = "Running"]
  /\ sessions' = [sessions EXCEPT ![t].failed = ~pump[s.pid].serves, ![t].suspended = @ /\ ~resumes]
  /\ UNCHANGED <<lock, call, token, process, debugged, handles>>

(* continue_exec and the steps show the debuggee running before they ask the *)
(* pump, which may refuse, answer too late or be gone.  After the exit of the *)
(* process the pump lets the last event go and returns.  What the entry       *)
(* copies is what is shown after the answer: the next event may have come.    *)
Go(c, t, resumes) ==
  LET s == sessions[t]
      p == s.pid
      goes == pump[p].serves /\ process[p] # "gone"
  IN
  /\ Debugs(c, t)
  /\ \/ \E view \in IF goes THEN Views ELSE {"Running"} :
          /\ pump[p].serves
          /\ pump' = [pump EXCEPT ![p] = [view |-> view, serves |-> goes]]
          /\ process' = [process EXCEPT ![p] = IF view = "Exited" THEN "gone" ELSE @]
          /\ sessions' = [sessions EXCEPT ![t] =
               [s EXCEPT !.run_state = view, !.failed = FALSE, !.suspended = @ /\ ~resumes]]
     \/ /\ pump' = [pump EXCEPT ![p].view = "Running"]
        /\ sessions' = [sessions EXCEPT ![t].failed = TRUE]
        /\ UNCHANGED process
  /\ UNCHANGED <<lock, call, token, debugged, handles>>

Continue(c, t) == Go(c, t, TRUE)
Step(c, t) == Go(c, t, FALSE)

\* The lock is kept until the debuggee stops or the time given is over.
WaitBegin(c, t) ==
  /\ Debugs(c, t)
  /\ lock' = c
  /\ call' = [call EXCEPT ![c] = [op |-> "wait", token |-> t]]
  /\ UNCHANGED <<sessions, token, system>>

Waits(c) == ~Idle(c) /\ call[c].op = "wait"

WaitEnd(c) ==
  /\ Waits(c)
  /\ sessions' = [sessions EXCEPT ![call[c].token].run_state = pump[sessions[call[c].token].pid].view]
  /\ lock' = None
  /\ call' = [call EXCEPT ![c] = None]
  /\ UNCHANGED <<token, system>>

Resume(c, t) ==
  LET s == sessions[t] IN
  /\ CanUse(c, t) /\ s.mode = "observe" /\ s.suspended /\ s.thread # None
  /\ process[s.pid] = "suspended"
  /\ process' = [process EXCEPT ![s.pid] = "running"]
  /\ sessions' = [sessions EXCEPT ![t].suspended = FALSE, ![t].run_state = "Attached"]
  /\ UNCHANGED <<lock, call, token, debugged, pump, handles>>

\* BUG: an error of DebugActiveProcessStop leaves the entry in the table.
DetachKeepsEntry(c, t) ==
  LET p == sessions[t].pid IN
  /\ Debugs(c, t)
  /\ \/ /\ sessions' = [sessions EXCEPT ![t] = None]
        /\ debugged' = debugged \ {p}
     \/ UNCHANGED <<sessions, debugged>>
  /\ pump' = [pump EXCEPT ![p] = None]
  /\ UNCHANGED <<lock, call, token, process, handles>>

\* BUG: the handle is closed here as it is for an observe session.
DetachDebugCloses(c, t) ==
  LET p == sessions[t].pid IN
  /\ Debugs(c, t)
  /\ sessions' = [sessions EXCEPT ![t] = None]
  /\ debugged' = debugged \ {p}
  /\ pump' = [pump EXCEPT ![p] = None]
  /\ handles' = Closed({sessions[t].handle})
  /\ UNCHANGED <<lock, call, token, process>>

(* The pump is told to detach and joined: it is over.  An error of           *)
(* DebugActiveProcessStop is dropped, so the process may go on being debugged *)
(* with no session left to say so.  The handle is not closed.                *)
DetachDebug(c, t) ==
  LET p == sessions[t].pid IN
  /\ Debugs(c, t)
  /\ sessions' = [sessions EXCEPT ![t] = None]
  /\ debugged' \in {debugged, debugged \ {p}}
  /\ pump' = [pump EXCEPT ![p] = None]
  /\ UNCHANGED <<lock, call, token, process, handles>>

\* BUG: the thread is closed without being resumed.
DetachSuspended(c, t) ==
  LET s == sessions[t] IN
  /\ CanUse(c, t) /\ s.mode = "observe"
  /\ sessions' = [sessions EXCEPT ![t] = None]
  /\ handles' = Closed({s.handle, s.thread})
  /\ UNCHANGED <<lock, call, token, process, debugged, pump>>

DetachObserve(c, t) ==
  LET s == sessions[t] IN
  /\ CanUse(c, t) /\ s.mode = "observe"
  /\ sessions' = [sessions EXCEPT ![t] = None]
  /\ process' = [process EXCEPT ![s.pid] =
       IF s.suspended /\ s.thread # None /\ @ = "suspended" THEN "running" ELSE @]
  /\ handles' = Closed({s.handle, s.thread})
  /\ UNCHANGED <<lock, call, token, debugged, pump>>

----------------------------------------------------------------------------
(* the readers: modules, read, regions, scan, watch, vtable probe *)

SessionHandle(c, t) ==
  /\ CanUse(c, t)
  /\ call' = [call EXCEPT ![c] = [op |-> "read", token |-> t, pid |-> sessions[t].pid,
                                   handle |-> sessions[t].handle, mode |-> sessions[t].mode]]
  /\ UNCHANGED <<sessions, lock, token, system>>

Reads(c) == ~Idle(c) /\ call[c].op = "read"

UseHandle(c) ==
  /\ Reads(c)
  /\ call' = [call EXCEPT ![c] = None]
  /\ UNCHANGED <<sessions, lock, token, system>>

----------------------------------------------------------------------------
(* the system *)

\* A debug event: the debuggee stops or ends.
Deliver(p) ==
  /\ pump[p] # None /\ pump[p].serves /\ pump[p].view = "Running" /\ Alive(p)
  /\ \/ pump' = [pump EXCEPT ![p].view = "Stopped"] /\ UNCHANGED process
     \/ /\ pump' = [pump EXCEPT ![p].view = "Exited"]
        /\ process' = [process EXCEPT ![p] = "gone"]
  /\ UNCHANGED <<library, debugged, handles>>

ProcessEnds(p) ==
  /\ Alive(p) /\ pump[p] = None
  /\ process' = [process EXCEPT ![p] = "gone"]
  /\ UNCHANGED <<library, debugged, pump, handles>>

Attach(c, p) == AttachObserve(c, p) \/ AttachDebug(c, p)
Launch(c) ==
  LaunchCheck(c) \/ LaunchFails(c) \/ (\E p \in Pids, mode \in Modes : CreateProcess(c, p, mode))
Use(c, t) ==
  \/ Continue(c, t) \/ Step(c, t) \/ WaitBegin(c, t) \/ Resume(c, t)
  \/ DetachDebug(c, t) \/ DetachObserve(c, t) \/ SessionHandle(c, t)
Finish(c) == Insert(c) \/ WaitEnd(c) \/ UseHandle(c)

Next ==
  \/ \E c \in Callers :
       \/ \E p \in Pids : Attach(c, p)
       \/ Launch(c)
       \/ \E t \in Tokens : Use(c, t)
       \/ Finish(c)
  \/ \E p \in Pids : Deliver(p) \/ ProcessEnds(p)

Spec == Init /\ [][Next]_vars

----------------------------------------------------------------------------
(* Properties *)

Owners == {t \in Tokens : Live(t)} \cup {c \in Callers : Inserts(c)}
Held(o) == LET r == IF o \in Callers THEN call[o] ELSE sessions[o]
           IN {r.handle} \cup (IF r.thread = None THEN {} ELSE {r.thread})

(* The handles of a session are open and its own: detaching one session      *)
(* (win_observe::close on the entry it removed) never closes what another    *)
(* session, or a launch about to insert, goes on using, and none is closed   *)
(* twice, although the system gives closed values again.                     *)
SessionOwnsHandles ==
  /\ \A t \in Tokens : Live(t) =>
       /\ handles[sessions[t].handle] = [kind |-> "process", pid |-> sessions[t].pid]
       /\ sessions[t].thread # None =>
            handles[sessions[t].thread] = [kind |-> "thread", pid |-> sessions[t].pid]
  /\ \A o1, o2 \in Owners : o1 # o2 => Held(o1) \cap Held(o2) = {}

(* A process created suspended is never left so: a session that resumes it,  *)
(* on request or when it is detached, or the launch that will insert that    *)
(* session, has its thread.                                                  *)
SuspendedIsOwned ==
  \A p \in Pids : process[p] = "suspended" =>
    \/ \E t \in Tokens : /\ Live(t) /\ sessions[t].pid = p
                         /\ sessions[t].suspended /\ sessions[t].thread # None
    \/ \E c \in Callers : Inserts(c) /\ call[c].pid = p /\ call[c].thread # None

(* A debug session in the table still debugs its process, alone: neither a   *)
(* second attach nor another session's detach takes the pump from it.  Nor   *)
(* does a pump go on without one: it is a session's, or that of an attach or *)
(* launch that will insert one.                                              *)
DebugIsExclusive ==
  /\ \A t \in Tokens : Live(t) /\ sessions[t].mode = "debug" =>
       /\ sessions[t].pid \in debugged /\ pump[sessions[t].pid] # None
       /\ \A u \in Tokens : Live(u) /\ sessions[u].mode = "debug"
                            /\ sessions[u].pid = sessions[t].pid => u = t
  /\ \A p \in Pids : pump[p] # None =>
       \/ \E t \in Tokens : Live(t) /\ sessions[t].mode = "debug" /\ sessions[t].pid = p
       \/ \E c \in Callers : Inserts(c) /\ call[c].mode = "debug" /\ call[c].pid = p

(* A reader works outside the lock on a copied handle.  What it reads is the *)
(* process it asked for, whoever attaches, launches and detaches meanwhile,  *)
(* with one exception: its own observe session was detached, which closes    *)
(* the handle and lets its value come back as another's.  The end of a debug *)
(* session is none, because process_detach closes no handle there.           *)
ReaderReadsItsTarget ==
  \A c \in Callers : Reads(c) =>
    \/ handles[call[c].handle] = [kind |-> "process", pid |-> call[c].pid]
    \/ call[c].mode = "observe" /\ ~Live(call[c].token)

(* The run state in an entry is a copy, refreshed after the commands that    *)
(* succeed: it says Stopped only of a debuggee that is shown stopped, unless *)
(* the last command reported a failure.                                      *)
StoppedCopyHolds ==
  \A t \in Tokens : Live(t) /\ sessions[t].mode = "debug" =>
    \/ sessions[t].run_state # "Stopped"
    \/ pump[sessions[t].pid].view = "Stopped"
    \/ sessions[t].failed
=============================================================================
