------------------------- MODULE LiveSessionsProofs -------------------------
(***************************************************************************)
(* What holds of LiveSessions for any callers, processes and number of        *)
(* sessions: who owns a handle, a debuggee and a suspended process.           *)
(***************************************************************************)
EXTENDS LiveSessions, TLAPS

USE PidAssumption, BoundAssumption, CallerAssumption, NoneAssumption

-----------------------------------------------------------------------------
(* Types *)

LEMMA InitType == Init => TypeOK
<1> SUFFICES ASSUME Init PROVE TypeOK
  OBVIOUS
<1>1. token \in 0 .. MaxToken
  BY DEF Init
<1>2. process \in [Pids -> {"none", "running", "suspended", "gone"}]
  BY DEF Init
<1>3. sessions \in [Tokens -> Attached \cup {None}] /\ call \in [Callers -> Calls \cup {None}]
  BY DEF Init
<1>4. pump \in [Pids -> Pumps \cup {None}] /\ handles \in [Handles -> Objects \cup {None}]
  BY DEF Init
<1> QED
  BY <1>1, <1>2, <1>3, <1>4 DEF Init, TypeOK

LEMMA InsertingType ==
  ASSUME TypeOK, NEW c \in Callers, Inserts(c)
  PROVE  /\ call[c] \in [op : {"attach", "launch"}, token : Tokens, pid : Pids, mode : Modes,
                         handle : Handles, thread : Handles \cup {None}]
  BY DEF TypeOK, Inserts, Idle, Calls

LEMMA SessionType ==
  ASSUME TypeOK, NEW t \in Tokens, Live(t)
  PROVE  sessions[t] \in Attached
  BY DEF TypeOK, Live

\* What an attach or a launch brings to the lock.
LEMMA BroughtType ==
  ASSUME NEW op \in {"attach", "launch"}, NEW t \in Tokens, NEW p \in Pids, NEW mode \in Modes,
         NEW h \in Handles, NEW th \in Handles \cup {None}
  PROVE  [op |-> op, token |-> t, pid |-> p, mode |-> mode, handle |-> h, thread |-> th] \in Calls
  BY DEF Calls

LEMMA NextToken ==
  ASSUME TypeOK, token < MaxToken
  PROVE  token + 1 \in Tokens /\ token + 1 \in 0 .. MaxToken
  BY DEF TypeOK, Tokens

LEMMA OpenedType ==
  ASSUME TypeOK, token' \in Tokens, NEW c \in Callers, NEW p \in Pids, NEW mode \in Modes,
         NEW debug \in BOOLEAN, Opened(c, p, mode, debug)
  PROVE  /\ handles' \in [Handles -> Objects \cup {None}]
         /\ call' \in [Callers -> Calls \cup {None}]
         /\ pump' \in [Pids -> Pumps \cup {None}]
<1>1. PICK h \in Handles :
        /\ handles' = [handles EXCEPT ![h] = [kind |-> "process", pid |-> p]]
        /\ \/ /\ call' = [call EXCEPT ![c] =
                    [op |-> "attach", token |-> token', pid |-> p, mode |-> mode,
                     handle |-> h, thread |-> None]]
              /\ pump' = IF debug THEN [pump EXCEPT ![p] = [view |-> "Running", serves |-> TRUE]]
                                  ELSE pump
           \/ UNCHANGED <<call, pump>>
  BY DEF Opened
<1>2. [kind |-> "process", pid |-> p] \in Objects /\ [view |-> "Running", serves |-> TRUE] \in Pumps
  BY DEF Objects, Pumps, Views
<1>3. [op |-> "attach", token |-> token', pid |-> p, mode |-> mode, handle |-> h, thread |-> None]
        \in Calls
  BY BroughtType
<1>4. handles' \in [Handles -> Objects \cup {None}]
  BY <1>1, <1>2 DEF TypeOK
<1>5. call' \in [Callers -> Calls \cup {None}]
  BY <1>1, <1>3 DEF TypeOK
<1>6. pump' = pump \/ pump' = [pump EXCEPT ![p] = [view |-> "Running", serves |-> TRUE]]
  BY <1>1
<1>7. pump' \in [Pids -> Pumps \cup {None}]
  BY <1>2, <1>6 DEF TypeOK
<1> QED
  BY <1>4, <1>5, <1>7

LEMMA CreateType ==
  ASSUME TypeOK, NEW c \in Callers, NEW p \in Pids, NEW mode \in Modes, CreateProcess(c, p, mode)
  PROVE  TypeOK'
<1>1. PICK h \in Handles, th \in Handles :
        /\ handles' = [handles EXCEPT ![h] = [kind |-> "process", pid |-> p],
                                      ![th] = [kind |-> "thread", pid |-> p]]
        /\ call' = [call EXCEPT ![c] =
             [op |-> "launch", token |-> token', pid |-> p, mode |-> mode,
              handle |-> h, thread |-> th]]
  BY DEF CreateProcess
<1>2. token' \in Tokens /\ token' \in 0 .. MaxToken
  BY NextToken DEF CreateProcess
<1>3. /\ [kind |-> "process", pid |-> p] \in Objects /\ [kind |-> "thread", pid |-> p] \in Objects
      /\ [view |-> "Running", serves |-> TRUE] \in Pumps
  BY DEF Objects, Pumps, Views
<1>4. call' \in [Callers -> Calls \cup {None}]
  BY <1>1, <1>2, BroughtType DEF TypeOK
<1>5. handles' \in [Handles -> Objects \cup {None}]
  BY <1>1, <1>3 DEF TypeOK
<1>6. process' \in [Pids -> {"none", "running", "suspended", "gone"}]
  BY DEF CreateProcess, TypeOK
<1>7. debugged' \subseteq Pids /\ pump' \in [Pids -> Pumps \cup {None}]
  <2>1. CASE mode = "debug"
    <3>1. /\ debugged' = debugged \cup {p}
          /\ pump' = [pump EXCEPT ![p] = [view |-> "Running", serves |-> TRUE]]
      BY <2>1 DEF CreateProcess
    <3> QED
      BY <1>3, <3>1 DEF TypeOK
  <2>2. CASE mode # "debug"
    BY <2>2 DEF CreateProcess, TypeOK
  <2> QED
    BY <2>1, <2>2
<1> QED
  BY <1>2, <1>4, <1>5, <1>6, <1>7 DEF CreateProcess, TypeOK

\* The pump of a process whose session is used.
LEMMA EntryType ==
  ASSUME TypeOK, NEW k \in [op : {"attach", "launch"}, token : Tokens, pid : Pids, mode : Modes,
                            handle : Handles, thread : Handles \cup {None}],
         k.mode = "debug" => pump[k.pid] # None
  PROVE  Entry(k) \in Attached
<1> DEFINE debug  == k.mode = "debug"
           launch == k.op = "launch"
           rs == IF debug THEN pump[k.pid].view ELSE IF launch THEN "Suspended" ELSE "Attached"
           th == IF debug THEN None ELSE k.thread
           sus == launch /\ (debug => pump[k.pid].view = "Stopped")
<1>1. rs \in Views \cup {"Attached", "Suspended"}
  BY DEF TypeOK, Pumps
<1>2. th \in Handles \cup {None}
  OBVIOUS
<1>3. sus \in BOOLEAN
  OBVIOUS
<1>4. Entry(k) = [pid |-> k.pid, mode |-> k.mode, run_state |-> rs, handle |-> k.handle,
                  thread |-> th, suspended |-> sus, failed |-> FALSE]
  BY Zenon DEF Entry
<1> HIDE DEF rs, th, sus
<1> QED
  BY <1>1, <1>2, <1>3, <1>4 DEF Attached

-----------------------------------------------------------------------------
(* Owners *)

Rec(o) == IF o \in Callers THEN call[o] ELSE sessions[o]
Copied(k, s) == k.handle = s.handle /\ k.pid = s.pid /\ k.mode = s.mode
Same(r, s) == r.pid = s.pid /\ r.mode = s.mode /\ r.handle = s.handle /\ r.thread = s.thread

\* A debuggee is that of one owner, and stays so; a pump has its owner.
DebugOwned ==
  /\ \A p \in debugged : process[p] # "none"
  /\ \A o \in Owners : Rec(o).mode = "debug" => Rec(o).pid \in debugged /\ pump[Rec(o).pid] # None
  /\ \A o1, o2 \in Owners :
       Rec(o1).mode = "debug" /\ Rec(o2).mode = "debug" /\ Rec(o1).pid = Rec(o2).pid => o1 = o2
  /\ \A p \in Pids : pump[p] # None => \E o \in Owners : Rec(o).mode = "debug" /\ Rec(o).pid = p

\* So is a handle.
HandlesOwned ==
  /\ \A o \in Owners :
       /\ handles[Rec(o).handle] = [kind |-> "process", pid |-> Rec(o).pid]
       /\ Rec(o).thread # None => handles[Rec(o).thread] = [kind |-> "thread", pid |-> Rec(o).pid]
  /\ \A o1, o2 \in Owners : o1 # o2 =>
       /\ Rec(o1).handle # Rec(o2).handle
       /\ Rec(o1).thread # None => Rec(o1).thread # Rec(o2).thread

\* No token is given twice.
TokensOwned ==
  /\ \A t \in Tokens : Live(t) => t <= token
  /\ \A c \in Callers : Inserts(c) => call[c].token <= token /\ ~Live(call[c].token)
  /\ \A c, d \in Callers : Inserts(c) /\ Inserts(d) /\ call[c].token = call[d].token => c = d

\* Nor is one that is read with given to a session that is still to come, nor the
\* handle copied from a debug session to any other.
ReadersSound ==
  \A c \in Callers : Reads(c) =>
    /\ call[c].token <= token
    /\ \A d \in Callers : Inserts(d) => call[d].token # call[c].token
    /\ Live(call[c].token) => Copied(call[c], sessions[call[c].token])
    /\ call[c].mode = "debug" =>
         /\ handles[call[c].handle] = [kind |-> "process", pid |-> call[c].pid]
         /\ \A o \in Owners : Rec(o).handle = call[c].handle => o = call[c].token

\* Who waits keeps the table, and the session waited for in it.
WaitersSound ==
  \A c \in Callers : Waits(c) =>
    /\ lock = c
    /\ Live(call[c].token) /\ sessions[call[c].token].mode = "debug"

\* A process that is suspended has an owner that will let it run.
SuspendedOwned ==
  /\ \A c \in Callers : Inserts(c) /\ call[c].op = "attach" => call[c].thread = None
  /\ \A p \in Pids : process[p] = "suspended" =>
       \/ \E t \in Tokens : /\ Live(t) /\ sessions[t].pid = p /\ sessions[t].mode = "observe"
                            /\ sessions[t].suspended /\ sessions[t].thread # None
       \/ \E c \in Callers : /\ Inserts(c) /\ call[c].pid = p /\ call[c].mode = "observe"
                             /\ call[c].thread # None

Base == TypeOK /\ DebugOwned /\ HandlesOwned /\ TokensOwned

\* An owner is a caller or a token.
LEMMA OwnerKinds ==
  /\ Owners = {t \in Tokens : Live(t)} \cup {c \in Callers : Inserts(c)}
  /\ \A t \in Tokens : t \notin Callers /\ Rec(t) = sessions[t]
  /\ \A c \in Callers : Rec(c) = call[c]
  BY DEF Owners, Rec, Tokens

LEMMA OwnerType ==
  ASSUME TypeOK, NEW o \in Owners
  PROVE  /\ Rec(o).pid \in Pids /\ Rec(o).mode \in Modes /\ Rec(o).handle \in Handles
         /\ Rec(o).thread \in Handles \cup {None}
<1>1. CASE o \in Tokens /\ Live(o)
  BY <1>1, OwnerKinds, SessionType DEF Attached
<1>2. CASE o \in Callers /\ Inserts(o)
  BY <1>2, OwnerKinds, InsertingType
<1> QED
  BY <1>1, <1>2, OwnerKinds

-----------------------------------------------------------------------------
(* The four ways in which owners change *)

Keeps ==
  /\ token' \in Nat /\ token' >= token
  /\ \A t \in Tokens : /\ Live(t)' <=> Live(t)
                       /\ Live(t) => Same(sessions[t], sessions'[t])
  /\ \A c \in Callers : /\ Inserts(c)' <=> Inserts(c)
                        /\ Inserts(c) => call'[c] = call[c]

Enters(c) ==
  /\ ~Inserts(c) /\ Inserts(c)'
  /\ token' = token + 1 /\ call'[c].token = token + 1
  /\ UNCHANGED sessions
  /\ \A d \in Callers : d # c => call'[d] = call[d]

Moves(c, t) ==
  /\ Inserts(c) /\ ~Inserts(c)' /\ t = call[c].token /\ t \in Tokens
  /\ UNCHANGED token
  /\ \A d \in Callers : d # c => call'[d] = call[d]
  /\ \A u \in Tokens : u # t => sessions'[u] = sessions[u]
  /\ sessions'[t] # None
  /\ sessions'[t].pid = call[c].pid /\ sessions'[t].mode = call[c].mode
  /\ sessions'[t].handle = call[c].handle
  /\ sessions'[t].thread = IF call[c].mode = "debug" THEN None ELSE call[c].thread

Leaves(t) ==
  /\ Live(t) /\ sessions' = [sessions EXCEPT ![t] = None]
  /\ UNCHANGED <<call, token>>

LEMMA KeepsOwners ==
  ASSUME Keeps
  PROVE  Owners' = Owners /\ \A o \in Owners : Same(Rec(o), Rec(o)')
<1>1. Owners' = Owners
  BY DEF Keeps, Owners
<1>2. ASSUME NEW o \in Owners PROVE Same(Rec(o), Rec(o)')
  BY DEF Keeps, Owners, Rec, Same, Tokens
<1> QED
  BY <1>1, <1>2

LEMMA EntersOwners ==
  ASSUME NEW c \in Callers, Enters(c)
  PROVE  /\ Owners' = Owners \cup {c} /\ c \notin Owners
         /\ \A o \in Owners : Rec(o)' = Rec(o)
         /\ Rec(c)' = call'[c]
<1>1. \A d \in Callers : d # c => (Inserts(d)' <=> Inserts(d))
  BY DEF Enters, Inserts, Idle
<1>2. \A t \in Tokens : Live(t)' <=> Live(t)
  BY DEF Enters, Live
<1> QED
  BY <1>1, <1>2 DEF Enters, Owners, Rec, Tokens

LEMMA MovesOwners ==
  ASSUME TokensOwned, NEW c \in Callers, NEW t, Moves(c, t)
  PROVE  /\ Owners' = (Owners \ {c}) \cup {t} /\ c \in Owners /\ t \notin Owners
         /\ \A o \in Owners \ {c} : Rec(o)' = Rec(o)
         /\ Rec(t)' = sessions'[t] /\ Rec(c) = call[c]
<1>1. \A d \in Callers : d # c => (Inserts(d)' <=> Inserts(d))
  BY DEF Moves, Inserts, Idle
<1>2. \A u \in Tokens : u # t => (Live(u)' <=> Live(u))
  BY DEF Moves, Live
<1>3. t \in Tokens /\ ~Live(t) /\ Live(t)' /\ Inserts(c) /\ ~Inserts(c)' /\ t \notin Callers
  BY DEF Moves, TokensOwned, Live, Tokens
<1>4. Owners' = (Owners \ {c}) \cup {t} /\ c \in Owners /\ t \notin Owners
  BY <1>1, <1>2, <1>3 DEF Owners, Tokens
<1>5. \A o \in Owners \ {c} : Rec(o)' = Rec(o)
  BY <1>3, <1>4 DEF Moves, Owners, Rec, Tokens
<1> QED
  BY <1>3, <1>4, <1>5 DEF Rec

LEMMA LeavesOwners ==
  ASSUME TypeOK, NEW t \in Tokens, Leaves(t)
  PROVE  /\ Owners' = Owners \ {t} /\ t \in Owners
         /\ \A o \in Owners \ {t} : Rec(o)' = Rec(o)
         /\ Rec(t) = sessions[t]
<1>1. \A d \in Callers : Inserts(d)' <=> Inserts(d)
  BY DEF Leaves, Inserts, Idle
<1>2. \A u \in Tokens : Live(u)' <=> (Live(u) /\ u # t)
  BY DEF Leaves, Live, TypeOK
<1>3. Owners' = Owners \ {t} /\ t \in Owners
  BY <1>1, <1>2 DEF Owners, Leaves, Tokens
<1>4. \A o \in Owners \ {t} : Rec(o)' = Rec(o)
  BY DEF Leaves, Owners, Rec, Tokens, TypeOK
<1>5. Rec(t) = sessions[t]
  BY OwnerKinds
<1> QED
  BY <1>3, <1>4, <1>5

-----------------------------------------------------------------------------
(* Debuggees *)

\* What other steps do to the processes and the pumps.
DebugGrows ==
  /\ debugged \subseteq debugged'
  /\ \A p \in debugged' : process'[p] # "none"
  /\ \A p \in debugged : pump[p] # None => pump'[p] # None

LEMMA KeepsDebug ==
  ASSUME DebugOwned, Keeps, DebugGrows, \A p \in Pids : pump'[p] # None => pump[p] # None
  PROVE  DebugOwned'
<1>1. Owners' = Owners /\ \A o \in Owners : Same(Rec(o), Rec(o)')
  BY KeepsOwners
<1>2. \A o \in Owners' : Rec(o)'.mode = "debug" =>
        Rec(o)'.pid \in debugged' /\ pump'[Rec(o)'.pid] # None
  BY <1>1 DEF DebugOwned, DebugGrows, Same
<1>3. \A o1, o2 \in Owners' :
        Rec(o1)'.mode = "debug" /\ Rec(o2)'.mode = "debug" /\ Rec(o1)'.pid = Rec(o2)'.pid => o1 = o2
  BY <1>1 DEF DebugOwned, Same
<1>4. \A p \in Pids : pump'[p] # None =>
        \E o \in Owners' : Rec(o)'.mode = "debug" /\ Rec(o)'.pid = p
  BY <1>1 DEF DebugOwned, Same
<1> QED
  BY <1>2, <1>3, <1>4 DEF DebugOwned, DebugGrows

LEMMA EntersDebug ==
  ASSUME DebugOwned, NEW c \in Callers, Enters(c), DebugGrows,
         call'[c].mode = "debug" =>
           /\ call'[c].pid \notin debugged
           /\ call'[c].pid \in debugged' /\ pump'[call'[c].pid] # None,
         \A p \in Pids : pump'[p] # None =>
           pump[p] # None \/ (call'[c].mode = "debug" /\ call'[c].pid = p)
  PROVE  DebugOwned'
<1>1. /\ Owners' = Owners \cup {c} /\ c \notin Owners
      /\ \A o \in Owners : Rec(o)' = Rec(o)
      /\ Rec(c)' = call'[c]
  BY EntersOwners
<1>2. \A o \in Owners' : Rec(o)'.mode = "debug" =>
        Rec(o)'.pid \in debugged' /\ pump'[Rec(o)'.pid] # None
  BY <1>1 DEF DebugOwned, DebugGrows
<1>3. \A o1, o2 \in Owners' :
        Rec(o1)'.mode = "debug" /\ Rec(o2)'.mode = "debug" /\ Rec(o1)'.pid = Rec(o2)'.pid => o1 = o2
  BY <1>1 DEF DebugOwned
<1>4. \A p \in Pids : pump'[p] # None =>
        \E o \in Owners' : Rec(o)'.mode = "debug" /\ Rec(o)'.pid = p
  BY <1>1 DEF DebugOwned
<1> QED
  BY <1>2, <1>3, <1>4 DEF DebugOwned, DebugGrows

LEMMA MovesDebug ==
  ASSUME DebugOwned, TokensOwned, NEW c \in Callers, NEW t, Moves(c, t), DebugGrows,
         \A p \in Pids : pump'[p] # None => pump[p] # None
  PROVE  DebugOwned'
<1>1. /\ Owners' = (Owners \ {c}) \cup {t} /\ c \in Owners /\ t \notin Owners
      /\ \A o \in Owners \ {c} : Rec(o)' = Rec(o)
      /\ Rec(t)' = sessions'[t] /\ Rec(c) = call[c]
  BY MovesOwners
<1>2. Rec(t)'.mode = Rec(c).mode /\ Rec(t)'.pid = Rec(c).pid
  BY <1>1 DEF Moves
<1>3. \A o \in Owners' : Rec(o)'.mode = "debug" =>
        Rec(o)'.pid \in debugged' /\ pump'[Rec(o)'.pid] # None
  BY <1>1, <1>2 DEF DebugOwned, DebugGrows
<1>4. \A o1, o2 \in Owners' :
        Rec(o1)'.mode = "debug" /\ Rec(o2)'.mode = "debug" /\ Rec(o1)'.pid = Rec(o2)'.pid => o1 = o2
  BY <1>1, <1>2 DEF DebugOwned
<1>5. \A p \in Pids : pump'[p] # None =>
        \E o \in Owners' : Rec(o)'.mode = "debug" /\ Rec(o)'.pid = p
  BY <1>1, <1>2 DEF DebugOwned
<1> QED
  BY <1>3, <1>4, <1>5 DEF DebugOwned, DebugGrows

LEMMA LeavesDebug ==
  ASSUME TypeOK, DebugOwned, NEW t \in Tokens, Leaves(t),
         \A p \in debugged : process'[p] # "none",
         \/ sessions[t].mode = "observe" /\ UNCHANGED <<debugged, pump>>
         \/ /\ sessions[t].mode = "debug"
            /\ debugged' \in {debugged, debugged \ {sessions[t].pid}}
            /\ pump' = [pump EXCEPT ![sessions[t].pid] = None]
  PROVE  DebugOwned'
<1>1. /\ Owners' = Owners \ {t} /\ t \in Owners
      /\ \A o \in Owners \ {t} : Rec(o)' = Rec(o)
      /\ Rec(t) = sessions[t]
  BY LeavesOwners
<1>2. \A o \in Owners' : Rec(o)'.mode = "debug" =>
        Rec(o)'.pid \in debugged' /\ pump'[Rec(o)'.pid] # None
  <2>1. CASE sessions[t].mode = "observe" /\ UNCHANGED <<debugged, pump>>
    BY <1>1, <2>1 DEF DebugOwned
  <2>2. CASE /\ sessions[t].mode = "debug"
             /\ debugged' \in {debugged, debugged \ {sessions[t].pid}}
             /\ pump' = [pump EXCEPT ![sessions[t].pid] = None]
    <3> SUFFICES ASSUME NEW o \in Owners \ {t}, Rec(o).mode = "debug"
                 PROVE  Rec(o).pid \in debugged' /\ pump'[Rec(o).pid] # None
      BY <1>1
    <3>1. Rec(o).pid # sessions[t].pid /\ Rec(o).pid \in debugged /\ pump[Rec(o).pid] # None
      BY <1>1, <2>2 DEF DebugOwned
    <3>2. Rec(o).pid \in Pids
      BY OwnerType
    <3> QED
      BY <2>2, <3>1, <3>2 DEF TypeOK
  <2> QED
    BY <2>1, <2>2
<1>3. \A o1, o2 \in Owners' :
        Rec(o1)'.mode = "debug" /\ Rec(o2)'.mode = "debug" /\ Rec(o1)'.pid = Rec(o2)'.pid => o1 = o2
  BY <1>1 DEF DebugOwned
<1>4. \A p \in Pids : pump'[p] # None =>
        \E o \in Owners' : Rec(o)'.mode = "debug" /\ Rec(o)'.pid = p
  <2> SUFFICES ASSUME NEW p \in Pids, pump'[p] # None
               PROVE  \E o \in Owners' : Rec(o)'.mode = "debug" /\ Rec(o)'.pid = p
    OBVIOUS
  <2>1. pump[p] # None /\ (sessions[t].mode = "debug" => sessions[t].pid # p)
    BY DEF TypeOK, Modes
  <2>2. PICK o \in Owners : Rec(o).mode = "debug" /\ Rec(o).pid = p
    BY <2>1 DEF DebugOwned
  <2> QED
    BY <1>1, <2>1, <2>2
<1>5. debugged' \subseteq debugged
  OBVIOUS
<1> QED
  BY <1>2, <1>3, <1>4, <1>5 DEF DebugOwned

-----------------------------------------------------------------------------
(* Handles *)

\* A process handle is no thread handle.
LEMMA HandleKinds ==
  ASSUME TypeOK, HandlesOwned, NEW o1 \in Owners, NEW o2 \in Owners
  PROVE  Rec(o1).handle # Rec(o2).thread
<1>1. Rec(o1).handle # None
  BY OwnerType DEF Handles
<1>2. CASE Rec(o2).thread = None
  BY <1>1, <1>2
<1>3. CASE Rec(o2).thread # None
  <2>1. /\ handles[Rec(o1).handle] = [kind |-> "process", pid |-> Rec(o1).pid]
        /\ handles[Rec(o2).thread] = [kind |-> "thread", pid |-> Rec(o2).pid]
    BY <1>3 DEF HandlesOwned
  <2>2. handles[Rec(o1).handle].kind = "process" /\ handles[Rec(o2).thread].kind = "thread"
    BY <2>1
  <2> QED
    BY <2>2
<1> QED
  BY <1>2, <1>3

LEMMA KeepsHandles ==
  ASSUME TypeOK, HandlesOwned, Keeps,
         \A h \in Handles : handles[h] # None => handles'[h] = handles[h]
  PROVE  HandlesOwned'
<1>1. Owners' = Owners /\ \A o \in Owners : Same(Rec(o), Rec(o)')
  BY KeepsOwners
<1>2. \A p \in Pids, kind \in {"process", "thread"} : [kind |-> kind, pid |-> p] # None
  BY DEF Objects
<1>3. ASSUME NEW o \in Owners
      PROVE  /\ handles'[Rec(o)'.handle] = [kind |-> "process", pid |-> Rec(o)'.pid]
             /\ Rec(o)'.thread # None =>
                  handles'[Rec(o)'.thread] = [kind |-> "thread", pid |-> Rec(o)'.pid]
  BY <1>1, <1>2, OwnerType DEF HandlesOwned, Same
<1>4. \A o1, o2 \in Owners' : o1 # o2 =>
        /\ Rec(o1)'.handle # Rec(o2)'.handle
        /\ Rec(o1)'.thread # None => Rec(o1)'.thread # Rec(o2)'.thread
  BY <1>1 DEF HandlesOwned, Same
<1> QED
  BY <1>1, <1>3, <1>4 DEF HandlesOwned

LEMMA EntersHandles ==
  ASSUME TypeOK, HandlesOwned, NEW c \in Callers, Enters(c),
         NEW h \in Handles, NEW th \in Handles \cup {None}, NEW p \in Pids,
         call'[c].handle = h, call'[c].thread = th, call'[c].pid = p,
         handles[h] = None, handles'[h] = [kind |-> "process", pid |-> p],
         th # None => /\ handles[th] = None /\ handles'[th] = [kind |-> "thread", pid |-> p],
         \A g \in Handles : g # h /\ g # th => handles'[g] = handles[g]
  PROVE  HandlesOwned'
<1>1. /\ Owners' = Owners \cup {c} /\ c \notin Owners
      /\ \A o \in Owners : Rec(o)' = Rec(o)
      /\ Rec(c)' = call'[c]
  BY EntersOwners
<1>2. \A q \in Pids, kind \in {"process", "thread"} : [kind |-> kind, pid |-> q] # None
  BY DEF Objects
<1>3. ASSUME NEW o \in Owners
      PROVE  /\ Rec(o).handle \notin {h, th} /\ Rec(o).handle \in Handles
             /\ Rec(o).thread # None => Rec(o).thread \notin {h, th} /\ Rec(o).thread \in Handles
  <2>1. Rec(o).pid \in Pids /\ Rec(o).handle \in Handles /\ Rec(o).thread \in Handles \cup {None}
    BY OwnerType
  <2>2. handles[Rec(o).handle] # None /\ (Rec(o).thread # None => handles[Rec(o).thread] # None)
    <3>1. /\ handles[Rec(o).handle] = [kind |-> "process", pid |-> Rec(o).pid]
          /\ Rec(o).thread # None => handles[Rec(o).thread] = [kind |-> "thread", pid |-> Rec(o).pid]
      BY DEF HandlesOwned
    <3>2. /\ [kind |-> "process", pid |-> Rec(o).pid] # None
          /\ [kind |-> "thread", pid |-> Rec(o).pid] # None
      BY <1>2, <2>1
    <3> QED
      BY <3>1, <3>2
  <2>3. None \notin Handles
    BY DEF Handles
  <2> QED
    BY <2>1, <2>2, <2>3
<1>4. ASSUME NEW o \in Owners'
      PROVE  /\ handles'[Rec(o)'.handle] = [kind |-> "process", pid |-> Rec(o)'.pid]
             /\ Rec(o)'.thread # None =>
                  handles'[Rec(o)'.thread] = [kind |-> "thread", pid |-> Rec(o)'.pid]
  <2>1. CASE o = c
    BY <1>1, <2>1
  <2>2. CASE o # c
    <3>1. o \in Owners /\ Rec(o)' = Rec(o)
      BY <1>1, <2>2
    <3> QED
      BY <1>3, <3>1 DEF HandlesOwned
  <2> QED
    BY <2>1, <2>2
<1>5. \A o1, o2 \in Owners' : o1 # o2 =>
        /\ Rec(o1)'.handle # Rec(o2)'.handle
        /\ Rec(o1)'.thread # None => Rec(o1)'.thread # Rec(o2)'.thread
  <2> SUFFICES ASSUME NEW o1 \in Owners', NEW o2 \in Owners', o1 # o2
               PROVE  /\ Rec(o1)'.handle # Rec(o2)'.handle
                      /\ Rec(o1)'.thread # None => Rec(o1)'.thread # Rec(o2)'.thread
    OBVIOUS
  <2>1. CASE o1 = c
    BY <1>1, <1>3, <2>1
  <2>2. CASE o2 = c
    BY <1>1, <1>3, <2>2
  <2>3. CASE o1 # c /\ o2 # c
    BY <1>1, <2>3 DEF HandlesOwned
  <2> QED
    BY <2>1, <2>2, <2>3
<1> QED
  BY <1>4, <1>5 DEF HandlesOwned

LEMMA MovesHandles ==
  ASSUME TypeOK, HandlesOwned, TokensOwned, NEW c \in Callers, NEW t, Moves(c, t),
         handles' = Closed(IF call[c].mode = "debug" THEN {call[c].thread} ELSE {})
  PROVE  HandlesOwned'
<1>1. /\ Owners' = (Owners \ {c}) \cup {t} /\ c \in Owners /\ t \notin Owners
      /\ \A o \in Owners \ {c} : Rec(o)' = Rec(o)
      /\ Rec(t)' = sessions'[t] /\ Rec(c) = call[c]
  BY MovesOwners
<1>2. /\ Rec(t)'.pid = Rec(c).pid /\ Rec(t)'.handle = Rec(c).handle
      /\ Rec(t)'.thread = IF Rec(c).mode = "debug" THEN None ELSE Rec(c).thread
  BY <1>1 DEF Moves
<1>3. \A h \in Handles : h # Rec(c).thread \/ Rec(c).mode # "debug" => handles'[h] = handles[h]
  <2>1. CASE call[c].mode = "debug"
    BY <1>1, <2>1 DEF Closed
  <2>2. CASE call[c].mode # "debug"
    BY <1>1, <2>2 DEF Closed
  <2> QED
    BY <2>1, <2>2
<1>4. Rec(c).handle # Rec(c).thread
  BY <1>1, HandleKinds
<1>5. ASSUME NEW o \in Owners \ {c}
      PROVE  Rec(o).handle # Rec(c).thread /\ (Rec(o).thread # None => Rec(o).thread # Rec(c).thread)
  <2>1. Rec(o).handle # Rec(c).thread
    BY <1>1, HandleKinds
  <2>2. Rec(o).thread # None => Rec(o).thread # Rec(c).thread
    BY <1>1 DEF HandlesOwned
  <2> QED
    BY <2>1, <2>2
<1>6. ASSUME NEW o \in Owners'
      PROVE  /\ handles'[Rec(o)'.handle] = [kind |-> "process", pid |-> Rec(o)'.pid]
             /\ Rec(o)'.thread # None =>
                  handles'[Rec(o)'.thread] = [kind |-> "thread", pid |-> Rec(o)'.pid]
  <2>1. CASE o = t
    <3>1. Rec(c).handle \in Handles /\ Rec(c).thread \in Handles \cup {None}
      BY <1>1, OwnerType
    <3>2. handles'[Rec(c).handle] = handles[Rec(c).handle]
      BY <1>3, <1>4, <3>1
    <3>3. Rec(c).mode # "debug" /\ Rec(c).thread # None => handles'[Rec(c).thread] = handles[Rec(c).thread]
      BY <1>3, <3>1
    <3>4. /\ handles[Rec(c).handle] = [kind |-> "process", pid |-> Rec(c).pid]
          /\ Rec(c).thread # None => handles[Rec(c).thread] = [kind |-> "thread", pid |-> Rec(c).pid]
      BY <1>1 DEF HandlesOwned
    <3> QED
      BY <1>2, <2>1, <3>2, <3>3, <3>4
  <2>2. CASE o # t
    <3>1. o \in Owners \ {c} /\ Rec(o)' = Rec(o)
      BY <1>1, <2>2
    <3>2. Rec(o).handle \in Handles /\ Rec(o).thread \in Handles \cup {None}
      BY <3>1, OwnerType
    <3>3. /\ handles'[Rec(o).handle] = handles[Rec(o).handle]
          /\ Rec(o).thread # None => handles'[Rec(o).thread] = handles[Rec(o).thread]
      BY <1>3, <1>5, <3>1, <3>2
    <3> QED
      BY <3>1, <3>3 DEF HandlesOwned
  <2> QED
    BY <2>1, <2>2
<1>7. \A o1, o2 \in Owners' : o1 # o2 =>
        /\ Rec(o1)'.handle # Rec(o2)'.handle
        /\ Rec(o1)'.thread # None => Rec(o1)'.thread # Rec(o2)'.thread
  BY <1>1, <1>2, <1>5 DEF HandlesOwned
<1> QED
  BY <1>6, <1>7 DEF HandlesOwned

LEMMA LeavesHandles ==
  ASSUME TypeOK, HandlesOwned, NEW t \in Tokens, Leaves(t),
         \/ UNCHANGED handles
         \/ handles' = Closed({sessions[t].handle, sessions[t].thread})
  PROVE  HandlesOwned'
<1>1. /\ Owners' = Owners \ {t} /\ t \in Owners
      /\ \A o \in Owners \ {t} : Rec(o)' = Rec(o)
      /\ Rec(t) = sessions[t]
  BY LeavesOwners
<1>2. \A h \in Handles \ {Rec(t).handle, Rec(t).thread} : handles'[h] = handles[h]
  BY <1>1 DEF Closed
<1>3. ASSUME NEW o \in Owners \ {t}
      PROVE  /\ Rec(o).handle \in Handles \ {Rec(t).handle, Rec(t).thread}
             /\ Rec(o).thread # None => Rec(o).thread \in Handles \ {Rec(t).handle, Rec(t).thread}
  <2>1. Rec(o).handle # Rec(t).thread /\ Rec(t).handle # Rec(o).thread
    BY <1>1, HandleKinds
  <2>2. Rec(o).handle # Rec(t).handle /\ (Rec(o).thread # None => Rec(o).thread # Rec(t).thread)
    BY <1>1 DEF HandlesOwned
  <2> QED
    BY <2>1, <2>2, OwnerType
<1>4. \A o \in Owners' :
        /\ handles'[Rec(o)'.handle] = [kind |-> "process", pid |-> Rec(o)'.pid]
        /\ Rec(o)'.thread # None =>
             handles'[Rec(o)'.thread] = [kind |-> "thread", pid |-> Rec(o)'.pid]
  BY <1>1, <1>2, <1>3 DEF HandlesOwned
<1>5. \A o1, o2 \in Owners' : o1 # o2 =>
        /\ Rec(o1)'.handle # Rec(o2)'.handle
        /\ Rec(o1)'.thread # None => Rec(o1)'.thread # Rec(o2)'.thread
  BY <1>1 DEF HandlesOwned
<1> QED
  BY <1>4, <1>5 DEF HandlesOwned

-----------------------------------------------------------------------------
(* Tokens *)

LEMMA TokenNat == TypeOK => token \in Nat
  BY DEF TypeOK

LEMMA KeepsTokens ==
  ASSUME TypeOK, TokensOwned, Keeps
  PROVE  TokensOwned'
<1>1. \A t \in Tokens : Live(t)' => t <= token'
  BY TokenNat DEF TokensOwned, Keeps, Tokens, Live
<1>2. \A c \in Callers : Inserts(c) => call[c].token \in Tokens
  BY InsertingType
<1>3. \A c \in Callers : Inserts(c)' => call'[c].token <= token' /\ sessions'[call'[c].token] = None
  BY <1>2, TokenNat DEF TokensOwned, Keeps, Tokens, Live
<1>4. \A c, d \in Callers : Inserts(c)' /\ Inserts(d)' /\ call'[c].token = call'[d].token => c = d
  BY DEF TokensOwned, Keeps, Live
<1> QED
  BY <1>1, <1>3, <1>4 DEF TokensOwned, Live

LEMMA EntersTokens ==
  ASSUME TypeOK, TokensOwned, NEW c \in Callers, Enters(c), token + 1 \in Tokens
  PROVE  TokensOwned'
<1>1. \A d \in Callers : d # c => (Inserts(d)' <=> Inserts(d)) /\ call'[d] = call[d]
  BY DEF Enters, Inserts, Idle
<1>2. \A t \in Tokens : Live(t)' <=> Live(t)
  BY DEF Enters, Live
<1>3. /\ ~Live(token + 1)
      /\ \A d \in Callers : Inserts(d) => call[d].token # token + 1
  BY TokenNat DEF TokensOwned, Live
<1>4. \A t \in Tokens : Live(t)' => t <= token'
  BY <1>2, TokenNat DEF TokensOwned, Enters, Tokens, Live
<1>5. \A d \in Callers : Inserts(d) => call[d].token \in Tokens
  BY InsertingType
<1>6. \A d \in Callers : Inserts(d)' => call'[d].token <= token' /\ sessions'[call'[d].token] = None
  <2> SUFFICES ASSUME NEW d \in Callers, Inserts(d)'
               PROVE  call'[d].token <= token' /\ sessions'[call'[d].token] = None
    OBVIOUS
  <2>1. CASE d = c
    BY <1>2, <1>3, <2>1, TokenNat DEF Enters, Live
  <2>2. CASE d # c
    BY <1>1, <1>2, <1>5, <2>2, TokenNat DEF Enters, TokensOwned, Tokens, Live
  <2> QED
    BY <2>1, <2>2
<1>7. \A d, e \in Callers : Inserts(d)' /\ Inserts(e)' /\ call'[d].token = call'[e].token => d = e
  BY <1>1, <1>3 DEF TokensOwned, Enters, Live
<1> QED
  BY <1>4, <1>6, <1>7 DEF TokensOwned, Live

LEMMA MovesTokens ==
  ASSUME TypeOK, TokensOwned, NEW c \in Callers, NEW t, Moves(c, t)
  PROVE  TokensOwned'
<1>1. \A d \in Callers : Inserts(d)' <=> (Inserts(d) /\ d # c)
  BY DEF Moves, Inserts, Idle
<1>2. \A u \in Tokens : u # t => (Live(u)' <=> Live(u))
  BY DEF Moves, Live
<1>3. t <= token /\ \A d \in Callers : Inserts(d) /\ d # c => call[d].token # t
  BY DEF Moves, TokensOwned, Live
<1>4. \A d \in Callers : Inserts(d) => call[d].token \in Tokens
  BY InsertingType
<1> QED
  BY <1>1, <1>2, <1>3, <1>4 DEF Moves, TokensOwned, Live

LEMMA LeavesTokens ==
  ASSUME TypeOK, TokensOwned, NEW t \in Tokens, Leaves(t)
  PROVE  TokensOwned'
<1>1. \A d \in Callers : Inserts(d)' <=> Inserts(d)
  BY DEF Leaves, Inserts, Idle
<1>2. \A u \in Tokens : Live(u)' => Live(u)
  BY DEF Leaves, Live, TypeOK
<1>3. \A d \in Callers : Inserts(d) => call[d].token \in Tokens
  BY InsertingType
<1> QED
  BY <1>1, <1>2, <1>3 DEF Leaves, TokensOwned, Live

-----------------------------------------------------------------------------
(* Readers and waiters *)

\* What a reader copied, before and after a step.
Keepable(c) ==
  LET k == call[c] IN
  /\ k.token <= token
  /\ \A d \in Callers : Inserts(d) => call[d].token # k.token
  /\ Live(k.token) => Copied(k, sessions[k.token])
  /\ k.mode = "debug" =>
       /\ handles[k.handle] = [kind |-> "process", pid |-> k.pid]
       /\ \A o \in Owners : Rec(o).handle = k.handle => o = k.token

LEMMA ReaderType ==
  ASSUME TypeOK, NEW c \in Callers, Reads(c)
  PROVE  /\ call[c] \in [op : {"read"}, token : Tokens, pid : Pids, handle : Handles, mode : Modes]
         /\ call[c].token \in Tokens /\ call[c].handle \in Handles /\ call[c].pid \in Pids
         /\ [kind |-> "process", pid |-> call[c].pid] # None
  BY DEF TypeOK, Reads, Idle, Calls, Objects

LEMMA KeepsReaders ==
  ASSUME TypeOK, TypeOK', TokensOwned, HandlesOwned, ReadersSound, Keeps,
         \A h \in Handles : handles[h] # None => handles'[h] = handles[h],
         \A c \in Callers : Reads(c)' =>
           \/ Reads(c) /\ call'[c] = call[c]
           \/ Live(call'[c].token) /\ Copied(call'[c], sessions[call'[c].token])
  PROVE  ReadersSound'
<1> SUFFICES ASSUME NEW c \in Callers, Reads(c)'
             PROVE  Keepable(c)'
  BY DEF ReadersSound, Keepable
<1> DEFINE k == call'[c]
<1>1. k.token \in Tokens /\ k.handle \in Handles /\ k.pid \in Pids
      /\ [kind |-> "process", pid |-> k.pid] # None
  BY DEF TypeOK, Reads, Idle, Calls, Objects
<1>2. /\ k.token <= token
      /\ \A d \in Callers : Inserts(d) => call[d].token # k.token
      /\ Live(k.token) => Copied(k, sessions[k.token])
      /\ k.mode = "debug" =>
           /\ handles[k.handle] = [kind |-> "process", pid |-> k.pid]
           /\ \A o \in Owners : Rec(o).handle = k.handle => o = k.token
  <2>1. CASE Reads(c) /\ call'[c] = call[c]
    BY <2>1 DEF ReadersSound
  <2>2. CASE Live(k.token) /\ Copied(k, sessions[k.token])
    <3>1. k.token \in Owners /\ Rec(k.token).handle = k.handle /\ Rec(k.token).pid = k.pid
      BY <1>1, <2>2, OwnerKinds DEF Copied
    <3>2. /\ handles[k.handle] = [kind |-> "process", pid |-> k.pid]
          /\ \A o \in Owners : Rec(o).handle = k.handle => o = k.token
      BY <3>1 DEF HandlesOwned
    <3> QED
      BY <1>1, <2>2, <3>2 DEF TokensOwned, Live
  <2> QED
    BY <2>1, <2>2
<1> HIDE DEF k
<1>3. k.token <= token'
  BY <1>1, <1>2, TokenNat DEF Keeps, Tokens
<1>4. \A d \in Callers : Inserts(d)' => call'[d].token # k.token
  BY <1>2 DEF Keeps
<1>5. sessions'[k.token] # None => Copied(k, sessions'[k.token])
  BY <1>1, <1>2 DEF Keeps, Same, Live, Copied
<1>6. k.mode = "debug" =>
        /\ handles'[k.handle] = [kind |-> "process", pid |-> k.pid]
        /\ \A o \in Owners' : Rec(o)'.handle = k.handle => o = k.token
  BY <1>1, <1>2, KeepsOwners DEF Same
<1> QED
  BY <1>3, <1>4, <1>5, <1>6 DEF k, Keepable, Live, Copied

LEMMA EntersReaders ==
  ASSUME TypeOK, ReadersSound, NEW c \in Callers, Enters(c),
         handles[call'[c].handle] = None,
         \A h \in Handles : handles[h] # None => handles'[h] = handles[h]
  PROVE  ReadersSound'
<1>1. \A d \in Callers : d # c => (Inserts(d)' <=> Inserts(d)) /\ (Reads(d)' <=> Reads(d))
                                  /\ call'[d] = call[d]
  BY DEF Enters, Inserts, Reads, Idle
<1>2. ~Reads(c)'
  BY DEF Enters, Inserts, Reads
<1>3. \A d \in Callers : Reads(d) => call[d].token \in Tokens
  BY DEF TypeOK, Reads, Idle, Calls
<1>4. ASSUME NEW d \in Callers, Reads(d)'
      PROVE  Keepable(d)'
  <2>1. d # c /\ Reads(d) /\ call'[d] = call[d] /\ call[d].token <= token /\ call[d].token \in Nat
        /\ Keepable(d)
    BY <1>1, <1>2, <1>3, <1>4 DEF ReadersSound, Tokens, Keepable
  <2>2. call'[c].token # call'[d].token /\ call'[d].token <= token'
    BY <2>1, TokenNat DEF Enters
  <2>3. \A e \in Callers : Inserts(e)' => call'[e].token # call'[d].token
    BY <1>1, <2>1, <2>2 DEF Keepable
  <2>4. sessions'[call'[d].token] # None => Copied(call'[d], sessions'[call'[d].token])
    BY <2>1 DEF Keepable, Enters, Live
  <2>5. call[d].mode = "debug" =>
          /\ handles'[call[d].handle] = [kind |-> "process", pid |-> call[d].pid]
          /\ \A o \in Owners' : Rec(o)'.handle = call[d].handle => o = call[d].token
    BY <2>1, ReaderType, EntersOwners DEF Keepable
  <2> QED
    BY <2>1, <2>2, <2>3, <2>4, <2>5 DEF Keepable, Live, Copied
<1> QED
  BY <1>4 DEF ReadersSound, Keepable

LEMMA MovesReaders ==
  ASSUME TypeOK, TokensOwned, ReadersSound, NEW c \in Callers, NEW t, Moves(c, t), Idle(c)',
         \A h \in Handles : handles[h] # None /\ handles[h].kind = "process" => handles'[h] = handles[h]
  PROVE  ReadersSound'
<1>1. \A d \in Callers : d # c => (Inserts(d)' <=> Inserts(d)) /\ (Reads(d)' <=> Reads(d))
                                  /\ call'[d] = call[d]
  BY DEF Moves, Inserts, Reads, Idle
<1>2. ~Reads(c)' /\ ~Inserts(c)'
  <2>1. ~Reads(c)'
    BY DEF Reads
  <2>2. ~Inserts(c)'
    BY DEF Moves
  <2> QED
    BY <2>1, <2>2
<1>3. \A d \in Callers : Reads(d) => call[d].token \in Tokens /\ call[d].token # t
  <2>1. Inserts(c) /\ t = call[c].token
    BY DEF Moves
  <2> QED
    BY <2>1, ReaderType DEF ReadersSound
<1>4. \A u \in Tokens : u # t => (Live(u)' <=> Live(u)) /\ sessions'[u] = sessions[u]
  BY DEF Moves, Live
<1>5. ASSUME NEW d \in Callers, Reads(d)'
      PROVE  Keepable(d)'
  <2>1. d # c /\ Reads(d) /\ call'[d] = call[d] /\ Keepable(d)
        /\ call[d].token \in Tokens /\ call[d].token # t
    BY <1>1, <1>2, <1>3, <1>5 DEF ReadersSound, Keepable
  <2>2. call'[d].token <= token' /\ \A e \in Callers : Inserts(e)' => call'[e].token # call'[d].token
    BY <1>1, <1>2, <2>1 DEF Moves, Keepable
  <2>3. Live(call[d].token)' => Copied(call[d], sessions'[call[d].token])
    BY <1>4, <2>1 DEF Keepable
  <2>4. call[d].mode = "debug" =>
          /\ handles'[call[d].handle] = [kind |-> "process", pid |-> call[d].pid]
          /\ \A o \in Owners' : Rec(o)'.handle = call[d].handle => o = call[d].token
    <3> SUFFICES ASSUME call[d].mode = "debug"
                 PROVE  /\ handles'[call[d].handle] = [kind |-> "process", pid |-> call[d].pid]
                        /\ \A o \in Owners' : Rec(o)'.handle = call[d].handle => o = call[d].token
      OBVIOUS
    <3>1. handles'[call[d].handle] = [kind |-> "process", pid |-> call[d].pid]
      BY <2>1, ReaderType DEF Keepable
    <3>2. call[c].handle # call[d].handle
      <4>1. c \in Owners /\ Rec(c) = call[c] /\ c # call[d].token
        BY <2>1, OwnerKinds DEF Moves
      <4> QED
        BY <2>1, <4>1 DEF Keepable
    <3>3. ASSUME NEW o \in Owners', Rec(o)'.handle = call[d].handle
          PROVE  o = call[d].token
      <4>1. o # t
        BY <3>2, <3>3, MovesOwners DEF Moves
      <4> QED
        BY <2>1, <3>3, <4>1, MovesOwners DEF Keepable
    <3> QED
      BY <3>1, <3>3
  <2> QED
    BY <2>1, <2>2, <2>3, <2>4 DEF Keepable, Copied
<1> QED
  BY <1>5 DEF ReadersSound, Keepable

LEMMA LeavesReaders ==
  ASSUME TypeOK, HandlesOwned, ReadersSound, NEW t \in Tokens, Leaves(t),
         \/ UNCHANGED handles
         \/ sessions[t].mode = "observe" /\ handles' = Closed({sessions[t].handle, sessions[t].thread})
  PROVE  ReadersSound'
<1>1. \A d \in Callers : (Inserts(d)' <=> Inserts(d)) /\ (Reads(d)' <=> Reads(d)) /\ call'[d] = call[d]
  BY DEF Leaves, Inserts, Reads, Idle
<1>2. \A u \in Tokens : Live(u)' => Live(u) /\ sessions'[u] = sessions[u]
  BY DEF Leaves, Live, TypeOK
<1>3. t \in Owners /\ Rec(t) = sessions[t] /\ Live(t)
  BY OwnerKinds DEF Leaves
<1>4. ASSUME NEW d \in Callers, Reads(d)'
      PROVE  Keepable(d)'
  <2>1. Reads(d) /\ call'[d] = call[d] /\ Keepable(d) /\ call[d].token \in Tokens
        /\ call[d].handle \in Handles /\ call[d].pid \in Pids
    BY <1>1, <1>4, ReaderType DEF ReadersSound, Keepable
  <2>2. call'[d].token <= token' /\ \A e \in Callers : Inserts(e)' => call'[e].token # call'[d].token
    BY <1>1, <2>1 DEF Leaves, Keepable
  <2>3. Live(call[d].token)' => Copied(call[d], sessions'[call[d].token])
    BY <1>2, <2>1 DEF Keepable
  <2>4. ASSUME call[d].mode = "debug"
        PROVE  /\ handles'[call[d].handle] = [kind |-> "process", pid |-> call[d].pid]
               /\ \A o \in Owners' : Rec(o)'.handle = call[d].handle => o = call[d].token
    <3>1. handles[call[d].handle] = [kind |-> "process", pid |-> call[d].pid]
          /\ \A o \in Owners : Rec(o).handle = call[d].handle => o = call[d].token
      BY <2>1, <2>4 DEF Keepable
    <3>2. \A o \in Owners' : Rec(o)'.handle = call[d].handle => o = call[d].token
      BY <3>1, LeavesOwners
    <3>3. CASE UNCHANGED handles
      BY <3>1, <3>2, <3>3
    <3>4. CASE /\ sessions[t].mode = "observe"
               /\ handles' = Closed({sessions[t].handle, sessions[t].thread})
      <4>1. sessions[t].handle # call[d].handle
        <5>1. ASSUME sessions[t].handle = call[d].handle PROVE FALSE
          <6>1. t = call[d].token
            BY <1>3, <3>1, <5>1
          <6>2. sessions[t].mode = call[d].mode
            BY <1>3, <2>1, <6>1 DEF Keepable, Copied
          <6> QED
            BY <2>4, <3>4, <6>2
        <5> QED
          BY <5>1
      <4>2. sessions[t].thread # call[d].handle
        <5>1. call[d].handle # None
          BY <2>1 DEF Handles
        <5>2. CASE sessions[t].thread = None
          BY <5>1, <5>2
        <5>3. CASE sessions[t].thread # None
          <6>1. handles[sessions[t].thread] = [kind |-> "thread", pid |-> sessions[t].pid]
            BY <1>3, <5>3 DEF HandlesOwned
          <6>2. handles[sessions[t].thread].kind = "thread" /\ handles[call[d].handle].kind = "process"
            BY <3>1, <6>1
          <6> QED
            BY <6>2
        <5> QED
          BY <5>2, <5>3
      <4>3. handles'[call[d].handle] = handles[call[d].handle]
        BY <2>1, <3>4, <4>1, <4>2 DEF Closed
      <4> QED
        BY <3>1, <3>2, <4>3
    <3> QED
      BY <3>3, <3>4
  <2> QED
    BY <2>1, <2>2, <2>3, <2>4 DEF Keepable, Copied
<1> QED
  BY <1>4 DEF ReadersSound, Keepable

\* No one waits while the table is free.
LEMMA FreeTable == WaitersSound /\ lock = None => \A c \in Callers : ~Waits(c)
  BY DEF WaitersSound

LEMMA KeepsWaiters ==
  ASSUME TypeOK, WaitersSound, Keeps,
         \A c \in Callers : Waits(c)' => /\ Waits(c) /\ call'[c] = call[c]
                                         /\ lock' = lock
  PROVE  WaitersSound'
<1>1. \A c \in Callers : Waits(c) => call[c].token \in Tokens
  BY DEF TypeOK, Waits, Idle, Calls
<1> QED
  BY <1>1 DEF WaitersSound, Keeps, Same

-----------------------------------------------------------------------------
(* The invariant *)

Inv == Base /\ ReadersSound /\ WaitersSound /\ SuspendedOwned /\ StoppedCopyHolds

LEMMA InitInv == Init => Inv
<1> SUFFICES ASSUME Init PROVE Inv
  OBVIOUS
<1>1. TypeOK
  BY InitType
<1>2. /\ \A t \in Tokens : ~Live(t)
      /\ \A c \in Callers : ~Inserts(c) /\ ~Reads(c) /\ ~Waits(c)
      /\ Owners = {}
  BY DEF Init, Live, Inserts, Reads, Waits, Idle, Owners
<1>3. \A p \in Pids : process[p] # "suspended"
  BY DEF Init
<1> QED
  BY <1>1, <1>2, <1>3 DEF Init, Inv, Base, DebugOwned, HandlesOwned, TokensOwned, ReadersSound,
     WaitersSound, SuspendedOwned, StoppedCopyHolds

\* A suspended process keeps its owner where only sessions are touched.
LEMMA KeepsSuspended ==
  ASSUME SuspendedOwned, Keeps,
         \A p \in Pids : process'[p] = "suspended" => process[p] = "suspended",
         \A t \in Tokens : Live(t) /\ sessions[t].mode = "observe" /\ sessions[t].suspended =>
           sessions'[t].suspended \/ process'[sessions[t].pid] # "suspended"
  PROVE  SuspendedOwned'
<1>1. \A c \in Callers : Inserts(c)' /\ call'[c].op = "attach" => call'[c].thread = None
  BY DEF SuspendedOwned, Keeps
<1>2. ASSUME NEW p \in Pids, process'[p] = "suspended"
      PROVE  \/ \E t \in Tokens : /\ Live(t)' /\ sessions'[t].pid = p /\ sessions'[t].mode = "observe"
                                  /\ sessions'[t].suspended /\ sessions'[t].thread # None
             \/ \E c \in Callers : /\ Inserts(c)' /\ call'[c].pid = p /\ call'[c].mode = "observe"
                                   /\ call'[c].thread # None
  <2>1. CASE \E t \in Tokens : /\ Live(t) /\ sessions[t].pid = p /\ sessions[t].mode = "observe"
                               /\ sessions[t].suspended /\ sessions[t].thread # None
    BY <1>2, <2>1 DEF Keeps, Same
  <2>2. CASE \E c \in Callers : /\ Inserts(c) /\ call[c].pid = p /\ call[c].mode = "observe"
                                /\ call[c].thread # None
    BY <2>2 DEF Keeps
  <2> QED
    BY <1>2, <2>1, <2>2 DEF SuspendedOwned
<1> QED
  BY <1>1, <1>2 DEF SuspendedOwned

\* A copy of the run state that is left alone, or is made anew.
LEMMA StoppedKept ==
  ASSUME StoppedCopyHolds,
         \A t \in Tokens : Live(t)' /\ sessions'[t].mode = "debug" =>
           \/ /\ Live(t) /\ sessions'[t] = sessions[t]
              /\ pump[sessions[t].pid].view = "Stopped" => pump'[sessions[t].pid].view = "Stopped"
           \/ sessions'[t].run_state # "Stopped"
           \/ pump'[sessions'[t].pid].view = "Stopped"
           \/ sessions'[t].failed
  PROVE  StoppedCopyHolds'
  BY DEF StoppedCopyHolds

\* A step of one call: a check, a failure, a look at the table, the end of a read.
LEMMA CallInv ==
  ASSUME Inv, NEW c \in Callers, NEW x \in Calls \cup {None}, ~Inserts(c),
         call' = [call EXCEPT ![c] = x],
         UNCHANGED <<sessions, token, process, debugged, pump, handles>>,
         x # None => x.op \notin {"attach", "launch"},
         x # None /\ x.op = "read" =>
           x.token \in Tokens /\ Live(x.token) /\ Copied(x, sessions[x.token]),
         \/ lock' = lock /\ (x # None => x.op # "wait")
         \/ /\ lock = None /\ lock' = c /\ x # None
            /\ x.token \in Tokens /\ Live(x.token) /\ sessions[x.token].mode = "debug"
  PROVE  Inv'
<1>1. TypeOK'
  BY DEF Inv, Base, TypeOK
<1>2. \A d \in Callers : d # c => call'[d] = call[d]
  BY DEF Inv, Base, TypeOK
<1>3. call'[c] = x
  BY DEF Inv, Base, TypeOK
<1>4. \A d \in Callers : (Inserts(d)' <=> Inserts(d)) /\ (Inserts(d) => call'[d] = call[d])
  BY <1>2, <1>3 DEF Inserts, Idle
<1>5. Keeps
  BY <1>4, TokenNat DEF Keeps, Live, Same, Inv, Base
<1>6. DebugOwned' /\ HandlesOwned' /\ TokensOwned'
  <2>1. DebugGrows
    BY DEF DebugGrows, DebugOwned, Inv, Base
  <2> QED
    BY <1>5, <2>1, KeepsDebug, KeepsHandles, KeepsTokens DEF Inv, Base
<1>7. ReadersSound'
  <2>1. \A d \in Callers : Reads(d)' =>
          \/ Reads(d) /\ call'[d] = call[d]
          \/ Live(call'[d].token) /\ Copied(call'[d], sessions[call'[d].token])
    BY <1>2, <1>3 DEF Reads, Idle
  <2> QED
    BY <1>1, <1>5, <2>1, KeepsReaders DEF Inv, Base
<1>8. WaitersSound'
  <2>1. CASE lock' = lock /\ (x # None => x.op # "wait")
    <3>1. \A d \in Callers : Waits(d)' => Waits(d) /\ call'[d] = call[d] /\ lock' = lock
      BY <1>2, <1>3, <2>1 DEF Waits, Idle
    <3> QED
      BY <1>5, <3>1, KeepsWaiters DEF Inv, Base
  <2>2. CASE /\ lock = None /\ lock' = c /\ x # None
             /\ x.token \in Tokens /\ Live(x.token) /\ sessions[x.token].mode = "debug"
    <3>1. \A d \in Callers : Waits(d)' => d = c
      BY <1>2, <2>2, FreeTable DEF Waits, Idle, Inv
    <3> QED
      BY <1>3, <2>2, <3>1 DEF WaitersSound, Live
  <2> QED
    BY <2>1, <2>2
<1>9. SuspendedOwned'
  BY <1>5, KeepsSuspended DEF Inv
<1>10. StoppedCopyHolds'
  BY StoppedKept DEF Inv, Live
<1> QED
  BY <1>1, <1>6, <1>7, <1>8, <1>9, <1>10 DEF Inv, Base

\* What the system does, and an attach that fails: the sessions stay as they are.
LEMMA SystemInv ==
  ASSUME Inv, TypeOK', UNCHANGED <<sessions, call, lock>>, token' \in Nat, token' >= token,
         DebugGrows,
         \A h \in Handles : handles[h] # None => handles'[h] = handles[h],
         \A p \in Pids : pump'[p] # None => pump[p] # None,
         \A p \in Pids : process'[p] = "suspended" => process[p] = "suspended",
         \A p \in debugged : pump[p] # None /\ pump[p].view = "Stopped" => pump'[p].view = "Stopped"
  PROVE  Inv'
<1>1. Keeps
  BY DEF Keeps, Live, Same, Inserts, Idle
<1>2. DebugOwned' /\ HandlesOwned' /\ TokensOwned'
  BY <1>1, KeepsDebug, KeepsHandles, KeepsTokens DEF Inv, Base
<1>3. ReadersSound'
  <2>1. \A d \in Callers : Reads(d)' => Reads(d) /\ call'[d] = call[d]
    BY DEF Reads, Idle
  <2> QED
    BY <1>1, <2>1, KeepsReaders DEF Inv, Base
<1>4. WaitersSound'
  BY <1>1, KeepsWaiters DEF Inv, Base, Waits, Idle
<1>5. SuspendedOwned'
  BY <1>1, KeepsSuspended DEF Inv
<1>6. StoppedCopyHolds'
  <2>1. \A t \in Tokens : Live(t) /\ sessions[t].mode = "debug" =>
          sessions[t].pid \in debugged /\ pump[sessions[t].pid] # None
    BY OwnerKinds DEF Inv, Base, DebugOwned
  <2> QED
    BY <2>1, StoppedKept DEF Inv, Live
<1> QED
  BY <1>2, <1>3, <1>4, <1>5, <1>6 DEF Inv, Base

\* A command to one session, or the end of a wait for it.
LEMMA UpdateInv ==
  ASSUME Inv, TypeOK', NEW t \in Tokens, Live(t), NEW e \in Attached, Same(sessions[t], e),
         sessions' = [sessions EXCEPT ![t] = e],
         UNCHANGED <<token, debugged, handles>>,
         \/ UNCHANGED <<call, lock>>
         \/ \E c \in Callers : Waits(c) /\ call' = [call EXCEPT ![c] = None] /\ lock' = None,
         \A p \in Pids : pump[p] # None <=> pump'[p] # None,
         \A p \in Pids : p # e.pid => pump'[p] = pump[p],
         e.mode = "observe" => UNCHANGED pump,
         \A p \in Pids : process[p] # "none" => process'[p] # "none",
         \A p \in Pids : process'[p] = "suspended" => process[p] = "suspended",
         e.mode = "observe" /\ sessions[t].suspended /\ ~e.suspended => process'[e.pid] # "suspended",
         e.mode = "debug" =>
           e.run_state # "Stopped" \/ pump'[e.pid].view = "Stopped" \/ e.failed
  PROVE  Inv'
<1>1. \A d \in Callers : call'[d] = call[d] \/ (call'[d] = None /\ Waits(d))
  BY DEF Inv, Base, TypeOK
<1>2. \A d \in Callers : (Inserts(d)' <=> Inserts(d)) /\ (Inserts(d) => call'[d] = call[d])
  BY <1>1 DEF Inserts, Waits, Idle
<1>3. sessions'[t] = e /\ \A u \in Tokens : u # t => sessions'[u] = sessions[u]
  BY DEF Inv, Base, TypeOK
<1>4. Keeps
  BY <1>2, <1>3, TokenNat DEF Keeps, Live, Same, Inv, Base
<1>5. DebugOwned' /\ HandlesOwned' /\ TokensOwned'
  <2>1. DebugGrows
    BY DEF DebugGrows, DebugOwned, Inv, Base, TypeOK
  <2> QED
    BY <1>4, <2>1, KeepsDebug, KeepsHandles, KeepsTokens DEF Inv, Base
<1>6. ReadersSound'
  <2>1. \A d \in Callers : Reads(d)' => Reads(d) /\ call'[d] = call[d]
    BY <1>1 DEF Reads, Waits, Idle
  <2> QED
    BY <1>4, <2>1, KeepsReaders DEF Inv, Base
<1>7. WaitersSound'
  <2>1. \A d \in Callers : Waits(d)' => Waits(d) /\ call'[d] = call[d]
    BY <1>1 DEF Waits, Idle
  <2>2. CASE UNCHANGED <<call, lock>>
    BY <1>4, <2>1, <2>2, KeepsWaiters DEF Inv, Base
  <2>3. CASE \E c \in Callers : Waits(c) /\ call' = [call EXCEPT ![c] = None] /\ lock' = None
    <3>1. PICK c \in Callers : Waits(c) /\ call' = [call EXCEPT ![c] = None]
      BY <2>3
    <3>2. \A d \in Callers : Waits(d) => d = c
      BY <3>1 DEF Inv, WaitersSound
    <3>3. \A d \in Callers : ~Waits(d)'
      BY <2>1, <3>1, <3>2 DEF Waits, Idle, Inv, Base, TypeOK
    <3> QED
      BY <3>3 DEF WaitersSound
  <2> QED
    BY <2>2, <2>3
<1>8. SuspendedOwned'
  <2>1. \A u \in Tokens : Live(u) /\ sessions[u].mode = "observe" /\ sessions[u].suspended =>
          sessions'[u].suspended \/ process'[sessions[u].pid] # "suspended"
    BY <1>3 DEF Same
  <2> QED
    BY <1>4, <2>1, KeepsSuspended DEF Inv
<1>9. StoppedCopyHolds'
  <2> SUFFICES ASSUME NEW u \in Tokens, Live(u)', sessions'[u].mode = "debug"
               PROVE  \/ /\ Live(u) /\ sessions'[u] = sessions[u]
                         /\ pump[sessions[u].pid].view = "Stopped" =>
                              pump'[sessions[u].pid].view = "Stopped"
                      \/ sessions'[u].run_state # "Stopped"
                      \/ pump'[sessions'[u].pid].view = "Stopped"
                      \/ sessions'[u].failed
    BY StoppedKept DEF Inv
  <2>1. CASE u = t
    BY <1>3, <2>1
  <2>2. CASE u # t
    <3>1. Live(u) /\ sessions'[u] = sessions[u]
      BY <1>3, <2>2 DEF Live
    <3>2. CASE e.mode = "debug"
      <4>1. sessions[u].pid # e.pid
        BY <2>2, <3>1, <3>2, OwnerKinds DEF Inv, Base, DebugOwned, Same
      <4> QED
        BY <3>1, <4>1, SessionType DEF Inv, Base, Attached
    <3>3. CASE e.mode = "observe"
      BY <3>1, <3>3
    <3> QED
      BY <3>2, <3>3 DEF Attached, Modes
  <2> QED
    BY <2>1, <2>2
<1> QED
  BY <1>5, <1>6, <1>7, <1>8, <1>9 DEF Inv, Base

\* An attach or a launch whose process is there.
LEMMA EnterInv ==
  ASSUME Inv, TypeOK', NEW c \in Callers, Enters(c), token + 1 \in Tokens, DebugOwned', HandlesOwned',
         UNCHANGED lock, handles[call'[c].handle] = None,
         \A h \in Handles : handles[h] # None => handles'[h] = handles[h],
         call'[c].op = "attach" => call'[c].thread = None,
         \A p \in Pids : process'[p] = "suspended" =>
           \/ process[p] = "suspended"
           \/ call'[c].pid = p /\ call'[c].mode = "observe" /\ call'[c].thread # None,
         \A p \in debugged : pump'[p] = pump[p]
  PROVE  Inv'
<1>1. \A d \in Callers : d # c => (Inserts(d)' <=> Inserts(d)) /\ call'[d] = call[d]
  BY DEF Enters, Inserts, Idle
<1>2. Inserts(c)' /\ ~Inserts(c) /\ UNCHANGED sessions
  BY DEF Enters
<1>3. TokensOwned' /\ ReadersSound'
  BY EntersTokens, EntersReaders DEF Inv, Base
<1>4. WaitersSound'
  <2>1. \A d \in Callers : Waits(d)' => Waits(d) /\ call'[d] = call[d]
    BY <1>1, <1>2 DEF Waits, Inserts, Idle
  <2>2. \A d \in Callers : Waits(d) => call[d].token \in Tokens
    BY DEF Inv, Base, TypeOK, Waits, Idle, Calls
  <2> QED
    BY <1>2, <2>1, <2>2 DEF Inv, WaitersSound, Live
<1>5. SuspendedOwned'
  <2>1. \A d \in Callers : Inserts(d)' /\ call'[d].op = "attach" => call'[d].thread = None
    BY <1>1 DEF Inv, SuspendedOwned
  <2>2. ASSUME NEW p \in Pids, process'[p] = "suspended"
        PROVE  \/ \E t \in Tokens : /\ Live(t)' /\ sessions'[t].pid = p /\ sessions'[t].mode = "observe"
                                    /\ sessions'[t].suspended /\ sessions'[t].thread # None
               \/ \E d \in Callers : /\ Inserts(d)' /\ call'[d].pid = p /\ call'[d].mode = "observe"
                                     /\ call'[d].thread # None
    <3>1. CASE process[p] = "suspended"
      <4>1. CASE \E t \in Tokens : /\ Live(t) /\ sessions[t].pid = p /\ sessions[t].mode = "observe"
                                   /\ sessions[t].suspended /\ sessions[t].thread # None
        BY <1>2, <4>1 DEF Live
      <4>2. CASE \E d \in Callers : /\ Inserts(d) /\ call[d].pid = p /\ call[d].mode = "observe"
                                    /\ call[d].thread # None
        BY <1>1, <1>2, <4>2
      <4> QED
        BY <3>1, <4>1, <4>2 DEF Inv, SuspendedOwned
    <3>2. CASE call'[c].pid = p /\ call'[c].mode = "observe" /\ call'[c].thread # None
      BY <1>2, <3>2
    <3> QED
      BY <2>2, <3>1, <3>2
  <2> QED
    BY <2>1, <2>2 DEF SuspendedOwned
<1>6. StoppedCopyHolds'
  <2>1. \A t \in Tokens : Live(t) /\ sessions[t].mode = "debug" => sessions[t].pid \in debugged
    BY OwnerKinds DEF Inv, Base, DebugOwned
  <2> QED
    BY <1>2, <2>1, StoppedKept DEF Inv, Live
<1> QED
  BY <1>3, <1>4, <1>5, <1>6 DEF Inv, Base

\* The session of a call that comes back to the table.
LEMMA MoveInv ==
  ASSUME Inv, NEW c \in Callers, Insert(c)
  PROVE  Inv'
<1> DEFINE k == call[c]
           t == k.token
<1>1. /\ k \in [op : {"attach", "launch"}, token : Tokens, pid : Pids, mode : Modes,
                handle : Handles, thread : Handles \cup {None}]
      /\ t \in Tokens /\ Inserts(c) /\ lock = None
  BY InsertingType DEF Insert, Inv, Base
<1>2. /\ sessions' = [sessions EXCEPT ![t] = Entry(k)]
      /\ handles' = Closed(IF k.mode = "debug" THEN {k.thread} ELSE {})
      /\ call' = [call EXCEPT ![c] = None]
      /\ UNCHANGED <<lock, token, process, debugged, pump>>
  BY DEF Insert
<1>3. k.mode = "debug" => pump[k.pid] # None
  BY <1>1, OwnerKinds DEF Inv, Base, DebugOwned
<1>4. Entry(k) \in Attached
  BY <1>1, <1>3, EntryType DEF Inv, Base
<1>5. /\ sessions'[t] = Entry(k) /\ \A u \in Tokens : u # t => sessions'[u] = sessions[u]
      /\ call'[c] = None /\ \A d \in Callers : d # c => call'[d] = call[d]
  BY <1>1, <1>2 DEF Inv, Base, TypeOK
<1>6. TypeOK'
  <2>1. sessions' \in [Tokens -> Attached \cup {None}] /\ call' \in [Callers -> Calls \cup {None}]
    BY <1>2, <1>4 DEF Inv, Base, TypeOK
  <2>2. handles' \in [Handles -> Objects \cup {None}]
    BY <1>2 DEF Inv, Base, TypeOK, Closed
  <2> QED
    BY <1>2, <2>1, <2>2 DEF Inv, Base, TypeOK
<1>7. /\ Entry(k).pid = k.pid /\ Entry(k).mode = k.mode /\ Entry(k).handle = k.handle
      /\ Entry(k).thread = IF k.mode = "debug" THEN None ELSE k.thread
      /\ k.mode = "debug" => Entry(k).run_state = pump[k.pid].view
      /\ k.mode = "observe" /\ k.op = "launch" => Entry(k).suspended
  BY DEF Entry
<1>8. Moves(c, t) /\ Idle(c)'
  BY <1>1, <1>2, <1>4, <1>5, <1>7 DEF Moves, Inserts, Idle
<1>9. DebugOwned' /\ HandlesOwned' /\ TokensOwned'
  <2>1. DebugGrows
    BY <1>2 DEF DebugGrows, DebugOwned, Inv, Base
  <2> QED
    BY <1>2, <1>8, <2>1, MovesDebug, MovesHandles, MovesTokens DEF Inv, Base
<1>10. ReadersSound'
  <2>1. \A h \in Handles : handles[h] # None /\ handles[h].kind = "process" => handles'[h] = handles[h]
    <3>1. CASE k.mode = "debug" /\ k.thread # None
      <4>0. c \in Owners /\ Rec(c) = k
        BY <1>1, OwnerKinds
      <4>1. handles[k.thread] = [kind |-> "thread", pid |-> k.pid]
        BY <3>1, <4>0 DEF Inv, Base, HandlesOwned
      <4>2. handles[k.thread].kind = "thread"
        BY <4>1
      <4> QED
        BY <1>2, <4>2 DEF Closed
    <3>2. CASE ~(k.mode = "debug" /\ k.thread # None)
      BY <1>2, <3>2 DEF Closed, Handles
    <3> QED
      BY <3>1, <3>2
  <2> QED
    BY <1>8, <2>1, MovesReaders DEF Inv, Base
<1>11. WaitersSound'
  BY <1>1, <1>5, FreeTable DEF Inv, WaitersSound, Waits, Idle
<1>12. SuspendedOwned'
  <2>1. \A d \in Callers : d # c => (Inserts(d)' <=> Inserts(d))
    BY <1>5 DEF Inserts, Idle
  <2>2. \A d \in Callers : Inserts(d)' /\ call'[d].op = "attach" => call'[d].thread = None
    BY <1>5, <1>8, <2>1 DEF Inv, SuspendedOwned, Inserts, Idle
  <2>3. ASSUME NEW p \in Pids, process'[p] = "suspended"
        PROVE  \/ \E u \in Tokens : /\ Live(u)' /\ sessions'[u].pid = p /\ sessions'[u].mode = "observe"
                                    /\ sessions'[u].suspended /\ sessions'[u].thread # None
               \/ \E d \in Callers : /\ Inserts(d)' /\ call'[d].pid = p /\ call'[d].mode = "observe"
                                     /\ call'[d].thread # None
    <3>1. CASE \E u \in Tokens : /\ Live(u) /\ sessions[u].pid = p /\ sessions[u].mode = "observe"
                                 /\ sessions[u].suspended /\ sessions[u].thread # None
      <4>1. ~Live(t)
        BY <1>1 DEF Inv, Base, TokensOwned
      <4> QED
        BY <1>5, <3>1, <4>1 DEF Live
    <3>2. CASE \E d \in Callers : /\ Inserts(d) /\ call[d].pid = p /\ call[d].mode = "observe"
                                  /\ call[d].thread # None
      <4>1. PICK d \in Callers : /\ Inserts(d) /\ call[d].pid = p /\ call[d].mode = "observe"
                                 /\ call[d].thread # None
        BY <3>2
      <4>2. CASE d = c
        <5>1. k.op = "launch" /\ k.mode = "observe" /\ k.thread # None /\ k.pid = p
          BY <1>1, <4>1, <4>2 DEF Inv, SuspendedOwned
        <5>2. sessions'[t] # None
          BY <1>4, <1>5
        <5>3. PICK u \in Tokens : u = t
          BY <1>1
        <5>4. Live(u)' /\ sessions'[u].pid = p /\ sessions'[u].mode = "observe"
              /\ sessions'[u].suspended /\ sessions'[u].thread # None
          BY <1>5, <1>7, <5>1, <5>2, <5>3 DEF Live
        <5> QED
          BY <5>4
      <4>3. CASE d # c
        BY <1>5, <2>1, <4>1, <4>3
      <4> QED
        BY <4>2, <4>3
    <3> QED
      BY <1>2, <2>3, <3>1, <3>2 DEF Inv, SuspendedOwned
  <2> QED
    BY <2>2, <2>3 DEF SuspendedOwned
<1>13. StoppedCopyHolds'
  <2> SUFFICES ASSUME NEW u \in Tokens, Live(u)', sessions'[u].mode = "debug"
               PROVE  \/ /\ Live(u) /\ sessions'[u] = sessions[u]
                         /\ pump[sessions[u].pid].view = "Stopped" =>
                              pump'[sessions[u].pid].view = "Stopped"
                      \/ sessions'[u].run_state # "Stopped"
                      \/ pump'[sessions'[u].pid].view = "Stopped"
                      \/ sessions'[u].failed
    BY StoppedKept DEF Inv
  <2>1. CASE u = t
    BY <1>2, <1>5, <1>7, <2>1
  <2>2. CASE u # t
    BY <1>2, <1>5, <2>2 DEF Live
  <2> QED
    BY <2>1, <2>2
<1> QED
  BY <1>6, <1>9, <1>10, <1>11, <1>12, <1>13 DEF Inv, Base

\* A session that is detached.
LEMMA LeaveInv ==
  ASSUME Inv, NEW t \in Tokens, Leaves(t), lock = None, UNCHANGED lock, TypeOK',
         \/ UNCHANGED handles
         \/ sessions[t].mode = "observe" /\ handles' = Closed({sessions[t].handle, sessions[t].thread}),
         \/ sessions[t].mode = "observe" /\ UNCHANGED <<debugged, pump>>
         \/ /\ sessions[t].mode = "debug"
            /\ debugged' \in {debugged, debugged \ {sessions[t].pid}}
            /\ pump' = [pump EXCEPT ![sessions[t].pid] = None],
         \A p \in Pids : process[p] # "none" => process'[p] # "none",
         \A p \in Pids : process'[p] = "suspended" => process[p] = "suspended",
         sessions[t].mode = "observe" /\ sessions[t].suspended /\ sessions[t].thread # None =>
           process'[sessions[t].pid] # "suspended"
  PROVE  Inv'
<1>1. UNCHANGED call /\ Live(t)
  BY DEF Leaves
<1>2. sessions'[t] = None /\ \A u \in Tokens : u # t => sessions'[u] = sessions[u]
  BY DEF Leaves, Inv, Base, TypeOK
<1>3. \A p \in debugged : process'[p] # "none"
  BY DEF Inv, Base, DebugOwned, TypeOK
<1>4. DebugOwned' /\ HandlesOwned' /\ TokensOwned'
  BY <1>3, LeavesDebug, LeavesHandles, LeavesTokens DEF Inv, Base
<1>5. ReadersSound'
  BY LeavesReaders DEF Inv, Base
<1>6. WaitersSound'
  BY <1>1, FreeTable DEF Inv, WaitersSound, Waits, Idle
<1>7. SuspendedOwned'
  <2>1. \A d \in Callers : (Inserts(d)' <=> Inserts(d)) /\ call'[d] = call[d]
    BY <1>1 DEF Inserts, Idle
  <2>2. ASSUME NEW p \in Pids, process'[p] = "suspended"
        PROVE  \/ \E u \in Tokens : /\ Live(u)' /\ sessions'[u].pid = p /\ sessions'[u].mode = "observe"
                                    /\ sessions'[u].suspended /\ sessions'[u].thread # None
               \/ \E d \in Callers : /\ Inserts(d)' /\ call'[d].pid = p /\ call'[d].mode = "observe"
                                     /\ call'[d].thread # None
    <3>1. CASE \E u \in Tokens : /\ Live(u) /\ sessions[u].pid = p /\ sessions[u].mode = "observe"
                                 /\ sessions[u].suspended /\ sessions[u].thread # None
      BY <1>2, <2>2, <3>1 DEF Live
    <3>2. CASE \E d \in Callers : /\ Inserts(d) /\ call[d].pid = p /\ call[d].mode = "observe"
                                  /\ call[d].thread # None
      BY <2>1, <3>2
    <3> QED
      BY <2>2, <3>1, <3>2 DEF Inv, SuspendedOwned
  <2> QED
    BY <2>1, <2>2 DEF Inv, SuspendedOwned
<1>8. StoppedCopyHolds'
  <2> SUFFICES ASSUME NEW u \in Tokens, Live(u)', sessions'[u].mode = "debug"
               PROVE  \/ /\ Live(u) /\ sessions'[u] = sessions[u]
                         /\ pump[sessions[u].pid].view = "Stopped" =>
                              pump'[sessions[u].pid].view = "Stopped"
                      \/ sessions'[u].run_state # "Stopped"
                      \/ pump'[sessions'[u].pid].view = "Stopped"
                      \/ sessions'[u].failed
    BY StoppedKept DEF Inv
  <2>1. u # t /\ Live(u) /\ sessions'[u] = sessions[u] /\ sessions[u].pid \in Pids
    BY <1>2, SessionType DEF Live, Inv, Base, Attached
  <2>2. CASE sessions[t].mode = "observe" /\ UNCHANGED <<debugged, pump>>
    BY <2>1, <2>2
  <2>3. CASE /\ sessions[t].mode = "debug"
             /\ pump' = [pump EXCEPT ![sessions[t].pid] = None]
    <3>1. sessions[u].pid # sessions[t].pid
      BY <1>1, <2>1, <2>3, OwnerKinds DEF Inv, Base, DebugOwned
    <3> QED
      BY <2>1, <2>3, <3>1 DEF Inv, Base, TypeOK
  <2> QED
    BY <2>2, <2>3
<1> QED
  BY <1>4, <1>5, <1>6, <1>7, <1>8 DEF Inv, Base

-----------------------------------------------------------------------------
(* The actions *)

\* OpenProcess, with what it brings or leaves behind.
LEMMA OpenedInv ==
  ASSUME Inv, NEW c \in Callers, NEW p \in Pids, NEW mode \in Modes, NEW debug \in BOOLEAN,
         Idle(c), process[p] # "none", token < MaxToken, token' = token + 1,
         Opened(c, p, mode, debug), debug <=> mode = "debug",
         UNCHANGED <<sessions, lock, process>>,
         debugged' = IF debug THEN debugged \cup {p} ELSE debugged,
         debug => p \notin debugged
  PROVE  Inv'
<1>1. token + 1 \in Tokens /\ token + 1 \in 0 .. MaxToken
  BY NextToken DEF Inv, Base
<1>2. TypeOK'
  <2>1. /\ handles' \in [Handles -> Objects \cup {None}]
        /\ call' \in [Callers -> Calls \cup {None}]
        /\ pump' \in [Pids -> Pumps \cup {None}]
    BY <1>1, OpenedType DEF Inv, Base
  <2> QED
    BY <1>1, <2>1 DEF Inv, Base, TypeOK
<1>3. PICK h \in Handles :
        /\ Given({h})
        /\ handles' = [handles EXCEPT ![h] = [kind |-> "process", pid |-> p]]
        /\ \/ /\ call' = [call EXCEPT ![c] =
                    [op |-> "attach", token |-> token', pid |-> p, mode |-> mode,
                     handle |-> h, thread |-> None]]
              /\ pump' = IF debug THEN [pump EXCEPT ![p] = [view |-> "Running", serves |-> TRUE]]
                                  ELSE pump
           \/ UNCHANGED <<call, pump>>
  BY DEF Opened
<1>4. /\ handles[h] = None /\ handles'[h] = [kind |-> "process", pid |-> p]
      /\ \A g \in Handles : g # h => handles'[g] = handles[g]
  BY <1>3 DEF Given, Inv, Base, TypeOK
<1>5. \A q \in debugged' : process'[q] # "none"
  BY DEF Inv, Base, DebugOwned
<1>6. CASE UNCHANGED <<call, pump>>
  <2>1. DebugGrows
    BY <1>5, <1>6 DEF DebugGrows
  <2>2. \A g \in Handles : handles[g] # None => handles'[g] = handles[g]
    BY <1>4
  <2> QED
    BY <1>2, <1>6, <2>1, <2>2, TokenNat, SystemInv DEF Inv, Base
<1>7. CASE /\ call' = [call EXCEPT ![c] =
                [op |-> "attach", token |-> token', pid |-> p, mode |-> mode,
                 handle |-> h, thread |-> None]]
           /\ pump' = IF debug THEN [pump EXCEPT ![p] = [view |-> "Running", serves |-> TRUE]]
                              ELSE pump
  <2>1. /\ call'[c] = [op |-> "attach", token |-> token', pid |-> p, mode |-> mode,
                       handle |-> h, thread |-> None]
        /\ \A d \in Callers : d # c => call'[d] = call[d]
    BY <1>7 DEF Inv, Base, TypeOK
  <2>2. call'[c] # None
    BY <1>1, <2>1, BroughtType
  <2>3. Enters(c)
    BY <2>1, <2>2 DEF Enters, Inserts, Idle
  <2>4. \A q \in Pids : q # p => pump'[q] = pump[q]
    BY <1>7 DEF Inv, Base, TypeOK
  <2>5. debug => pump'[p] = [view |-> "Running", serves |-> TRUE] /\ pump'[p] # None
    <3>1. [view |-> "Running", serves |-> TRUE] \in Pumps
      BY DEF Pumps, Views
    <3> QED
      BY <1>7, <3>1 DEF Inv, Base, TypeOK
  <2>6. \A q \in debugged : pump'[q] = pump[q]
    BY <1>7, <2>4 DEF Inv, Base, TypeOK
  <2>7. DebugGrows
    BY <1>5, <2>6 DEF DebugGrows
  <2>8. call'[c].mode = "debug" =>
          call'[c].pid \notin debugged /\ call'[c].pid \in debugged' /\ pump'[call'[c].pid] # None
    BY <2>1, <2>5
  <2>11. \A q \in Pids : pump'[q] # None =>
           pump[q] # None \/ (call'[c].mode = "debug" /\ call'[c].pid = q)
    BY <1>7, <2>1, <2>4
  <2>9. DebugOwned'
    BY <2>1, <2>3, <2>4, <2>7, <2>8, <2>11, EntersDebug DEF Inv, Base
  <2>10. HandlesOwned'
    <3>1. call'[c].handle = h /\ call'[c].thread = None /\ call'[c].pid = p
      BY <2>1
    <3> QED
      BY <1>4, <2>3, <3>1, EntersHandles DEF Inv, Base
  <2> QED
    BY <1>1, <1>2, <1>4, <2>1, <2>3, <2>6, <2>9, <2>10, EnterInv
<1> QED
  BY <1>3, <1>6, <1>7

LEMMA AttachInv ==
  ASSUME Inv, NEW c \in Callers, NEW p \in Pids, Attach(c, p)
  PROVE  Inv'
<1>0. process[p] # "none" /\ Idle(c) /\ token < MaxToken /\ token' = token + 1
      /\ UNCHANGED <<sessions, lock, process>>
  BY DEF Attach, AttachObserve, AttachDebug, Alive
<1>1. CASE AttachObserve(c, p)
  BY <1>0, <1>1, OpenedInv DEF AttachObserve, Modes
<1>2. CASE AttachDebug(c, p)
  <2>1. CASE Opened(c, p, "debug", TRUE)
    BY <1>0, <1>2, <2>1, OpenedInv DEF AttachDebug, Modes
  <2>2. CASE UNCHANGED <<handles, call, pump>>
    <3>1. debugged' = debugged \cup {p}
      BY <1>2 DEF AttachDebug
    <3>2. token' \in 0 .. MaxToken /\ token \in Nat
      BY <1>0, NextToken, TokenNat DEF Inv, Base
    <3>3. TypeOK'
      BY <1>0, <2>2, <3>1, <3>2 DEF Inv, Base, TypeOK
    <3>4. DebugGrows
      BY <1>0, <2>2, <3>1 DEF DebugGrows, Inv, Base, DebugOwned
    <3> QED
      BY <1>0, <2>2, <3>2, <3>3, <3>4, SystemInv
  <2> QED
    BY <1>2, <2>1, <2>2 DEF AttachDebug
<1> QED
  BY <1>1, <1>2 DEF Attach

LEMMA CreateInv ==
  ASSUME Inv, NEW c \in Callers, NEW p \in Pids, NEW mode \in Modes, CreateProcess(c, p, mode)
  PROVE  Inv'
<1>1. token + 1 \in Tokens /\ token' = token + 1 /\ Checked(c) /\ process[p] = "none"
      /\ UNCHANGED <<sessions, lock>>
  BY NextToken DEF Inv, Base, CreateProcess
<1>2. TypeOK'
  BY CreateType DEF Inv, Base
<1>3. PICK h \in Handles, th \in Handles :
        /\ h < th /\ Given({h, th})
        /\ handles' = [handles EXCEPT ![h] = [kind |-> "process", pid |-> p],
                                      ![th] = [kind |-> "thread", pid |-> p]]
        /\ call' = [call EXCEPT ![c] =
             [op |-> "launch", token |-> token', pid |-> p, mode |-> mode,
              handle |-> h, thread |-> th]]
  BY DEF CreateProcess
<1>4. /\ handles[h] = None /\ handles'[h] = [kind |-> "process", pid |-> p]
      /\ handles[th] = None /\ handles'[th] = [kind |-> "thread", pid |-> p]
      /\ \A g \in Handles : g # h /\ g # th => handles'[g] = handles[g]
  BY <1>3 DEF Given, Inv, Base, TypeOK, Handles
<1>5. /\ call'[c] = [op |-> "launch", token |-> token', pid |-> p, mode |-> mode,
                     handle |-> h, thread |-> th]
      /\ \A d \in Callers : d # c => call'[d] = call[d]
  BY <1>3 DEF Inv, Base, TypeOK
<1>6. call'[c] # None
  BY <1>1, <1>5, BroughtType
<1>7. Enters(c)
  BY <1>1, <1>5, <1>6 DEF Enters, Inserts, Idle, Checked
<1>8. /\ \A q \in Pids : q # p => process'[q] = process[q]
      /\ process'[p] = IF mode = "observe" THEN "suspended" ELSE "running"
  BY DEF CreateProcess, Inv, Base, TypeOK
<1>9. p \notin debugged
  BY <1>1 DEF Inv, Base, DebugOwned
<1>10. /\ mode = "debug" => p \in debugged' /\ pump'[p] # None
       /\ debugged \subseteq debugged' /\ debugged' \subseteq debugged \cup {p}
       /\ \A q \in debugged : pump'[q] = pump[q]
       /\ \A q \in Pids : pump'[q] # None => pump[q] # None \/ (mode = "debug" /\ q = p)
  <2>1. CASE mode = "debug"
    <3>1. /\ debugged' = debugged \cup {p}
          /\ pump' = [pump EXCEPT ![p] = [view |-> "Running", serves |-> TRUE]]
      BY <2>1 DEF CreateProcess
    <3>2. [view |-> "Running", serves |-> TRUE] \in Pumps
      BY DEF Pumps, Views
    <3>3. pump'[p] # None
      BY <3>1, <3>2 DEF Inv, Base, TypeOK
    <3>4. \A q \in debugged : pump'[q] = pump[q]
      BY <1>9, <3>1 DEF Inv, Base, TypeOK
    <3>5. \A q \in Pids : pump'[q] # None => pump[q] # None \/ q = p
      BY <3>1 DEF Inv, Base, TypeOK
    <3> QED
      BY <2>1, <3>1, <3>3, <3>4, <3>5
  <2>2. CASE mode # "debug"
    BY <2>2 DEF CreateProcess
  <2> QED
    BY <2>1, <2>2
<1>11. DebugGrows
  <2>1. \A q \in debugged : process[q] # "none" /\ q \in Pids
    BY DEF Inv, Base, DebugOwned, TypeOK
  <2> QED
    BY <1>8, <1>10, <2>1 DEF DebugGrows
<1>12. DebugOwned'
  <2>1. call'[c].mode = "debug" =>
          call'[c].pid \notin debugged /\ call'[c].pid \in debugged' /\ pump'[call'[c].pid] # None
    BY <1>5, <1>9, <1>10
  <2> QED
    BY <1>5, <1>7, <1>10, <1>11, <2>1, EntersDebug DEF Inv, Base
<1>13. HandlesOwned'
  <2>1. call'[c].handle = h /\ call'[c].thread = th /\ call'[c].pid = p
    BY <1>5
  <2> QED
    BY <1>4, <1>7, <2>1, EntersHandles DEF Inv, Base
<1>14. \A q \in Pids : process'[q] = "suspended" =>
         \/ process[q] = "suspended"
         \/ call'[c].pid = q /\ call'[c].mode = "observe" /\ call'[c].thread # None
  <2>1. th # None
    BY DEF Handles
  <2> QED
    BY <1>5, <1>8, <2>1
<1> QED
  BY <1>1, <1>2, <1>4, <1>5, <1>7, <1>10, <1>12, <1>13, <1>14, EnterInv

LEMMA LaunchInv ==
  ASSUME Inv, NEW c \in Callers, Launch(c)
  PROVE  Inv'
<1>1. CASE LaunchCheck(c)
  <2>1. [op |-> "checked"] \in Calls
    BY DEF Calls
  <2> QED
    BY <1>1, <2>1, CallInv DEF LaunchCheck, Idle, Inserts, system
<1>2. CASE LaunchFails(c)
  BY <1>2, CallInv DEF LaunchFails, Checked, Inserts, system
<1>3. ASSUME NEW p \in Pids, NEW mode \in Modes, CreateProcess(c, p, mode) PROVE Inv'
  BY <1>3, CreateInv
<1> QED
  BY <1>1, <1>2, <1>3 DEF Launch

\* A debug session in the table has its pump.
LEMMA DebugPumped ==
  ASSUME Inv, NEW t \in Tokens, Live(t), sessions[t].mode = "debug"
  PROVE  /\ sessions[t] \in Attached /\ sessions[t].pid \in Pids
         /\ pump[sessions[t].pid] \in Pumps
<1>1. sessions[t] \in Attached
  BY SessionType DEF Inv, Base
<1>2. pump[sessions[t].pid] # None
  BY OwnerKinds DEF Inv, Base, DebugOwned
<1>3. sessions[t].pid \in Pids
  BY <1>1 DEF Attached
<1> QED
  BY <1>1, <1>2, <1>3 DEF Inv, Base, TypeOK

LEMMA GoInv ==
  ASSUME Inv, NEW c \in Callers, NEW t \in Tokens, NEW resumes \in BOOLEAN, Go(c, t, resumes)
  PROVE  Inv'
<1> DEFINE s == sessions[t]
           d == pump[s.pid]
           goes == d.serves /\ process[s.pid] # "gone"
           held == s.suspended /\ ~resumes
<1>1. Live(t) /\ s.mode = "debug" /\ UNCHANGED <<lock, call, token, debugged, handles>>
  BY DEF Go, Debugs, CanUse
<1>2. s \in Attached /\ s.pid \in Pids /\ d \in Pumps
  BY <1>1, DebugPumped
<1>3. PICK e \in Attached, q \in Pumps :
        /\ sessions' = [sessions EXCEPT ![t] = e] /\ pump' = [pump EXCEPT ![s.pid] = q]
        /\ Same(s, e) /\ (e.run_state # "Stopped" \/ q.view = "Stopped" \/ e.failed)
        /\ \/ UNCHANGED process
           \/ process' = [process EXCEPT ![s.pid] = "gone"]
  <2>1. CASE \E view \in IF goes THEN Views ELSE {"Running"} :
               /\ pump' = [pump EXCEPT ![s.pid] = [view |-> view, serves |-> goes]]
               /\ process' = [process EXCEPT ![s.pid] = IF view = "Exited" THEN "gone" ELSE @]
               /\ sessions' = [sessions EXCEPT ![t] =
                    [s EXCEPT !.run_state = view, !.failed = FALSE, !.suspended = held]]
    <3>1. PICK view \in IF goes THEN Views ELSE {"Running"} :
               /\ pump' = [pump EXCEPT ![s.pid] = [view |-> view, serves |-> goes]]
               /\ process' = [process EXCEPT ![s.pid] =
                    IF view = "Exited" THEN "gone" ELSE process[s.pid]]
               /\ sessions' = [sessions EXCEPT ![t] =
                    [s EXCEPT !.run_state = view, !.failed = FALSE, !.suspended = held]]
      BY <2>1
    <3> DEFINE e == [s EXCEPT !.run_state = view, !.failed = FALSE, !.suspended = held]
               q == [view |-> view, serves |-> goes]
    <3>2. held \in BOOLEAN /\ goes \in BOOLEAN /\ view \in Views
      BY DEF Views
    <3>3. \/ UNCHANGED process
          \/ process' = [process EXCEPT ![s.pid] = "gone"]
      BY <1>2, <3>1 DEF Inv, Base, TypeOK
    <3> HIDE DEF held, goes
    <3>4. e \in Attached /\ Same(s, e) /\ e.run_state = view
      BY <1>2, <3>2 DEF Attached, Same, Views
    <3>5. q \in Pumps /\ q.view = view
      BY <3>2 DEF Pumps, Views
    <3>6. sessions' = [sessions EXCEPT ![t] = e] /\ pump' = [pump EXCEPT ![s.pid] = q]
      BY <3>1
    <3> HIDE DEF e, q
    <3> QED
      BY <3>3, <3>4, <3>5, <3>6
  <2>2. CASE /\ pump' = [pump EXCEPT ![s.pid].view = "Running"]
             /\ sessions' = [sessions EXCEPT ![t].failed = TRUE]
             /\ UNCHANGED process
    <3> DEFINE e == [s EXCEPT !.failed = TRUE]
               q == [d EXCEPT !.view = "Running"]
    <3>1. e \in Attached /\ Same(s, e) /\ e.failed
      BY <1>2 DEF Attached, Same
    <3>2. q \in Pumps
      BY <1>2 DEF Pumps, Views
    <3>3. sessions' = [sessions EXCEPT ![t] = e] /\ pump' = [pump EXCEPT ![s.pid] = q]
      BY <2>2
    <3> HIDE DEF e, q
    <3> QED
      BY <2>2, <3>1, <3>2, <3>3
  <2> QED
    BY <2>1, <2>2 DEF Go
<1>4. /\ process' \in [Pids -> {"none", "running", "suspended", "gone"}]
      /\ \A p \in Pids : process[p] # "none" => process'[p] # "none"
      /\ \A p \in Pids : process'[p] = "suspended" => process[p] = "suspended"
  BY <1>2, <1>3 DEF Inv, Base, TypeOK
<1>5. TypeOK'
  BY <1>1, <1>3, <1>4 DEF Inv, Base, TypeOK
<1>6. /\ \A p \in Pids : p # e.pid => pump'[p] = pump[p]
      /\ \A p \in Pids : pump[p] # None <=> pump'[p] # None
      /\ pump'[e.pid] = q
  BY <1>2, <1>3 DEF Same, Inv, Base, TypeOK
<1>7. e.mode = "debug" /\ (e.run_state # "Stopped" \/ pump'[e.pid].view = "Stopped" \/ e.failed)
  BY <1>1, <1>3, <1>6 DEF Same
<1>8. sessions' = [sessions EXCEPT ![t] = e] /\ Same(sessions[t], e) /\ Live(t)
  BY <1>1, <1>3
<1>9. UNCHANGED <<token, debugged, handles>> /\ UNCHANGED <<call, lock>>
  BY <1>1
<1>10. e.mode # "observe"
  BY <1>7
<1> HIDE DEF s, d
<1> QED
  BY <1>4, <1>5, <1>6, <1>7, <1>8, <1>9, <1>10, UpdateInv

LEMMA ResumeInv ==
  ASSUME Inv, NEW c \in Callers, NEW t \in Tokens, Resume(c, t)
  PROVE  Inv'
<1> DEFINE e == [sessions[t] EXCEPT !.suspended = FALSE, !.run_state = "Attached"]
<1>1. /\ Live(t) /\ sessions[t].mode = "observe" /\ process[sessions[t].pid] = "suspended"
      /\ process' = [process EXCEPT ![sessions[t].pid] = "running"]
      /\ UNCHANGED <<lock, call, token, debugged, pump, handles>>
  BY DEF Resume, CanUse
<1>2. sessions' = [sessions EXCEPT ![t] = e]
  BY DEF Resume
<1>3. sessions[t] \in Attached /\ sessions[t].pid \in Pids
  BY <1>1, SessionType DEF Inv, Base, Attached
<1>4. e \in Attached /\ Same(sessions[t], e)
  BY <1>3 DEF Attached, Same
<1> HIDE DEF e
<1>5. TypeOK'
  BY <1>1, <1>2, <1>4 DEF Inv, Base, TypeOK
<1>6. /\ process'[sessions[t].pid] = "running"
      /\ \A p \in Pids : p # sessions[t].pid => process'[p] = process[p]
  BY <1>1, <1>3 DEF Inv, Base, TypeOK
<1> QED
  BY <1>1, <1>2, <1>4, <1>5, <1>6, UpdateInv DEF Same

LEMMA DetachInv ==
  ASSUME Inv, NEW c \in Callers, NEW t \in Tokens, DetachDebug(c, t) \/ DetachObserve(c, t)
  PROVE  Inv'
<1>1. Live(t) /\ lock = None /\ Leaves(t) /\ UNCHANGED lock
  BY DEF DetachDebug, DetachObserve, Debugs, CanUse, Leaves
<1>2. sessions[t] \in Attached /\ sessions[t].pid \in Pids
  BY <1>1, SessionType DEF Inv, Base, Attached
<1>3. sessions' \in [Tokens -> Attached \cup {None}]
  BY <1>1 DEF Leaves, Inv, Base, TypeOK
<1>4. CASE DetachDebug(c, t)
  <2>1. /\ sessions[t].mode = "debug"
        /\ debugged' \in {debugged, debugged \ {sessions[t].pid}}
        /\ pump' = [pump EXCEPT ![sessions[t].pid] = None]
        /\ UNCHANGED <<lock, call, token, process, handles>>
    BY <1>4 DEF DetachDebug, Debugs
  <2>2. TypeOK'
    BY <1>3, <2>1 DEF Inv, Base, TypeOK
  <2> QED
    BY <1>1, <2>1, <2>2, LeaveInv
<1>5. CASE DetachObserve(c, t)
  <2> DEFINE lets == sessions[t].suspended /\ sessions[t].thread # None
                       /\ process[sessions[t].pid] = "suspended"
  <2>1. /\ sessions[t].mode = "observe"
        /\ process' = [process EXCEPT ![sessions[t].pid] =
             IF lets THEN "running" ELSE process[sessions[t].pid]]
        /\ handles' = Closed({sessions[t].handle, sessions[t].thread})
        /\ UNCHANGED <<lock, call, token, debugged, pump>>
    BY <1>5 DEF DetachObserve
  <2>2. handles' \in [Handles -> Objects \cup {None}]
    BY <2>1 DEF Closed, Inv, Base, TypeOK
  <2>3. /\ process'[sessions[t].pid] = IF lets THEN "running" ELSE process[sessions[t].pid]
        /\ \A p \in Pids : p # sessions[t].pid => process'[p] = process[p]
        /\ process' \in [Pids -> {"none", "running", "suspended", "gone"}]
    BY <1>2, <2>1 DEF Inv, Base, TypeOK
  <2>4. TypeOK'
    BY <1>3, <2>1, <2>2, <2>3 DEF Inv, Base, TypeOK
  <2> QED
    BY <1>1, <2>1, <2>3, <2>4, LeaveInv
<1> QED
  BY <1>4, <1>5

LEMMA UseInv ==
  ASSUME Inv, NEW c \in Callers, NEW t \in Tokens, Use(c, t)
  PROVE  Inv'
<1>1. CASE Continue(c, t) \/ Step(c, t)
  BY <1>1, GoInv DEF Continue, Step
<1>2. CASE WaitBegin(c, t)
  <2> DEFINE x == [op |-> "wait", token |-> t]
  <2>1. x \in Calls /\ x # None /\ x.op = "wait" /\ x.token = t
    BY DEF Calls
  <2>2. /\ call' = [call EXCEPT ![c] = x] /\ lock' = c /\ lock = None /\ Idle(c) /\ Live(t)
        /\ sessions[t].mode = "debug"
        /\ UNCHANGED <<sessions, token, process, debugged, pump, handles>>
    BY <1>2 DEF WaitBegin, Debugs, CanUse, system
  <2>3. ~Inserts(c)
    BY <2>2 DEF Inserts
  <2> HIDE DEF x
  <2> QED
    BY <2>1, <2>2, <2>3, CallInv
<1>3. CASE Resume(c, t)
  BY <1>3, ResumeInv
<1>4. CASE DetachDebug(c, t) \/ DetachObserve(c, t)
  BY <1>4, DetachInv
<1>5. CASE SessionHandle(c, t)
  <2> DEFINE x == [op |-> "read", token |-> t, pid |-> sessions[t].pid,
                   handle |-> sessions[t].handle, mode |-> sessions[t].mode]
  <2>1. /\ call' = [call EXCEPT ![c] = x] /\ Idle(c) /\ Live(t)
        /\ UNCHANGED <<sessions, lock, token, process, debugged, pump, handles>>
    BY <1>5 DEF SessionHandle, CanUse, system
  <2>2. sessions[t].handle \in Handles /\ sessions[t].pid \in Pids /\ sessions[t].mode \in Modes
    BY <2>1, SessionType DEF Inv, Base, Attached
  <2>3. x \in Calls /\ x # None /\ x.op = "read" /\ x.token = t /\ Copied(x, sessions[t])
    BY <2>2 DEF Calls, Copied
  <2>4. ~Inserts(c)
    BY <2>1 DEF Inserts
  <2> HIDE DEF x
  <2> QED
    BY <2>1, <2>3, <2>4, CallInv
<1> QED
  BY <1>1, <1>2, <1>3, <1>4, <1>5 DEF Use

LEMMA WaitEndInv ==
  ASSUME Inv, NEW c \in Callers, WaitEnd(c)
  PROVE  Inv'
<1>1. PICK t \in Tokens : t = call[c].token
  BY DEF WaitEnd, Waits, Idle, Inv, Base, TypeOK, Calls
<1> DEFINE v == pump[sessions[t].pid].view
           e == [sessions[t] EXCEPT !.run_state = v]
<1>2. /\ Waits(c) /\ sessions' = [sessions EXCEPT ![t] = e] /\ lock' = None
      /\ call' = [call EXCEPT ![c] = None]
      /\ UNCHANGED <<token, process, debugged, pump, handles>>
  BY <1>1 DEF WaitEnd, system
<1>3. Live(t) /\ sessions[t].mode = "debug"
  BY <1>1, <1>2 DEF Inv, WaitersSound
<1>4. sessions[t] \in Attached /\ v \in Views
  BY <1>3, DebugPumped DEF Pumps
<1>5. e \in Attached /\ Same(sessions[t], e) /\ e.run_state = v /\ e.mode = "debug"
      /\ e.pid = sessions[t].pid
  BY <1>3, <1>4 DEF Attached, Same
<1> HIDE DEF e
<1>6. TypeOK'
  BY <1>2, <1>5 DEF Inv, Base, TypeOK
<1> QED
  BY <1>2, <1>3, <1>5, <1>6, UpdateInv

LEMMA FinishInv ==
  ASSUME Inv, NEW c \in Callers, Finish(c)
  PROVE  Inv'
<1>1. CASE UseHandle(c)
  BY <1>1, CallInv DEF UseHandle, Reads, Inserts, system
<1> QED
  BY <1>1, MoveInv, WaitEndInv DEF Finish

LEMMA SystemStepInv ==
  ASSUME Inv, NEW p \in Pids, Deliver(p) \/ ProcessEnds(p)
  PROVE  Inv'
<1>1. UNCHANGED <<sessions, lock, call, token, debugged, handles>> /\ Alive(p)
  BY DEF Deliver, ProcessEnds, library
<1>2. \/ UNCHANGED process
      \/ process' = [process EXCEPT ![p] = "gone"]
  BY DEF Deliver, ProcessEnds
<1>3. \/ UNCHANGED pump
      \/ /\ pump[p] # None /\ pump[p].view = "Running"
         /\ \E v \in Views : pump' = [pump EXCEPT ![p].view = v]
  BY DEF Deliver, ProcessEnds, Views
<1>4. /\ process' \in [Pids -> {"none", "running", "suspended", "gone"}]
      /\ \A q \in Pids : process'[q] = "suspended" => process[q] = "suspended"
      /\ \A q \in Pids : process[q] # "none" => process'[q] # "none"
  BY <1>2 DEF Inv, Base, TypeOK
<1>5. /\ pump' \in [Pids -> Pumps \cup {None}]
      /\ \A q \in Pids : pump[q] # None => pump'[q] # None
      /\ \A q \in Pids : pump[q] # None /\ pump[q].view = "Stopped" => pump'[q].view = "Stopped"
  <2>1. CASE UNCHANGED pump
    BY <2>1 DEF Inv, Base, TypeOK
  <2>2. CASE /\ pump[p] # None /\ pump[p].view = "Running"
             /\ \E v \in Views : pump' = [pump EXCEPT ![p].view = v]
    <3>1. PICK v \in Views : pump' = [pump EXCEPT ![p].view = v]
      BY <2>2
    <3>2. [pump[p] EXCEPT !.view = v] \in Pumps
      BY <2>2 DEF Inv, Base, TypeOK, Pumps
    <3>3. pump' = [pump EXCEPT ![p] = [pump[p] EXCEPT !.view = v]]
      BY <3>1
    <3> QED
      BY <2>2, <3>2, <3>3 DEF Inv, Base, TypeOK
  <2> QED
    BY <1>3, <2>1, <2>2
<1>6. TypeOK'
  BY <1>1, <1>4, <1>5 DEF Inv, Base, TypeOK
<1>7. DebugGrows
  <2>1. debugged \subseteq Pids /\ \A q \in debugged : process[q] # "none"
    BY DEF Inv, Base, TypeOK, DebugOwned
  <2> QED
    BY <1>1, <1>4, <1>5, <2>1 DEF DebugGrows
<1>8. debugged \subseteq Pids
  BY DEF Inv, Base, TypeOK
<1>9. \A q \in Pids : pump'[q] # None => pump[q] # None
  BY <1>3 DEF Inv, Base, TypeOK
<1> QED
  BY <1>1, <1>4, <1>5, <1>6, <1>7, <1>8, <1>9, TokenNat, SystemInv DEF Inv, Base

LEMMA StepInv == Inv /\ [Next]_vars => Inv'
<1> SUFFICES ASSUME Inv, [Next]_vars
             PROVE  Inv'
  OBVIOUS
<1>1. ASSUME NEW c \in Callers, NEW p \in Pids, Attach(c, p) PROVE Inv'
  BY <1>1, AttachInv
<1>2. ASSUME NEW c \in Callers, Launch(c) PROVE Inv'
  BY <1>2, LaunchInv
<1>3. ASSUME NEW c \in Callers, NEW t \in Tokens, Use(c, t) PROVE Inv'
  BY <1>3, UseInv
<1>4. ASSUME NEW c \in Callers, Finish(c) PROVE Inv'
  BY <1>4, FinishInv
<1>5. ASSUME NEW p \in Pids, Deliver(p) \/ ProcessEnds(p) PROVE Inv'
  BY <1>5, SystemStepInv
<1>6. CASE UNCHANGED vars
  <2>1. UNCHANGED <<sessions, lock, call, token, process, debugged, pump, handles>>
    BY <1>6 DEF vars, library, system
  <2>2. TypeOK' /\ DebugGrows
    BY <2>1 DEF Inv, Base, TypeOK, DebugGrows, DebugOwned
  <2> QED
    BY <2>1, <2>2, TokenNat, SystemInv DEF Inv, Base
<1> QED
  BY <1>1, <1>2, <1>3, <1>4, <1>5, <1>6 DEF Next

LEMMA Invariance == Spec => []Inv
<1> QED
  BY InitInv, StepInv, PTL DEF Spec

-----------------------------------------------------------------------------

(* An entry of the table keeps its handles to itself, whatever other attach,  *)
(* launch or detach runs beside it and although closed values come back.      *)
THEOREM HandlesAreOwned == Spec => []SessionOwnsHandles
<1>1. Inv => SessionOwnsHandles
  <2> SUFFICES ASSUME Inv PROVE SessionOwnsHandles
    OBVIOUS
  <2>1. \A t \in Tokens : Live(t) =>
          /\ handles[sessions[t].handle] = [kind |-> "process", pid |-> sessions[t].pid]
          /\ sessions[t].thread # None =>
               handles[sessions[t].thread] = [kind |-> "thread", pid |-> sessions[t].pid]
    BY OwnerKinds DEF Inv, Base, HandlesOwned
  <2>2. ASSUME NEW o1 \in Owners, NEW o2 \in Owners, o1 # o2
        PROVE  Held(o1) \cap Held(o2) = {}
    <3>1. /\ Rec(o1).handle # Rec(o2).handle
          /\ Rec(o1).thread # None => Rec(o1).thread # Rec(o2).thread
          /\ Rec(o1).handle # Rec(o2).thread /\ Rec(o2).handle # Rec(o1).thread
      BY <2>2, HandleKinds DEF Inv, Base, HandlesOwned
    <3>2. \A o \in Owners :
            Held(o) = {Rec(o).handle} \cup (IF Rec(o).thread = None THEN {} ELSE {Rec(o).thread})
      BY DEF Held, Rec
    <3> QED
      BY <3>1, <3>2
  <2> QED
    BY <2>1, <2>2 DEF SessionOwnsHandles
<1> QED
  BY <1>1, Invariance, PTL

(* A process launched suspended always has a session, or the launch that will *)
(* insert it, to let it run.                                                 *)
THEOREM SuspendedAreOwned == Spec => []SuspendedIsOwned
<1>1. Inv => SuspendedIsOwned
  BY DEF Inv, SuspendedOwned, SuspendedIsOwned
<1> QED
  BY <1>1, Invariance, PTL

(* Two debug sessions are never of one process, each has its pump, and no pump *)
(* goes on without its session or the call that will insert it.              *)
THEOREM DebugSessionsApart == Spec => []DebugIsExclusive
<1>1. Inv => DebugIsExclusive
  <2> SUFFICES ASSUME Inv PROVE DebugIsExclusive
    OBVIOUS
  <2>1. \A p \in Pids : pump[p] # None =>
          \/ \E t \in Tokens : Live(t) /\ sessions[t].mode = "debug" /\ sessions[t].pid = p
          \/ \E c \in Callers : Inserts(c) /\ call[c].mode = "debug" /\ call[c].pid = p
    BY OwnerKinds DEF Inv, Base, DebugOwned
  <2>2. \A t \in Tokens : Live(t) /\ sessions[t].mode = "debug" =>
          /\ sessions[t].pid \in debugged /\ pump[sessions[t].pid] # None
          /\ \A u \in Tokens : Live(u) /\ sessions[u].mode = "debug"
                               /\ sessions[u].pid = sessions[t].pid => u = t
    BY OwnerKinds DEF Inv, Base, DebugOwned
  <2> QED
    BY <2>1, <2>2 DEF DebugIsExclusive
<1> QED
  BY <1>1, Invariance, PTL

(* A reader's copy of a handle names the process it was copied for, unless its *)
(* observe session was detached meanwhile: no other attach, launch or detach   *)
(* takes it away, nor the end of a debug session.                             *)
THEOREM ReadersOnTarget == Spec => []ReaderReadsItsTarget
<1>1. Inv => ReaderReadsItsTarget
  <2> SUFFICES ASSUME Inv, NEW c \in Callers, Reads(c)
               PROVE  \/ handles[call[c].handle] = [kind |-> "process", pid |-> call[c].pid]
                      \/ call[c].mode = "observe" /\ ~Live(call[c].token)
    BY DEF ReaderReadsItsTarget
  <2>1. call[c].token \in Tokens /\ call[c].mode \in Modes
    BY ReaderType DEF Inv, Base
  <2>2. CASE call[c].mode = "debug"
    BY <2>2 DEF Inv, ReadersSound
  <2>3. CASE Live(call[c].token)
    <3>1. Copied(call[c], sessions[call[c].token])
      BY <2>3 DEF Inv, ReadersSound
    <3>2. /\ call[c].token \in Owners /\ Rec(call[c].token).handle = call[c].handle
          /\ Rec(call[c].token).pid = call[c].pid
      BY <2>1, <2>3, <3>1, OwnerKinds DEF Copied
    <3> QED
      BY <3>2 DEF Inv, Base, HandlesOwned
  <2> QED
    BY <2>1, <2>2, <2>3 DEF Modes
<1> QED
  BY <1>1, Invariance, PTL

(* The copied run state says Stopped of a stopped debuggee only, as long as   *)
(* the commands of the session succeed.                                      *)
THEOREM CopiesHold == Spec => []StoppedCopyHolds
<1>1. Inv => StoppedCopyHolds
  BY DEF Inv
<1> QED
  BY <1>1, Invariance, PTL
=============================================================================
