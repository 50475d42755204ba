----------------------------- MODULE DebugPump -----------------------------
(***************************************************************************)
(* The debug half of the Live Process Bridge: one DebugSession of          *)
(* crates/ghidrust-core/src/process/win_debug.rs.                           *)
(*                                                                         *)
(* Three parties meet here.  The DEBUGGEE is a Windows process whose        *)
(* threads run over a short stretch of code, raise debug events and are     *)
(* frozen while one of them is being served; it is external and modelled    *)
(* from the calls the pump makes.  The PUMP is the thread that owns         *)
(* WaitForDebugEvent, the breakpoint table and the event being held.  The   *)
(* CLIENT is the caller of the DebugSession methods: the session table's    *)
(* lock lets one of them in at a time.  Client and pump meet in a command   *)
(* channel and in SharedDebug, which both of them write.                    *)
(***************************************************************************)
EXTENDS Naturals, Sequences

CONSTANTS
  Threads,         \* the debuggee's own threads
  SysThread,       \* the thread that runs ntdll's break-in code
  CodeLen,         \* the debuggee loops over the addresses 0 .. CodeLen
  BpAddrs,         \* the addresses a client sets breakpoints at
  Ops,             \* the operations the client calls
  MaxBp,           \* bound: breakpoints created in a behaviour
  MaxAbandoned,    \* bound: commands whose reply the client stops waiting for
  DrainMax,        \* events Detach drains (32 in the code)
  ReportAfter,     \* an INT3 is reported at the address after it
  ShadowedClears,  \* the client may clear a fired oneshot by id after a new
                   \* breakpoint was set at its address
  None             \* the absent value

ASSUME CodeAssumption   == CodeLen \in Nat \ {0} /\ BpAddrs \subseteq 0 .. CodeLen - 1
ASSUME BoundAssumption  == MaxBp \in Nat /\ MaxAbandoned \in Nat /\ DrainMax \in Nat
ASSUME OpsAssumption    == Ops \subseteq {"continue", "pause", "query", "detach", "set_bp",
                                          "clear_id", "clear_addr", "set_context", "step",
                                          "step_out"}
ASSUME FlagAssumption   == ReportAfter \in BOOLEAN /\ ShadowedClears \in BOOLEAN
ASSUME ThreadAssumption == SysThread \notin Threads /\ None \notin Threads \cup {SysThread}

VARIABLES
  \* the debuggee
  text,          \* the byte at each address a breakpoint may be set at
  rip, tf,       \* program counter and trap flag of each thread
  ts,            \* what each thread is doing
  queue,         \* debug events raised and not yet taken by WaitForDebugEvent
  \* the pump thread's locals
  pc,            \* where pump_loop is
  drained,       \* events taken by the drain loop of Detach
  pending,       \* the event that waits for a Continue
  letting,       \* it is continued, and SharedDebug is not told yet
  stopped, exited, first_bp_seen,
  bps,           \* the breakpoint table, by id
  addr_to_id,    \* the index the pump looks a hit up in
  \* SharedDebug
  last_stop, shared_exited, run_state, next_bp_id,
  \* the channel and the client
  chan,          \* commands sent and not yet received
  client,        \* what the calling method is doing
  abandoned,     \* commands given up on
  \* history
  lost,          \* the threads whose last hit lost its breakpoint while queued
  overrun,       \* those resumed after it past an instruction never executed
  refused        \* the pump still holds what the last step did not continue

debuggee == <<text, rip, tf, ts, queue>>
table    == <<bps, addr_to_id>>
local    == <<drained, pending, letting, stopped, exited, first_bp_seen>>
shared   == <<last_stop, shared_exited, run_state, next_bp_id>>
skipped  == <<lost, overrun>>
history  == <<skipped, refused>>
vars     == <<debuggee, pc, local, table, shared, chan, client, abandoned, history>>

-----------------------------------------------------------------------------
(* Values *)

Tids == Threads \cup {SysThread}
Ids  == 1 .. MaxBp
Code == 0 .. CodeLen

Genuine == "genuine"     \* the byte the program was built with
Int3    == "int3"        \* 0xCC
Byte    == {Genuine, Int3}

EventKinds == {"load", "break", "step", "exception", "exit"}
Event  == [kind : EventKinds, tid : Tids, addr : Code \cup {None}]

SoftBp == [addr : BpAddrs, original : Byte, oneshot : BOOLEAN, enabled : BOOLEAN]

StopReasons == {"initial_break", "breakpoint", "step", "exception", "exit"}
StopEvent == [reason : StopReasons, tid : Tids, rip : Code \cup {None},
              bp_id : Ids \cup {None}]

RunStates == {"Running", "Stopped", "Exited", "Detached"}

ASSUME NoneAssumption == None \notin Event \cup SoftBp \cup StopEvent \cup Ids

ContinueCmd == [op |-> "continue"]
PauseCmd    == [op |-> "pause"]
QueryCmd    == [op |-> "query"]
DetachCmd   == [op |-> "detach"]

PumpCmd ==
  {ContinueCmd, PauseCmd, QueryCmd, DetachCmd}
    \cup [op : {"set_bp"}, addr : BpAddrs, oneshot : BOOLEAN]
    \cup [op : {"clear_id"}, id : Ids]
    \cup [op : {"clear_addr"}, addr : BpAddrs]
    \cup [op : {"set_context"}, tid : Threads, rip : Code, tf : BOOLEAN]
    \cup [op : {"step"}, tid : Tids]

\* A client is idle, is done with the session, has told SharedDebug that the
\* debuggee runs and not yet sent the command that makes it so, waits for a
\* reply, or is inside step_out: waiting for its oneshot breakpoint, or having
\* it and about to continue.
Idle    == [at |-> "idle"]
Done    == [at |-> "done"]
Landing == [at |-> "landing"]

Client ==
  {Idle, Done, Landing} \cup [at : {"announced", "waiting", "step_out"}, cmd : PumpCmd]

-----------------------------------------------------------------------------
(* The debuggee *)

Alive     == \E t \in Threads : ts[t] # "gone"
Exists(t) == ts[t] # "gone"

\* No thread of the debuggee runs between the delivery of an event and its
\* ContinueDebugEvent.
Free == (pending = None \/ letting) /\ pc # "dead"

Following(a) == IF a = CodeLen THEN 0 ELSE a + 1

Armed(a) == a \in BpAddrs /\ text[a] = Int3

Raise(t, kind, a) ==
  /\ queue' = Append(queue, [kind |-> kind, tid |-> t, addr |-> a])
  /\ ts' = [ts EXCEPT ![t] = "stuck"]

\* A thread reaches an armed byte: the processor has consumed it.
HitInt3(t) ==
  /\ Free /\ ts[t] = "running" /\ t \in Threads
  /\ Armed(rip[t])
  /\ Raise(t, "break", rip[t])
  /\ rip' = [rip EXCEPT ![t] = rip[t] + 1]
  /\ lost' = lost \ {t} /\ overrun' = overrun \ {t}
  /\ UNCHANGED <<text, tf>>

\* A thread executes one instruction; the trap flag raises a single step.
Execute(t) ==
  /\ Free /\ ts[t] = "running" /\ t \in Threads
  /\ ~Armed(rip[t])
  /\ rip' = [rip EXCEPT ![t] = Following(rip[t])]
  /\ IF tf[t]
       THEN Raise(t, "step", Following(rip[t])) /\ tf' = [tf EXCEPT ![t] = FALSE]
       ELSE UNCHANGED <<ts, queue, tf>>
  /\ UNCHANGED <<text, skipped>>

\* An instruction faults; it is not executed.
Fault(t) ==
  /\ Free /\ ts[t] = "running" /\ t \in Threads
  /\ ~Armed(rip[t])
  /\ Raise(t, "exception", rip[t])
  /\ UNCHANGED <<text, rip, tf, skipped>>

\* The break-in thread: loads, breaks once, then ends (or traps if stepped).
BreakIn ==
  /\ Free
  /\ \/ /\ ts[SysThread] = "breaking"
        /\ Raise(SysThread, "break", None)
        /\ UNCHANGED tf
     \/ /\ ts[SysThread] = "running" /\ tf[SysThread]
        /\ Raise(SysThread, "step", None)
        /\ tf' = [tf EXCEPT ![SysThread] = FALSE]
     \/ /\ ts[SysThread] = "running" /\ ~tf[SysThread]
        /\ ts' = [ts EXCEPT ![SysThread] = "gone"]
        /\ UNCHANGED <<queue, tf>>
  /\ UNCHANGED <<text, rip, skipped>>

\* The process ends: no thread is left, the last event is its exit.  A thread
\* whose event is queued cannot be ended before that event is continued.
ExitProcess(t) ==
  /\ Free /\ ts[t] = "running" /\ t \in Threads
  /\ \A u \in Tids : ts[u] # "stuck"
  /\ queue' = Append(queue, [kind |-> "exit", tid |-> t, addr |-> None])
  /\ ts' = [u \in Tids |-> "gone"]
  /\ UNCHANGED <<text, rip, tf, skipped>>

Debuggee ==
  /\ \/ \E t \in Threads : HitInt3(t) \/ Execute(t) \/ Fault(t) \/ ExitProcess(t)
     \/ BreakIn
  /\ UNCHANGED <<pc, local, table, shared, chan, client, abandoned, refused>>

BreakInRuns == BreakIn /\ UNCHANGED <<pc, local, table, shared, chan, client, abandoned, refused>>

\* ts after ContinueDebugEvent of e.
Resumed(e) ==
  [ts EXCEPT ![e.tid] = IF ts[e.tid] = "gone" THEN "gone"
                        ELSE IF e.kind = "load" THEN "breaking" ELSE "running"]

-----------------------------------------------------------------------------
(* The client: the methods of DebugSession *)

\* send(): a dead pump has dropped its receiver, so the send fails.
Send(at, c) ==
  IF pc = "dead"
    THEN client' = (IF c = DetachCmd THEN Done ELSE Idle) /\ UNCHANGED chan
    ELSE client' = [at |-> at, cmd |-> c] /\ chan' = Append(chan, c)

RoomForBp == next_bp_id + Len(chan) <= MaxBp

\* Another entry of the table was set at the address of entry id, or is about to.
Shadowed(id) ==
  \/ \E other \in Ids \ {id} : bps[other] # None /\ bps[other].addr = bps[id].addr
  \/ \E i \in 1 .. Len(chan) : chan[i].op = "set_bp" /\ chan[i].addr = bps[id].addr

\* Which breakpoints the client sets and clears.
Sendable(c) ==
  /\ c.op = "set_bp"   => RoomForBp
  /\ c.op = "clear_id" => bps[c.id] # None /\ (ShadowedClears \/ ~Shadowed(c.id))

\* pause, set_soft_bp, clear_bp, list_bp, get_context, set_context, stack,
\* threads and detach send one command and wait for its reply.
Request(c) ==
  /\ client = Idle /\ c.op \in Ops \ {"continue", "step"} /\ Sendable(c)
  /\ Send("waiting", c)
  /\ UNCHANGED <<debuggee, pc, local, table, shared, abandoned, history>>

\* continue_exec, step_into and step_over first clear the last stop ...
Announce(c) ==
  /\ (client = Idle /\ c.op \in Ops) \/ (client = Landing /\ c = ContinueCmd)
  /\ c.op \in {"continue", "step"}
  /\ last_stop' = None /\ run_state' = "Running"
  /\ client' = [at |-> "announced", cmd |-> c]
  /\ UNCHANGED <<debuggee, pc, local, table, shared_exited, next_bp_id, chan, abandoned, history>>

\* ... and then, the lock released, send the command.
SendAnnounced ==
  /\ client.at = "announced"
  /\ Send("waiting", client.cmd)
  /\ UNCHANGED <<debuggee, pc, local, table, shared, abandoned, history>>

\* step_out: a oneshot breakpoint at the return address, then continue_exec.
\* Its fallback is a loop of context reads, steps and waits.
StepOut(a) ==
  /\ client = Idle /\ "step_out" \in Ops /\ RoomForBp
  /\ Send("step_out", [op |-> "set_bp", addr |-> a, oneshot |-> TRUE])
  /\ UNCHANGED <<debuggee, pc, local, table, shared, abandoned, history>>

GiveUp == client' = IF client.cmd = DetachCmd THEN Done ELSE Idle

\* recv_timeout expires; the command stays in the channel.
Timeout ==
  /\ client.at \in {"waiting", "step_out"} /\ client.cmd # DetachCmd
  /\ abandoned < MaxAbandoned /\ abandoned' = abandoned + 1
  /\ GiveUp
  /\ UNCHANGED <<debuggee, pc, local, table, shared, chan, history>>

\* The pump returned without serving the command: the reply channel is closed.
Disconnected ==
  /\ client.at \in {"waiting", "step_out"} /\ pc = "dead"
  /\ GiveUp /\ chan' = <<>>
  /\ UNCHANGED <<debuggee, pc, local, table, shared, abandoned, history>>

ClientStep ==
  \/ \E c \in PumpCmd : Request(c) \/ Announce(c)
  \/ \E a \in BpAddrs : StepOut(a)
  \/ SendAnnounced \/ Timeout \/ Disconnected

-----------------------------------------------------------------------------
(* The pump: handle_cmd *)

\* The reply reaches the client if the command served is the one it waits
\* for, which is the last one sent.
Reply(ok) ==
  client' = IF client.at \notin {"waiting", "step_out"} \/ Len(chan) > 1 THEN client
            ELSE IF client.at = "step_out" /\ ok THEN Landing
            ELSE Idle

\* pump_loop receives at the top of an iteration, and while stopped.
Serving(op) ==
  /\ chan # <<>> /\ Head(chan).op = op /\ ~letting
  /\ pc = "poll" \/ (pc = "wait" /\ stopped)

Receive(op) == Serving(op) /\ chan' = Tail(chan)

\* After a command at the top pump_loop returns if the debuggee exited.
NextIteration == pc' = IF pc = "wait" THEN "poll" ELSE IF exited THEN "dead" ELSE "wait"

\* BUG: SharedDebug is left to the client, which wrote it before sending.
TellStoppedOnly == stopped' = FALSE /\ refused' = FALSE /\ UNCHANGED run_state

\* BUG: the pump goes on waiting for commands.
TellSharedOnly == run_state' = "Running" /\ refused' = FALSE /\ UNCHANGED stopped

\* The pump and SharedDebug are told that nothing is held.
TellRunning == stopped' = FALSE /\ run_state' = "Running" /\ refused' = FALSE

\* ContinueDebugEvent of the event held.
LetGo == pending # None /\ ts' = Resumed(pending) /\ letting' = TRUE

\* After it, SharedDebug is told and the client answered.
Told ==
  /\ letting /\ letting' = FALSE /\ pending' = None
  /\ TellRunning /\ last_stop' = None
  /\ chan' = Tail(chan) /\ NextIteration /\ Reply(TRUE)
  /\ UNCHANGED <<debuggee, first_bp_seen, exited, drained, table, shared_exited, next_bp_id,
                 abandoned, skipped>>

\* BUG: a oneshot that fired is armed again.
RearmedAll ==
  [a \in BpAddrs |-> IF \E id \in Ids : bps[id] # None /\ bps[id].addr = a THEN Int3 ELSE text[a]]

\* Enabled breakpoints are armed again, a oneshot that fired is not.
Rearmed ==
  [a \in BpAddrs |->
     IF \E id \in Ids : bps[id] # None /\ bps[id].enabled /\ bps[id].addr = a
       THEN Int3 ELSE text[a]]

ContinueHeld ==
  /\ Serving("continue") /\ LetGo
  /\ text' = Rearmed
  /\ UNCHANGED <<rip, tf, queue, pc, drained, pending, stopped, exited, first_bp_seen, table, shared,
                 chan, client, abandoned, history>>

Continue ==
  /\ Receive("continue") /\ NextIteration /\ pending = None
  /\ text' = Rearmed
  /\ IF exited THEN UNCHANGED <<stopped, run_state, refused>> ELSE TellRunning
  /\ Reply(~exited)
  /\ UNCHANGED <<rip, tf, ts, queue, drained, pending, letting, exited, first_bp_seen, table,
                 last_stop, shared_exited, next_bp_id, abandoned, skipped>>

\* DebugBreakProcess starts the break-in thread.
Pause ==
  /\ Receive("pause") /\ NextIteration
  /\ ts' = IF Alive /\ ~Exists(SysThread) THEN [ts EXCEPT ![SysThread] = "breaking"] ELSE ts
  /\ Reply(Alive)
  /\ UNCHANGED <<text, rip, tf, queue, local, table, shared, abandoned, history>>

NewBp(a, oneshot) ==
  [addr |-> a, original |-> text[a], oneshot |-> oneshot, enabled |-> TRUE]

SetSoftBp ==
  /\ Receive("set_bp") /\ NextIteration
  /\ LET a == Head(chan).addr IN
       IF addr_to_id[a] # None \/ ~Alive
         THEN UNCHANGED <<text, table, next_bp_id>>
         ELSE /\ bps' = [bps EXCEPT ![next_bp_id] = NewBp(a, Head(chan).oneshot)]
              /\ addr_to_id' = [addr_to_id EXCEPT ![a] = next_bp_id]
              /\ text' = [text EXCEPT ![a] = Int3]
              /\ next_bp_id' = next_bp_id + 1
  /\ Reply(Alive \/ addr_to_id[Head(chan).addr] # None)
  /\ UNCHANGED <<rip, tf, ts, queue, local, last_stop, shared_exited, run_state, abandoned, history>>

\* The threads whose hit of the breakpoint at a waits in q.
HitsAt(a, q) ==
  {t \in Threads : \E i \in 1 .. Len(q) : q[i].kind = "break" /\ q[i].tid = t /\ q[i].addr = a}

\* BUG: the index keeps the address.
ClearTableOnly(id) ==
  IF id = None \/ bps[id] = None
    THEN UNCHANGED <<text, table, lost>>
    ELSE /\ bps' = [bps EXCEPT ![id] = None]
         /\ text' = IF Alive THEN [text EXCEPT ![bps[id].addr] = bps[id].original] ELSE text
         /\ UNCHANGED <<addr_to_id, lost>>

\* Removes entry id, whatever the index says of its address now.
Clear(id) ==
  IF id = None \/ bps[id] = None
    THEN UNCHANGED <<text, table, lost>>
    ELSE /\ bps' = [bps EXCEPT ![id] = None]
         /\ addr_to_id' = [addr_to_id EXCEPT ![bps[id].addr] = None]
         /\ text' = IF Alive THEN [text EXCEPT ![bps[id].addr] = bps[id].original] ELSE text
         /\ lost' = lost \cup HitsAt(bps[id].addr, queue)

ClearBpById ==
  /\ Receive("clear_id") /\ NextIteration
  /\ Clear(Head(chan).id)
  /\ Reply(Alive \/ bps[Head(chan).id] = None)
  /\ UNCHANGED <<rip, tf, ts, queue, local, shared, abandoned, overrun, refused>>

ClearBpByAddr ==
  /\ Receive("clear_addr") /\ NextIteration
  /\ Clear(addr_to_id[Head(chan).addr])
  /\ Reply(Alive /\ addr_to_id[Head(chan).addr] # None)
  /\ UNCHANGED <<rip, tf, ts, queue, local, shared, abandoned, overrun, refused>>

\* ListBp, GetContext, Stack and Threads read and reply.
Query ==
  /\ Receive("query") /\ NextIteration
  /\ Reply(TRUE)
  /\ UNCHANGED <<debuggee, local, table, shared, abandoned, history>>

SetContext ==
  /\ Receive("set_context") /\ NextIteration
  /\ LET t == Head(chan).tid IN
       /\ rip' = IF Exists(t) THEN [rip EXCEPT ![t] = Head(chan).rip] ELSE rip
       /\ tf' = IF Exists(t) THEN [tf EXCEPT ![t] = Head(chan).tf] ELSE tf
       /\ Reply(Exists(t))
  /\ UNCHANGED <<text, ts, queue, local, table, shared, abandoned, history>>

\* StepInto and StepOver: the trap flag, then the event held is continued.
\* Breakpoints are not armed again.
StepHeld ==
  /\ Serving("step") /\ Exists(Head(chan).tid) /\ LetGo
  /\ tf' = [tf EXCEPT ![Head(chan).tid] = TRUE]
  /\ UNCHANGED <<text, rip, queue, pc, drained, pending, stopped, exited, first_bp_seen, table, shared,
                 chan, client, abandoned, history>>

Step ==
  /\ Receive("step") /\ NextIteration
  /\ LET t == Head(chan).tid IN
       /\ Exists(t) => pending = None
       /\ IF Exists(t)
            THEN tf' = [tf EXCEPT ![t] = TRUE] /\ TellRunning /\ last_stop' = None
            ELSE refused' = stopped /\ UNCHANGED <<tf, stopped, last_stop, run_state>>
       /\ Reply(Exists(t))
  /\ UNCHANGED <<text, rip, ts, queue, drained, pending, letting, exited, first_bp_seen, table,
                 shared_exited, next_bp_id, abandoned, skipped>>

\* BUG: the table is forgotten before the originals are written back.
RestoredLate == {text}

\* Detach writes every original back, in the order the map yields them, forgets
\* the table, continues the event held and goes on to drain.
Restored ==
  {f \in [BpAddrs -> Byte] : \A a \in BpAddrs :
     LET at == {id \in Ids : bps[id] # None /\ bps[id].addr = a} IN
       IF at = {} \/ ~Alive THEN f[a] = text[a] ELSE \E id \in at : f[a] = bps[id].original}

DetachRestore ==
  /\ Receive("detach")
  /\ text' \in Restored
  /\ bps' = [id \in Ids |-> None] /\ addr_to_id' = [a \in BpAddrs |-> None]
  /\ ts' = IF pending = None THEN ts ELSE Resumed(pending)
  /\ pending' = None
  /\ pc' = "drain" /\ drained' = 0
  /\ lost' = lost \cup UNION {HitsAt(a, queue) : a \in BpAddrs}
  /\ UNCHANGED <<rip, tf, queue, letting, stopped, exited, first_bp_seen, shared, client, abandoned,
                 overrun, refused>>

\* A breakpoint event served with the program counter left past the INT3.
RunsOn(e) == e.kind = "break" /\ e.tid \in Threads /\ rip'[e.tid] = e.addr + 1

Serve(e) == overrun' = IF RunsOn(e) THEN overrun \cup {e.tid} ELSE overrun

\* BUG: the drain is not bounded.
DetachDrainAll ==
  /\ pc = "drain" /\ queue # <<>>
  /\ UNCHANGED rip
  /\ LET e == Head(queue) IN
       /\ ts' = Resumed(e)
       /\ exited' = (exited \/ e.kind = "exit")
       /\ Serve(e)
  /\ queue' = Tail(queue)
  /\ UNCHANGED <<text, tf, pc, drained, pending, letting, stopped, first_bp_seen, table, shared, chan,
                 client, abandoned, lost, refused>>

DetachDrain ==
  /\ pc = "drain" /\ queue # <<>> /\ drained < DrainMax
  /\ UNCHANGED rip
  /\ LET e == Head(queue) IN
       /\ ts' = Resumed(e)
       /\ exited' = (exited \/ e.kind = "exit")
       /\ Serve(e)
  /\ queue' = Tail(queue) /\ drained' = drained + 1
  /\ UNCHANGED <<text, tf, pc, pending, letting, stopped, first_bp_seen, table, shared, chan, client,
                 abandoned, lost, refused>>

\* DebugActiveProcessStop; detach() joins the pump and returns.
DetachStop ==
  /\ pc = "drain" /\ (queue = <<>> \/ drained = DrainMax)
  /\ exited' = TRUE /\ shared_exited' = TRUE /\ run_state' = "Detached"
  /\ pc' = "dead" /\ client' = Done
  /\ UNCHANGED <<debuggee, drained, pending, letting, stopped, first_bp_seen, table, last_stop,
                 next_bp_id, chan, abandoned, history>>

-----------------------------------------------------------------------------
(* The pump: pump_loop *)

\* No command at the top of an iteration.
PollEmpty ==
  /\ pc = "poll" /\ chan = <<>>
  /\ pc' = IF exited THEN "dead" ELSE "wait"
  /\ UNCHANGED <<debuggee, local, table, shared, chan, client, abandoned, history>>

\* 50 ms without a command while stopped, or without an event while not.
WaitEmpty ==
  /\ pc = "wait" /\ (IF stopped THEN chan = <<>> ELSE queue = <<>>)
  /\ pc' = "poll"
  /\ UNCHANGED <<debuggee, local, table, shared, chan, client, abandoned, history>>

\* BUG: the next event is taken while one is held.
WaitAnyway(kind) ==
  /\ pc = "wait"
  /\ queue # <<>> /\ Head(queue).kind = kind
  /\ queue' = Tail(queue) /\ pc' = "poll"

WaitForDebugEvent(kind) ==
  /\ pc = "wait" /\ ~stopped
  /\ queue # <<>> /\ Head(queue).kind = kind
  /\ queue' = Tail(queue) /\ pc' = "poll"

RipOf(t) == IF t \in Threads THEN rip'[t] ELSE None

\* The event is kept and published: the debuggee stays frozen.
Stop(reason, bp_id) ==
  LET e == Head(queue) IN
    /\ pending' = e /\ stopped' = TRUE /\ refused' = FALSE /\ UNCHANGED <<ts, letting>>
    /\ last_stop' = [reason |-> reason, tid |-> e.tid, bp_id |-> bp_id,
                     rip |-> IF reason = "exit" THEN None ELSE RipOf(e.tid)]
    /\ exited' = (reason = "exit") /\ shared_exited' = exited'
    /\ run_state' = IF exited' THEN "Exited" ELSE "Stopped"

\* BUG: an event that does not stop is never continued.
PassOnHeld ==
  UNCHANGED <<ts, pending, letting, stopped, exited, last_stop, shared_exited, run_state, refused>>

\* The event is continued at once.
PassOn ==
  /\ ts' = Resumed(Head(queue))
  /\ UNCHANGED <<pending, letting, stopped, exited, last_stop, shared_exited, run_state, refused>>

OnLoad ==
  /\ WaitForDebugEvent("load") /\ PassOn
  /\ UNCHANGED <<text, rip, tf, drained, first_bp_seen, table, next_bp_id, chan, client, abandoned, skipped>>

OnStep ==
  /\ WaitForDebugEvent("step")
  /\ UNCHANGED <<text, rip, tf, drained, first_bp_seen, table, next_bp_id, chan, client, abandoned, skipped>>
  /\ Stop("step", None)

OnException ==
  /\ WaitForDebugEvent("exception")
  /\ UNCHANGED <<text, rip, tf, drained, first_bp_seen, table, next_bp_id, chan, client, abandoned, skipped>>
  /\ Stop("exception", None)

OnExit ==
  /\ WaitForDebugEvent("exit")
  /\ UNCHANGED <<text, rip, tf, drained, first_bp_seen, table, next_bp_id, chan, client, abandoned, skipped>>
  /\ Stop("exit", None)

\* The entry an INT3 reported at addr belongs to: the address before it is
\* looked up first, then addr.
IndexAt(a) == IF a \in BpAddrs THEN addr_to_id[a] ELSE None

\* BUG: the byte after it.
LookupAfter(addr) ==
  LET after == IndexAt(addr + 1)
  IN  IF after # None THEN after ELSE IndexAt(addr)

Lookup(addr) ==
  LET before == IndexAt(IF addr = 0 THEN 0 ELSE addr - 1)
  IN  IF before # None THEN before ELSE IndexAt(addr)

Reported(e) == IF ReportAfter THEN e.addr + 1 ELSE e.addr

\* The entry hit by e; the break-in thread's INT3 is nobody's.
HitOf(e) == IF e.tid = SysThread THEN None ELSE Lookup(Reported(e))

\* BUG: the program counter is compared with the exception address only.
BackedUpAtReport(e, a) ==
  IF rip[e.tid] = Reported(e) THEN [rip EXCEPT ![e.tid] = a] ELSE rip

\* The program counters once the thread of e is put back on address a.
BackedUp(e, a) ==
  IF rip[e.tid] \in {a + 1, Reported(e)} THEN [rip EXCEPT ![e.tid] = a] ELSE rip

\* The byte looked up first has a breakpoint, and it is not the one hit.
Beside(e) == \E a \in BpAddrs \ {e.addr} : a + 1 = Reported(e) /\ addr_to_id[a] # None

\* Our breakpoint: the byte is restored, the thread put back on the
\* instruction, a oneshot disabled and taken out of the index.
OnBreakpoint ==
  /\ WaitForDebugEvent("break")
  /\ LET e == Head(queue)  id == HitOf(e)  bp == bps[id] IN
       /\ id # None
       /\ text' = [text EXCEPT ![bp.addr] = bp.original]
       /\ rip' = BackedUp(e, bp.addr)
       /\ bps' = [bps EXCEPT ![id].enabled = ~bp.oneshot /\ bp.enabled]
       /\ addr_to_id' = IF bp.oneshot THEN [addr_to_id EXCEPT ![bp.addr] = None] ELSE addr_to_id
       /\ Stop("breakpoint", id)
       /\ Serve(e)
       /\ lost' = lost \cup (IF Beside(e) THEN {e.tid} ELSE {})
                      \cup (IF bp.oneshot THEN HitsAt(bp.addr, queue') ELSE {})
  /\ first_bp_seen' = TRUE
  /\ UNCHANGED <<tf, drained, next_bp_id, chan, client, abandoned>>

\* The first INT3 that is not ours is the loader's.
OnInitialBreak ==
  /\ WaitForDebugEvent("break") /\ HitOf(Head(queue)) = None /\ ~first_bp_seen
  /\ UNCHANGED <<text, rip, tf, drained, table, next_bp_id, chan, client, abandoned>>
  /\ Stop("initial_break", None)
  /\ Serve(Head(queue)) /\ UNCHANGED lost
  /\ first_bp_seen' = TRUE

\* Any later one is passed along.
OnUnrelatedBreak ==
  /\ WaitForDebugEvent("break") /\ HitOf(Head(queue)) = None /\ first_bp_seen
  /\ UNCHANGED <<text, rip, tf, drained, table, next_bp_id, chan, client, abandoned>>
  /\ PassOn
  /\ Serve(Head(queue)) /\ UNCHANGED lost
  /\ UNCHANGED first_bp_seen

HandleCmd ==
  ContinueHeld \/ Continue \/ StepHeld \/ Told \/ Pause \/ SetSoftBp \/ ClearBpById \/ ClearBpByAddr \/ Query
    \/ SetContext \/ Step \/ DetachRestore

HandleEvent ==
  OnLoad \/ OnStep \/ OnException \/ OnExit \/ OnBreakpoint \/ OnInitialBreak
    \/ OnUnrelatedBreak

Pump == HandleCmd \/ HandleEvent \/ PollEmpty \/ WaitEmpty \/ DetachDrain \/ DetachStop

-----------------------------------------------------------------------------

\* start_attached: the debuggee's threads run, its break-in thread is loading.
Init ==
  /\ text = [a \in BpAddrs |-> Genuine]
  /\ rip = [t \in Threads |-> 0] /\ tf = [t \in Tids |-> FALSE]
  /\ ts = [t \in Tids |-> IF t = SysThread THEN "stuck" ELSE "running"]
  /\ queue = <<[kind |-> "load", tid |-> SysThread, addr |-> None]>>
  /\ pc = "poll" /\ drained = 0 /\ pending = None /\ letting = FALSE
  /\ stopped = FALSE /\ exited = FALSE /\ first_bp_seen = FALSE
  /\ bps = [id \in Ids |-> None] /\ addr_to_id = [a \in BpAddrs |-> None]
  /\ last_stop = None /\ shared_exited = FALSE /\ run_state = "Running" /\ next_bp_id = 1
  /\ chan = <<>> /\ client = Idle /\ abandoned = 0
  /\ lost = {} /\ overrun = {} /\ refused = FALSE

\* After detach the DebugSession is gone.
SessionOver == client = Done /\ pc = "dead" /\ UNCHANGED vars

Next == Debuggee \/ ClientStep \/ Pump \/ SessionOver

Spec == Init /\ [][Next]_vars

\* The pump thread keeps running, and so does a client method once called.
\* Nothing makes the debuggee run or the client call.
FairSpec ==
  Spec /\ WF_vars(Pump) /\ WF_vars(SendAnnounced) /\ WF_vars(Disconnected)
       /\ WF_vars(client = Landing /\ Announce(ContinueCmd))
\* The system also lets the break-in thread run.
BreakInFairSpec == FairSpec /\ WF_vars(BreakInRuns)

-----------------------------------------------------------------------------
(* Properties *)

DebuggeeTypeOK ==
  /\ text \in [BpAddrs -> Byte]
  /\ rip \in [Threads -> Code] /\ tf \in [Tids -> BOOLEAN]
  /\ ts \in [Tids -> {"running", "stuck", "breaking", "gone"}]
  /\ queue \in Seq(Event)

LocalTypeOK ==
  /\ pc \in {"poll", "wait", "drain", "dead"} /\ drained \in Nat
  /\ pending \in Event \cup {None}
  /\ letting \in BOOLEAN /\ stopped \in BOOLEAN /\ exited \in BOOLEAN /\ first_bp_seen \in BOOLEAN

TableTypeOK ==
  /\ bps \in [Ids -> SoftBp \cup {None}]
  /\ addr_to_id \in [BpAddrs -> Ids \cup {None}]

SharedTypeOK ==
  /\ last_stop \in StopEvent \cup {None}
  /\ shared_exited \in BOOLEAN /\ run_state \in RunStates
  /\ next_bp_id \in Nat \ {0}

ClientTypeOK ==
  /\ chan \in Seq(PumpCmd) /\ client \in Client
  /\ abandoned \in Nat

HistoryTypeOK == lost \subseteq Threads /\ overrun \subseteq Threads /\ refused \in BOOLEAN

\* Every variable keeps to its range.
TypeOK ==
  /\ DebuggeeTypeOK /\ LocalTypeOK /\ TableTypeOK /\ SharedTypeOK /\ ClientTypeOK
  /\ HistoryTypeOK

\* The index never leads a hit to the wrong entry: an indexed address names a
\* live, enabled entry for that very address (the pump unwraps bps[&id] when a
\* breakpoint is set again, and restores the entry's byte when one is hit).
IndexNamesLiveEntry ==
  \A a \in BpAddrs : addr_to_id[a] # None =>
    /\ bps[addr_to_id[a]] # None
    /\ bps[addr_to_id[a]].addr = a
    /\ bps[addr_to_id[a]].enabled

\* When the client reads Stopped, the debuggee is stopped: the pump holds the
\* very event that was published and its thread is frozen.  continue_exec and
\* the steps write SharedDebug before the pump knows, a timed out command may
\* be served much later, and yet the client never sees a stop that is over,
\* but in the moment between ContinueDebugEvent and the write after it, and
\* while Detach drains.
StoppedIsHeld ==
  run_state = "Stopped" /\ pc # "drain" /\ ~letting =>
    /\ stopped /\ pending # None /\ last_stop # None
    /\ last_stop.tid = pending.tid
    /\ ts[pending.tid] = "stuck"

\* The session keeps the promise StopProtocol makes of it: the pump takes no
\* event while it holds one, publishes each stop as it is taken, and is done
\* with an event only as a reader is told that the debuggee runs, or detaching.
Phase == IF pc = "drain" THEN "closing" ELSE IF pc = "dead" THEN "closed" ELSE "serving"
HeldThread  == IF pending = None THEN None ELSE pending.tid
ShownThread == IF last_stop = None THEN None ELSE last_stop.tid

Promise == INSTANCE StopProtocol WITH
  phase <- Phase, held <- HeldThread, view <- run_state, shown <- ShownThread

PromiseKept == Promise!Spec

\* A breakpoint stop names the breakpoint the thread ran into, whose byte is
\* the one restored, unless the hit lost its breakpoint while it was queued
\* (then a neighbour's may be found) or the byte before it has a breakpoint
\* too, which the pump looks up first and takes the hit for.
StopNamesItsBreakpoint ==
  pending # None /\ ~letting /\ last_stop # None /\ last_stop.reason = "breakpoint" =>
    LET bp == bps[last_stop.bp_id] IN
      bp # None => bp.addr = pending.addr \/ pending.tid \in lost

\* An INT3 in a live debuggee's code belongs to the table, and what the table
\* would write back is the program's own byte.
TextIsOwned ==
  /\ Alive => \A a \in BpAddrs : text[a] = Int3 =>
       \E id \in Ids : bps[id] # None /\ bps[id].addr = a
  /\ \A id \in Ids : bps[id] # None => bps[id].original = Genuine

\* Detach leaves a live debuggee with the code it was attached with.
DetachRestoresText ==
  pc \in {"drain", "dead"} /\ run_state = "Detached" /\ Alive => text = [a \in BpAddrs |-> Genuine]

\* A thread is resumed past an instruction that a breakpoint replaced, and that
\* it never executed, only if its hit lost that breakpoint before the pump took
\* it: the client cleared the breakpoint or detached, it was a oneshot that
\* fired for another thread first, or the byte before it has a breakpoint too,
\* which the pump takes the hit for.
NoInstructionSkipped == overrun \subseteq lost

\* A client that reads Running is not looking at a debuggee the pump holds,
\* but after a step the pump refused: step_into and step_over announce Running
\* before the pump tries, and nothing takes it back.
RunningIsNotHeld ==
  run_state = "Running" /\ client = Idle /\ chan = <<>> /\ pc # "dead" => ~stopped \/ refused

\* Every method called returns.
CommandsReturn == client.at \in {"announced", "waiting", "step_out"} ~> client \in {Idle, Done, Landing}

\* A thread that raised an event is not left frozen unless the client is shown
\* a stop, the pump refused the client's step, or the session is over.
ThreadsAreServed ==
  \A t \in Tids : ts[t] = "stuck" ~>
    ts[t] # "stuck" \/ run_state \in {"Stopped", "Exited"} \/ refused \/ pc = "dead"

\* A pause the pump accepted leads to a stop.
PauseStops ==
  (client = [at |-> "waiting", cmd |-> PauseCmd] /\ first_bp_seen /\ Alive)
    ~> (run_state \in {"Stopped", "Exited", "Detached"} \/ client.at = "announced")
=============================================================================
