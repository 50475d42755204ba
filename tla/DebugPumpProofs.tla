-------------------------- MODULE DebugPumpProofs --------------------------
(***************************************************************************)
(* What holds of DebugPump for any threads, code, breakpoint addresses and  *)
(* bounds: its types, the soundness of the breakpoint index, that a Stopped *)
(* the client reads is a stop the pump holds, and that a session implements *)
(* StopProtocol; and, at the end, what holds for a client that takes care.  *)
(***************************************************************************)
EXTENDS DebugPump, SequenceTheorems, TLAPS

-----------------------------------------------------------------------------
(* The inductive invariant *)

\* A set_bp under way will find an id within the bound.
RoomInv ==
  \A i \in 1 .. Len(chan) : chan[i].op = "set_bp" => next_bp_id + i - 1 <= MaxBp

\* Ids not given out name no entry.
FreshInv == \A id \in Ids : id >= next_bp_id => bps[id] = None

\* A thread with an event queued is frozen in it, and has no other event; the
\* exit of the process leaves no thread.
QueueInv ==
  /\ \A i \in 1 .. Len(queue) : queue[i].kind = "exit" => \A t \in Tids : ts[t] = "gone"
  /\ \A i \in 1 .. Len(queue) : queue[i].kind # "exit" => ts[queue[i].tid] = "stuck"
  /\ \A i, j \in 1 .. Len(queue) :
       queue[i].kind # "exit" /\ queue[j].kind # "exit" /\ queue[i].tid = queue[j].tid => i = j
  /\ pending # None /\ ~letting => \A i \in 1 .. Len(queue) :
       queue[i].kind # "exit" => queue[i].tid # pending.tid

\* The pump says it is stopped when it holds an event, and drains holding none;
\* while it lets one go it is inside the command that asks for it.
HeldInv ==
  /\ pc \in {"poll", "wait"} => (stopped <=> pending # None)
  /\ pc = "drain" => pending = None
  /\ letting => /\ pending # None /\ pc \in {"poll", "wait"}
                /\ chan # <<>> /\ Head(chan).op \in {"continue", "step"}

\* Only a continue or a step is announced.
AnnouncedInv == client.at = "announced" => client.cmd.op \in {"continue", "step"}

IInv ==
  /\ TypeOK
  /\ RoomInv /\ AnnouncedInv                \* what is in the channel
  /\ FreshInv /\ IndexNamesLiveEntry        \* the table
  /\ HeldInv /\ QueueInv /\ StoppedIsHeld   \* events, queued and held

-----------------------------------------------------------------------------
(* Lemmas *)

\* The ranges of what the code keeps, the history left out.
RangesOK == DebuggeeTypeOK /\ LocalTypeOK /\ TableTypeOK /\ SharedTypeOK /\ ClientTypeOK

\* Breakpoints are set in the code.
LEMMA BpInCode == BpAddrs \subseteq Code
  BY CodeAssumption DEF Code

\* What the argument of a command received is.
LEMMA CmdArgs ==
  ASSUME NEW c \in PumpCmd
  PROVE  /\ c.op = "set_bp" => c.addr \in BpAddrs /\ c.oneshot \in BOOLEAN
         /\ c.op = "clear_id" => c.id \in Ids
         /\ c.op = "clear_addr" => c.addr \in BpAddrs
         /\ c.op = "set_context" => c.tid \in Threads /\ c.rip \in Code /\ c.tf \in BOOLEAN
         /\ c.op = "step" => c.tid \in Tids
  BY DEF PumpCmd, ContinueCmd, PauseCmd, QueryCmd, DetachCmd

\* The command taken from the channel and the ones left.
LEMMA ReceiveType ==
  ASSUME ClientTypeOK, NEW op, Receive(op)
  PROVE  Head(chan) \in PumpCmd /\ Head(chan).op = op /\ chan' \in Seq(PumpCmd)
  BY HeadTailProperties DEF ClientTypeOK, Receive, Serving

\* A reply, and a call that gives up, leave the client in range.
LEMMA ReplyType ==
  ASSUME ClientTypeOK, NEW ok, Reply(ok)
  PROVE  client' \in Client
  BY DEF ClientTypeOK, Reply, Client

\* A command sent is in range, and so is its sender.
LEMMA SendType ==
  ASSUME ClientTypeOK, NEW c \in PumpCmd, NEW at \in {"waiting", "step_out"}, Send(at, c)
  PROVE  client' \in Client /\ chan' \in Seq(PumpCmd)
  BY DEF ClientTypeOK, Send, Client

\* The event taken from the queue and the ones left.
LEMMA WaitType ==
  ASSUME DebuggeeTypeOK, NEW kind, WaitForDebugEvent(kind)
  PROVE  Head(queue) \in Event /\ Head(queue).kind = kind /\ queue' \in Seq(Event)
         /\ Head(queue).tid \in Tids
<1>1. Head(queue) \in Event /\ Tail(queue) \in Seq(Event)
  BY HeadTailProperties DEF DebuggeeTypeOK, WaitForDebugEvent
<1>2. Head(queue).tid \in Tids
  BY <1>1 DEF Event
<1> QED
  BY <1>1, <1>2 DEF WaitForDebugEvent

\* A thread continued is in one of the states of a thread.
LEMMA ResumedType ==
  ASSUME DebuggeeTypeOK, NEW e \in Event
  PROVE  Resumed(e) \in [Tids -> {"running", "stuck", "breaking", "gone"}]
  BY DEF DebuggeeTypeOK, Resumed, Event

\* A thread that is gone stays gone.
LEMMA ResumedGone ==
  ASSUME DebuggeeTypeOK, NEW e, NEW t \in Tids, ts[t] = "gone"
  PROVE  Resumed(e)[t] = "gone"
<1>1. CASE t = e.tid
  BY <1>1 DEF Resumed, DebuggeeTypeOK
<1>2. CASE t # e.tid
  BY <1>2 DEF Resumed, DebuggeeTypeOK
<1> QED
  BY <1>1, <1>2

\* An event raised is in range, and freezes its thread.
LEMMA RaiseType ==
  ASSUME DebuggeeTypeOK, NEW t \in Tids, NEW kind \in EventKinds, NEW a \in Code \cup {None},
         Raise(t, kind, a)
  PROVE  /\ queue' \in Seq(Event)
         /\ ts' \in [Tids -> {"running", "stuck", "breaking", "gone"}]
  BY DEF DebuggeeTypeOK, Raise, Event

\* An event published is in range.
LEMMA StopType ==
  ASSUME LocalTypeOK, SharedTypeOK, Head(queue) \in Event,
         rip' \in [Threads -> Code],
         NEW reason \in StopReasons, NEW id \in Ids \cup {None}, Stop(reason, id)
  PROVE  /\ pending' \in Event /\ stopped' \in BOOLEAN /\ exited' \in BOOLEAN
         /\ last_stop' \in StopEvent /\ shared_exited' \in BOOLEAN /\ run_state' \in RunStates
<1>1. Head(queue).tid \in Tids
  BY DEF Event
<1>2. RipOf(Head(queue).tid) \in Code \cup {None}
  BY <1>1 DEF RipOf, Tids
<1>3. last_stop' \in StopEvent
  BY <1>1, <1>2 DEF Stop, StopEvent
<1> QED
  BY <1>3 DEF Stop, RunStates

-----------------------------------------------------------------------------
(* Type correctness of the debuggee's steps *)

\* A step of the debuggee keeps every variable in range.
LEMMA DebuggeeType ==
  ASSUME TypeOK, Debuggee
  PROVE  RangesOK'
<1> USE CodeAssumption DEF TypeOK, RangesOK
<1>1. UNCHANGED <<pc, local, table, shared, chan, client, abandoned, refused>>
  BY DEF Debuggee
<1>2. LocalTypeOK' /\ TableTypeOK' /\ SharedTypeOK' /\ ClientTypeOK'
  BY <1>1 DEF LocalTypeOK, TableTypeOK, SharedTypeOK, ClientTypeOK, local, table, shared
<1>3. ASSUME NEW t \in Threads, HitInt3(t) PROVE DebuggeeTypeOK'
  <2>1. rip[t] \in Code /\ rip[t] + 1 \in Code
    BY <1>3 DEF HitInt3, Armed, DebuggeeTypeOK, Code
  <2>2. Raise(t, "break", rip[t])
    BY <1>3 DEF HitInt3
  <2>3. queue' \in Seq(Event) /\ ts' \in [Tids -> {"running", "stuck", "breaking", "gone"}]
    BY <2>1, <2>2, RaiseType DEF Tids, EventKinds
  <2> QED
    BY <1>3, <2>1, <2>3 DEF HitInt3, DebuggeeTypeOK
<1>4. ASSUME NEW t \in Threads, Execute(t) PROVE DebuggeeTypeOK'
  <2>1. Following(rip[t]) \in Code
    BY DEF DebuggeeTypeOK, Code, Following
  <2>2. CASE tf[t]
    <3>1. Raise(t, "step", Following(rip[t]))
      BY <1>4, <2>2 DEF Execute
    <3>2. queue' \in Seq(Event) /\ ts' \in [Tids -> {"running", "stuck", "breaking", "gone"}]
      BY <2>1, <3>1, RaiseType DEF Tids, EventKinds
    <3> QED
      BY <1>4, <2>1, <2>2, <3>2 DEF Execute, DebuggeeTypeOK
  <2>3. CASE ~tf[t]
    BY <1>4, <2>1, <2>3 DEF Execute, DebuggeeTypeOK
  <2> QED
    BY <2>2, <2>3
<1>5. ASSUME NEW t \in Threads, Fault(t) PROVE DebuggeeTypeOK'
  <2>1. rip[t] \in Code /\ Raise(t, "exception", rip[t])
    BY <1>5 DEF Fault, DebuggeeTypeOK
  <2>2. queue' \in Seq(Event) /\ ts' \in [Tids -> {"running", "stuck", "breaking", "gone"}]
    BY <2>1, RaiseType DEF Tids, EventKinds
  <2> QED
    BY <1>5, <2>2 DEF Fault, DebuggeeTypeOK
<1>6. ASSUME NEW t \in Threads, ExitProcess(t) PROVE DebuggeeTypeOK'
  BY <1>6 DEF ExitProcess, DebuggeeTypeOK, Event, EventKinds, Tids
<1>7. ASSUME BreakIn PROVE DebuggeeTypeOK'
  <2>1. ASSUME NEW kind \in {"break", "step"}, Raise(SysThread, kind, None)
        PROVE  queue' \in Seq(Event) /\ ts' \in [Tids -> {"running", "stuck", "breaking", "gone"}]
    BY <2>1, RaiseType DEF Tids, EventKinds
  <2> QED
    BY <1>7, <2>1 DEF BreakIn, DebuggeeTypeOK, Tids
<1> QED
  BY <1>2, <1>3, <1>4, <1>5, <1>6, <1>7 DEF Debuggee

-----------------------------------------------------------------------------
(* Type correctness of the client's steps *)

\* So does a call of the client,
LEMMA ClientType ==
  ASSUME TypeOK, ClientStep
  PROVE  RangesOK'
<1> USE DEF TypeOK, RangesOK
<1>1. ASSUME NEW c \in PumpCmd, Request(c) PROVE RangesOK'
  <2>1. client' \in Client /\ chan' \in Seq(PumpCmd)
    BY <1>1, SendType DEF Request
  <2> QED
    BY <1>1, <2>1 DEF Request, debuggee, local, table, shared,
         DebuggeeTypeOK, LocalTypeOK, TableTypeOK, SharedTypeOK, ClientTypeOK
<1>2. ASSUME NEW c \in PumpCmd, Announce(c) PROVE RangesOK'
  BY <1>2 DEF Announce, debuggee, local, table, Client, RunStates,
       DebuggeeTypeOK, LocalTypeOK, TableTypeOK, SharedTypeOK, ClientTypeOK
<1>3. ASSUME NEW a \in BpAddrs, StepOut(a) PROVE RangesOK'
  <2>1. [op |-> "set_bp", addr |-> a, oneshot |-> TRUE] \in PumpCmd
    BY DEF PumpCmd
  <2>2. client' \in Client /\ chan' \in Seq(PumpCmd)
    BY <1>3, <2>1, SendType DEF StepOut
  <2> QED
    BY <1>3, <2>2 DEF StepOut, debuggee, local, table, shared,
         DebuggeeTypeOK, LocalTypeOK, TableTypeOK, SharedTypeOK, ClientTypeOK
<1>4. ASSUME SendAnnounced PROVE RangesOK'
  <2>1. client.cmd \in PumpCmd
    BY <1>4 DEF SendAnnounced, ClientTypeOK, Client, Idle, Done, Landing
  <2>2. client' \in Client /\ chan' \in Seq(PumpCmd)
    BY <1>4, <2>1, SendType DEF SendAnnounced
  <2> QED
    BY <1>4, <2>2 DEF SendAnnounced, debuggee, local, table, shared,
         DebuggeeTypeOK, LocalTypeOK, TableTypeOK, SharedTypeOK, ClientTypeOK
<1>5. ASSUME Timeout \/ Disconnected PROVE RangesOK'
  <2>1. client' \in Client /\ chan' \in Seq(PumpCmd) /\ abandoned' \in Nat
    <3>1. client' \in Client
      BY <1>5 DEF Timeout, Disconnected, GiveUp, Client
    <3>2. CASE Timeout
      BY <3>1, <3>2 DEF Timeout, ClientTypeOK
    <3>3. CASE Disconnected
      BY <3>1, <3>3, EmptySeq DEF Disconnected, ClientTypeOK
    <3> QED
      BY <1>5, <3>2, <3>3
  <2> QED
    BY <1>5, <2>1 DEF Timeout, Disconnected, debuggee, local, table, shared,
         DebuggeeTypeOK, LocalTypeOK, TableTypeOK, SharedTypeOK, ClientTypeOK
<1> QED
  BY <1>1, <1>2, <1>3, <1>4, <1>5 DEF ClientStep

-----------------------------------------------------------------------------
(* Type correctness of the pump's steps *)

\* The pump goes to one of its places.
LEMMA NextIterationType ==
  ASSUME NextIteration
  PROVE  pc' \in {"poll", "wait", "dead"}
  BY DEF NextIteration

\* A clear leaves the code and the table in range.
LEMMA ClearType ==
  ASSUME TypeOK, NEW id \in Ids \cup {None}, Clear(id)
  PROVE  TableTypeOK' /\ text' \in [BpAddrs -> Byte]
<1>1. CASE id = None \/ bps[id] = None
  BY <1>1 DEF Clear, TypeOK, DebuggeeTypeOK, TableTypeOK, table
<1>2. CASE ~(id = None \/ bps[id] = None)
  <2>1. id \in Ids /\ bps[id] \in SoftBp
    BY <1>2 DEF TypeOK, TableTypeOK
  <2>2. bps[id].addr \in BpAddrs /\ bps[id].original \in Byte
    BY <2>1 DEF SoftBp
  <2>3. TableTypeOK'
    BY <1>2, <2>1, <2>2 DEF Clear, TypeOK, TableTypeOK
  <2>4. text' \in [BpAddrs -> Byte]
    BY <1>2, <2>2 DEF Clear, TypeOK, DebuggeeTypeOK
  <2> QED
    BY <2>3, <2>4
<1> QED
  BY <1>1, <1>2

\* a command served,
LEMMA HandleCmdType ==
  ASSUME TypeOK, RoomInv, HeldInv, HandleCmd
  PROVE  RangesOK'
<1> USE DEF TypeOK, RangesOK
<1>1. CASE Continue
  <2>1. client' \in Client /\ chan' \in Seq(PumpCmd)
    BY <1>1, ReceiveType, ReplyType DEF Continue
  <2>2. text' \in [BpAddrs -> Byte]
    BY <1>1 DEF Continue, Rearmed, DebuggeeTypeOK, Byte
  <2>3. stopped' \in BOOLEAN /\ run_state' \in RunStates
    BY <1>1 DEF Continue, TellRunning, RunStates, LocalTypeOK, SharedTypeOK
  <2> QED
    BY <1>1, <2>1, <2>2, <2>3, NextIterationType DEF Continue, table,
         DebuggeeTypeOK, LocalTypeOK, TableTypeOK, SharedTypeOK, ClientTypeOK
<1>10. CASE ContinueHeld \/ StepHeld
  <2>1. ts' \in [Tids -> {"running", "stuck", "breaking", "gone"}] /\ letting' = TRUE
    BY <1>10, ResumedType DEF ContinueHeld, StepHeld, LetGo, LocalTypeOK
  <2>2. text' \in [BpAddrs -> Byte]
    BY <1>10 DEF ContinueHeld, StepHeld, Rearmed, DebuggeeTypeOK, Byte
  <2>3. tf' \in [Tids -> BOOLEAN]
    BY <1>10 DEF ContinueHeld, StepHeld, DebuggeeTypeOK
  <2> QED
    BY <1>10, <2>1, <2>2, <2>3 DEF ContinueHeld, StepHeld, table, shared,
         DebuggeeTypeOK, LocalTypeOK, TableTypeOK, SharedTypeOK, ClientTypeOK
<1>11. CASE Told
  <2>1. client' \in Client /\ chan' \in Seq(PumpCmd)
    BY <1>11, ReplyType, HeadTailProperties DEF Told, HeldInv, ClientTypeOK
  <2> QED
    BY <1>11, <2>1, NextIterationType DEF Told, TellRunning, RunStates, debuggee, table,
         DebuggeeTypeOK, LocalTypeOK, TableTypeOK, SharedTypeOK, ClientTypeOK
<1>2. CASE Pause
  <2>1. client' \in Client /\ chan' \in Seq(PumpCmd)
    BY <1>2, ReceiveType, ReplyType DEF Pause
  <2> QED
    BY <1>2, <2>1, NextIterationType DEF Pause, local, table, shared,
         DebuggeeTypeOK, LocalTypeOK, TableTypeOK, SharedTypeOK, ClientTypeOK
<1>3. CASE SetSoftBp
  <2> DEFINE a == Head(chan).addr
  <2>1. client' \in Client /\ chan' \in Seq(PumpCmd)
    BY <1>3, ReceiveType, ReplyType DEF SetSoftBp
  <2>2. Head(chan) \in PumpCmd /\ Head(chan).op = "set_bp"
    BY <1>3, ReceiveType DEF SetSoftBp
  <2>3. a \in BpAddrs /\ Head(chan).oneshot \in BOOLEAN
    BY <2>2, CmdArgs
  <2>4. next_bp_id \in Ids
    <3>1. Len(chan) \in Nat \ {0} /\ Head(chan) = chan[1]
      BY <1>3, EmptySeq DEF SetSoftBp, Receive, Serving, ClientTypeOK
    <3>2. next_bp_id <= MaxBp
      BY <2>2, <3>1, BoundAssumption DEF RoomInv, SharedTypeOK
    <3> QED
      BY <3>2, BoundAssumption DEF Ids, SharedTypeOK
  <2>5. NewBp(a, Head(chan).oneshot) \in SoftBp
    BY <2>3 DEF NewBp, SoftBp, DebuggeeTypeOK
  <2>6. CASE addr_to_id[a] # None \/ ~Alive
    BY <1>3, <2>1, <2>6, NextIterationType DEF SetSoftBp, local, table,
         DebuggeeTypeOK, LocalTypeOK, TableTypeOK, SharedTypeOK, ClientTypeOK
  <2>7. CASE ~(addr_to_id[a] # None \/ ~Alive)
    <3>1. TableTypeOK'
      BY <1>3, <2>3, <2>4, <2>5, <2>7 DEF SetSoftBp, TableTypeOK
    <3>2. text' \in [BpAddrs -> Byte] /\ next_bp_id' \in Nat \ {0}
      BY <1>3, <2>3, <2>7 DEF SetSoftBp, DebuggeeTypeOK, SharedTypeOK, Byte
    <3> QED
      BY <1>3, <2>1, <3>1, <3>2, NextIterationType DEF SetSoftBp, local,
           DebuggeeTypeOK, LocalTypeOK, SharedTypeOK, ClientTypeOK
  <2> QED
    BY <2>6, <2>7
<1>4. CASE ClearBpById
  <2>1. client' \in Client /\ chan' \in Seq(PumpCmd) /\ Head(chan).id \in Ids
    BY <1>4, ReceiveType, ReplyType, CmdArgs DEF ClearBpById
  <2>2. TableTypeOK' /\ text' \in [BpAddrs -> Byte]
    BY <1>4, <2>1, ClearType DEF ClearBpById
  <2> QED
    BY <1>4, <2>1, <2>2, NextIterationType DEF ClearBpById, local, shared,
         DebuggeeTypeOK, LocalTypeOK, SharedTypeOK, ClientTypeOK
<1>5. CASE ClearBpByAddr
  <2>1. client' \in Client /\ chan' \in Seq(PumpCmd) /\ Head(chan).addr \in BpAddrs
    BY <1>5, ReceiveType, ReplyType, CmdArgs DEF ClearBpByAddr
  <2>2. addr_to_id[Head(chan).addr] \in Ids \cup {None}
    BY <2>1 DEF TableTypeOK
  <2>3. TableTypeOK' /\ text' \in [BpAddrs -> Byte]
    BY <1>5, <2>2, ClearType DEF ClearBpByAddr
  <2> QED
    BY <1>5, <2>1, <2>3, NextIterationType DEF ClearBpByAddr, local, shared,
         DebuggeeTypeOK, LocalTypeOK, SharedTypeOK, ClientTypeOK
<1>6. CASE Query
  <2>1. client' \in Client /\ chan' \in Seq(PumpCmd)
    BY <1>6, ReceiveType, ReplyType DEF Query
  <2> QED
    BY <1>6, <2>1, NextIterationType DEF Query, debuggee, local, table, shared,
         DebuggeeTypeOK, LocalTypeOK, TableTypeOK, SharedTypeOK, ClientTypeOK
<1>7. CASE SetContext
  <2>1. client' \in Client /\ chan' \in Seq(PumpCmd)
    BY <1>7, ReceiveType, ReplyType DEF SetContext
  <2>2. Head(chan).tid \in Threads /\ Head(chan).rip \in Code /\ Head(chan).tf \in BOOLEAN
    BY <1>7, ReceiveType, CmdArgs DEF SetContext
  <2>3. rip' \in [Threads -> Code] /\ tf' \in [Tids -> BOOLEAN]
    BY <1>7, <2>2 DEF SetContext, DebuggeeTypeOK
  <2> QED
    BY <1>7, <2>1, <2>3, NextIterationType DEF SetContext, local, table, shared,
         DebuggeeTypeOK, LocalTypeOK, TableTypeOK, SharedTypeOK, ClientTypeOK
<1>8. CASE Step
  <2>1. client' \in Client /\ chan' \in Seq(PumpCmd)
    BY <1>8, ReceiveType, ReplyType DEF Step
  <2>2. tf' \in [Tids -> BOOLEAN]
    BY <1>8, ReceiveType, CmdArgs DEF Step, DebuggeeTypeOK
  <2>3. stopped' \in BOOLEAN /\ run_state' \in RunStates /\ last_stop' \in {last_stop, None}
    BY <1>8 DEF Step, TellRunning, RunStates, LocalTypeOK, SharedTypeOK
  <2> QED
    BY <1>8, <2>1, <2>2, <2>3, NextIterationType DEF Step, table,
         DebuggeeTypeOK, LocalTypeOK, TableTypeOK, SharedTypeOK, ClientTypeOK
<1>9. CASE DetachRestore
  <2>1. chan' \in Seq(PumpCmd)
    BY <1>9, ReceiveType DEF DetachRestore
  <2>2. text' \in [BpAddrs -> Byte]
    BY <1>9 DEF DetachRestore, Restored
  <2>3. ts' \in [Tids -> {"running", "stuck", "breaking", "gone"}]
    BY <1>9, ResumedType DEF DetachRestore, DebuggeeTypeOK, LocalTypeOK
  <2> QED
    BY <1>9, <2>1, <2>2, <2>3 DEF DetachRestore, shared,
         DebuggeeTypeOK, LocalTypeOK, TableTypeOK, SharedTypeOK, ClientTypeOK
<1> QED
  BY <1>1, <1>2, <1>3, <1>4, <1>5, <1>6, <1>7, <1>8, <1>9, <1>10, <1>11 DEF HandleCmd

\* A hit that is found names an entry of the table.
\* An entry hit is live, and indexed at its own address.
LEMMA HitType ==
  ASSUME TypeOK, IndexNamesLiveEntry, NEW e, HitOf(e) # None
  PROVE  /\ HitOf(e) \in Ids /\ bps[HitOf(e)] \in SoftBp
         /\ bps[HitOf(e)].addr \in BpAddrs /\ addr_to_id[bps[HitOf(e)].addr] = HitOf(e)
<1>1. PICK a \in BpAddrs : HitOf(e) = addr_to_id[a]
  BY DEF HitOf, Lookup, IndexAt
<1>2. addr_to_id[a] # None /\ addr_to_id[a] \in Ids
  BY <1>1 DEF TypeOK, TableTypeOK
<1>3. bps[addr_to_id[a]] \in SoftBp /\ bps[addr_to_id[a]].addr = a
  BY <1>2 DEF IndexNamesLiveEntry, TypeOK, TableTypeOK
<1> QED
  BY <1>1, <1>2, <1>3

\* an event served,
LEMMA HandleEventType ==
  ASSUME TypeOK, IndexNamesLiveEntry, HandleEvent
  PROVE  RangesOK'
<1> USE DEF TypeOK, RangesOK
<1> DEFINE e == Head(queue)
<1>0. e \in Event /\ queue' \in Seq(Event) /\ e.tid \in Tids /\ pc' = "poll"
  <2>1. \E kind : WaitForDebugEvent(kind)
    BY DEF HandleEvent, OnLoad, OnStep, OnException, OnExit, OnBreakpoint, OnInitialBreak, OnUnrelatedBreak
  <2> QED
    BY <2>1, WaitType DEF WaitForDebugEvent
<1>1. CASE OnLoad
  <2>1. ts' \in [Tids -> {"running", "stuck", "breaking", "gone"}]
    BY <1>0, <1>1, ResumedType DEF OnLoad, PassOn
  <2> QED
    BY <1>0, <1>1, <2>1 DEF OnLoad, PassOn, table,
         DebuggeeTypeOK, LocalTypeOK, TableTypeOK, SharedTypeOK, ClientTypeOK
<1>2. ASSUME NEW reason \in StopReasons, Stop(reason, None),
             UNCHANGED <<text, rip, tf, drained, first_bp_seen, table, next_bp_id, chan, client, abandoned>>
      PROVE  RangesOK'
  <2>1. /\ pending' \in Event /\ stopped' \in BOOLEAN /\ exited' \in BOOLEAN
        /\ last_stop' \in StopEvent /\ shared_exited' \in BOOLEAN /\ run_state' \in RunStates
    BY <1>0, <1>2, StopType DEF DebuggeeTypeOK
  <2> QED
    BY <1>0, <1>2, <2>1 DEF Stop, table,
         DebuggeeTypeOK, LocalTypeOK, TableTypeOK, SharedTypeOK, ClientTypeOK
<1>3. CASE OnStep
  BY <1>2, <1>3 DEF OnStep, StopReasons
<1>4. CASE OnException
  BY <1>2, <1>4 DEF OnException, StopReasons
<1>5. CASE OnExit
  BY <1>2, <1>5 DEF OnExit, StopReasons
<1>6. CASE OnBreakpoint
  <2> DEFINE id == HitOf(e)
             bp == bps[id]
  <2>1. id \in Ids /\ bp \in SoftBp /\ bp.addr \in BpAddrs
    BY <1>6, HitType DEF OnBreakpoint
  <2>2. bp.original \in Byte /\ bp.oneshot \in BOOLEAN /\ bp.enabled \in BOOLEAN /\ bp.addr \in Code
    BY <2>1, BpInCode DEF SoftBp
  <2>3. rip' \in [Threads -> Code]
    BY <1>6, <2>2 DEF OnBreakpoint, BackedUp, DebuggeeTypeOK
  <2>4. text' \in [BpAddrs -> Byte]
    BY <1>6, <2>1, <2>2 DEF OnBreakpoint, DebuggeeTypeOK
  <2>5. [bp EXCEPT !.enabled = ~bp.oneshot /\ bp.enabled] \in SoftBp
    BY <2>1, <2>2 DEF SoftBp
  <2>6. TableTypeOK'
    <3>1. bps' = [bps EXCEPT ![id] = [bp EXCEPT !.enabled = ~bp.oneshot /\ bp.enabled]]
      BY <1>6 DEF OnBreakpoint
    <3>2. bps' \in [Ids -> SoftBp \cup {None}]
      BY <2>5, <3>1 DEF TableTypeOK
    <3>3. addr_to_id' \in [BpAddrs -> Ids \cup {None}]
      BY <1>6, <2>1 DEF OnBreakpoint, TableTypeOK
    <3> QED
      BY <3>2, <3>3 DEF TableTypeOK
  <2>7. Stop("breakpoint", id)
    BY <1>6 DEF OnBreakpoint
  <2>8. /\ pending' \in Event /\ stopped' \in BOOLEAN /\ exited' \in BOOLEAN
        /\ last_stop' \in StopEvent /\ shared_exited' \in BOOLEAN /\ run_state' \in RunStates
    BY <1>0, <2>1, <2>3, <2>7, StopType DEF StopReasons
  <2>9. ts' = ts /\ letting' = letting
    BY <2>7 DEF Stop
  <2> QED
    BY <1>0, <1>6, <2>3, <2>4, <2>6, <2>8, <2>9 DEF OnBreakpoint,
         DebuggeeTypeOK, LocalTypeOK, SharedTypeOK, ClientTypeOK
<1>7. CASE OnInitialBreak
  <2>1. /\ pending' \in Event /\ stopped' \in BOOLEAN /\ exited' \in BOOLEAN
        /\ last_stop' \in StopEvent /\ shared_exited' \in BOOLEAN /\ run_state' \in RunStates
    BY <1>0, <1>7, StopType DEF OnInitialBreak, DebuggeeTypeOK, StopReasons
  <2>2. ts' = ts /\ letting' = letting
    BY <1>7 DEF OnInitialBreak, Stop
  <2> QED
    BY <1>0, <1>7, <2>1, <2>2 DEF OnInitialBreak, table,
         DebuggeeTypeOK, LocalTypeOK, TableTypeOK, SharedTypeOK, ClientTypeOK
<1>8. CASE OnUnrelatedBreak
  <2>1. ts' \in [Tids -> {"running", "stuck", "breaking", "gone"}]
    BY <1>0, <1>8, ResumedType DEF OnUnrelatedBreak, PassOn
  <2> QED
    BY <1>0, <1>8, <2>1 DEF OnUnrelatedBreak, PassOn, table,
         DebuggeeTypeOK, LocalTypeOK, TableTypeOK, SharedTypeOK, ClientTypeOK
<1> QED
  BY <1>1, <1>3, <1>4, <1>5, <1>6, <1>7, <1>8 DEF HandleEvent

\* and what is left of the loop.
LEMMA LoopType ==
  ASSUME TypeOK, PollEmpty \/ WaitEmpty \/ DetachDrain \/ DetachStop \/ UNCHANGED vars
  PROVE  RangesOK'
<1> USE DEF TypeOK, RangesOK
<1>1. CASE PollEmpty \/ WaitEmpty \/ UNCHANGED vars
  BY <1>1 DEF PollEmpty, WaitEmpty, vars, debuggee, local, table, shared,
       DebuggeeTypeOK, LocalTypeOK, TableTypeOK, SharedTypeOK, ClientTypeOK
<1>2. CASE DetachDrain
  <2>1. Head(queue) \in Event /\ queue' \in Seq(Event)
    BY <1>2, HeadTailProperties DEF DetachDrain, DebuggeeTypeOK
  <2>2. ts' \in [Tids -> {"running", "stuck", "breaking", "gone"}]
    BY <1>2, <2>1, ResumedType DEF DetachDrain
  <2>3. exited' \in BOOLEAN /\ drained' \in Nat
    BY <1>2 DEF DetachDrain, LocalTypeOK
  <2> QED
    BY <1>2, <2>1, <2>2, <2>3 DEF DetachDrain, table, shared,
         DebuggeeTypeOK, LocalTypeOK, TableTypeOK, SharedTypeOK, ClientTypeOK
<1>3. CASE DetachStop
  BY <1>3 DEF DetachStop, debuggee, table, RunStates, Client,
       DebuggeeTypeOK, LocalTypeOK, TableTypeOK, SharedTypeOK, ClientTypeOK
<1> QED
  BY <1>1, <1>2, <1>3

\* The history names threads of the program.
LEMMA HistoryType ==
  ASSUME TypeOK, Next \/ UNCHANGED vars
  PROVE  HistoryTypeOK'
<1> USE DEF HistoryTypeOK
<1>0. lost \subseteq Threads /\ overrun \subseteq Threads /\ refused \in BOOLEAN /\ stopped \in BOOLEAN
  BY DEF TypeOK, LocalTypeOK
<1>1. ASSUME NEW e, Serve(e) PROVE overrun' \subseteq Threads
  BY <1>0, <1>1 DEF Serve, RunsOn
<1>2. \A a, q : HitsAt(a, q) \subseteq Threads
  BY DEF HitsAt
<1>3. CASE Debuggee
  BY <1>0, <1>3 DEF Debuggee, HitInt3, Execute, Fault, ExitProcess, BreakIn, skipped
<1>4. CASE ClientStep
  BY <1>0, <1>4 DEF ClientStep, Request, Announce, StepOut, SendAnnounced, Timeout, Disconnected,
       history, skipped
<1>5. CASE ContinueHeld \/ StepHeld \/ Pause \/ SetSoftBp \/ Query \/ SetContext
  BY <1>0, <1>5 DEF ContinueHeld, StepHeld, Pause, SetSoftBp, Query, SetContext, history, skipped
<1>6. CASE Continue \/ Step \/ Told
  BY <1>0, <1>6 DEF Continue, Step, Told, TellRunning, skipped
<1>7. CASE ClearBpById \/ ClearBpByAddr
  BY <1>0, <1>2, <1>7 DEF ClearBpById, ClearBpByAddr, Clear
<1>8. CASE DetachRestore
  BY <1>0, <1>2, <1>8 DEF DetachRestore
<1>9. CASE OnLoad \/ OnStep \/ OnException \/ OnExit
  BY <1>0, <1>9 DEF OnLoad, OnStep, OnException, OnExit, PassOn, Stop, skipped
<1>10. CASE OnInitialBreak \/ OnUnrelatedBreak
  BY <1>0, <1>1, <1>10 DEF OnInitialBreak, OnUnrelatedBreak, PassOn, Stop
<1>11. CASE OnBreakpoint
  <2> DEFINE e == Head(queue)
  <2>1. e.tid \in Threads
    BY <1>11, WaitType DEF OnBreakpoint, HitOf, Tids, TypeOK
  <2>2. lost' \subseteq Threads
    BY <1>0, <1>2, <1>11, <2>1 DEF OnBreakpoint
  <2>3. Serve(e) /\ refused' = FALSE
    BY <1>11 DEF OnBreakpoint, Stop
  <2> QED
    BY <1>1, <2>2, <2>3
<1>12. CASE DetachDrain
  BY <1>0, <1>1, <1>12 DEF DetachDrain
<1>13. CASE PollEmpty \/ WaitEmpty \/ DetachStop \/ SessionOver \/ UNCHANGED vars
  BY <1>0, <1>13 DEF PollEmpty, WaitEmpty, DetachStop, SessionOver, vars, history, skipped
<1> QED
  BY <1>3, <1>4, <1>5, <1>6, <1>7, <1>8, <1>9, <1>10, <1>11, <1>12, <1>13
     DEF Next, Pump, HandleCmd, HandleEvent

\* Every step keeps every variable in range.
LEMMA TypeStep ==
  ASSUME TypeOK, RoomInv, HeldInv, IndexNamesLiveEntry, Next \/ UNCHANGED vars
  PROVE  TypeOK'
<1>1. RangesOK'
  BY DebuggeeType, ClientType, HandleCmdType, HandleEventType, LoopType DEF Next, Pump, SessionOver
<1> QED
  BY <1>1, HistoryType DEF TypeOK, RangesOK

-----------------------------------------------------------------------------
(* The channel *)

\* Only continue_exec and the steps announce.
LEMMA AnnouncedStep ==
  ASSUME TypeOK, AnnouncedInv, Next \/ UNCHANGED vars
  PROVE  AnnouncedInv'
<1>1. CASE ClientStep
  <2>1. ASSUME NEW c \in PumpCmd, Announce(c) PROVE AnnouncedInv'
    BY <2>1 DEF Announce, AnnouncedInv
  <2>2. ASSUME NEW at \in {"waiting", "step_out"}, NEW c, Send(at, c) PROVE AnnouncedInv'
    BY <2>2 DEF Send, AnnouncedInv, Idle, Done
  <2>3. ASSUME GiveUp PROVE AnnouncedInv'
    BY <2>3 DEF GiveUp, AnnouncedInv, Idle, Done
  <2> QED
    BY <1>1, <2>1, <2>2, <2>3 DEF ClientStep, Request, StepOut, SendAnnounced, Timeout, Disconnected
<1>2. CASE HandleCmd
  BY <1>2 DEF HandleCmd, ContinueHeld, Continue, StepHeld, Told, Pause, SetSoftBp, ClearBpById,
       ClearBpByAddr, Query, SetContext, Step, DetachRestore, Reply, AnnouncedInv, Idle, Landing
<1>3. CASE HandleEvent
  BY <1>3 DEF HandleEvent, OnLoad, OnStep, OnException, OnExit, OnBreakpoint, OnInitialBreak,
       OnUnrelatedBreak, AnnouncedInv
<1>4. CASE Debuggee \/ PollEmpty \/ WaitEmpty \/ DetachDrain \/ DetachStop \/ SessionOver \/ UNCHANGED vars
  BY <1>4 DEF Debuggee, PollEmpty, WaitEmpty, DetachDrain, DetachStop, SessionOver, vars,
       AnnouncedInv, Done
<1> QED
  BY <1>1, <1>2, <1>3, <1>4 DEF Next, Pump

\* A command sent joins the channel at its end.
LEMMA RoomSend ==
  ASSUME TypeOK, RoomInv, UNCHANGED next_bp_id, NEW at, NEW c \in PumpCmd, Send(at, c),
         c.op = "set_bp" => RoomForBp
  PROVE  RoomInv'
<1>1. CASE chan' = chan
  BY <1>1 DEF RoomInv
<1>2. CASE chan' = Append(chan, c)
  <2>1. Len(chan') = Len(chan) + 1 /\ Len(chan) \in Nat
        /\ \A i \in 1 .. Len(chan) + 1 : chan'[i] = IF i <= Len(chan) THEN chan[i] ELSE c
    BY <1>2 DEF TypeOK, ClientTypeOK
  <2> QED
    BY <2>1, BoundAssumption DEF RoomInv, RoomForBp, TypeOK, SharedTypeOK
<1> QED
  BY <1>1, <1>2 DEF Send

\* A command received leaves the channel from its front.
LEMMA RoomReceive ==
  ASSUME TypeOK, RoomInv, chan # <<>>, chan' = Tail(chan), next_bp_id' \in {next_bp_id, next_bp_id + 1}
  PROVE  RoomInv'
<1>1. Len(chan') = Len(chan) - 1 /\ Len(chan) \in Nat
      /\ \A i \in 1 .. Len(chan) - 1 : chan'[i] = chan[i + 1]
  BY HeadTailProperties, LenProperties DEF TypeOK, ClientTypeOK
<1>2. ASSUME NEW i \in 1 .. Len(chan'), chan'[i].op = "set_bp"
      PROVE  next_bp_id' + i - 1 <= MaxBp
  <2>1. i + 1 \in 1 .. Len(chan) /\ chan[i + 1].op = "set_bp"
    BY <1>1, <1>2
  <2>2. next_bp_id + (i + 1) - 1 <= MaxBp
    BY <2>1 DEF RoomInv
  <2>3. i \in Int /\ next_bp_id \in Int /\ MaxBp \in Int
    BY <1>1, BoundAssumption DEF TypeOK, SharedTypeOK
  <2>4. CASE next_bp_id' = next_bp_id
    BY <2>2, <2>3, <2>4
  <2>5. CASE next_bp_id' = next_bp_id + 1
    BY <2>2, <2>3, <2>5
  <2> QED
    BY <2>4, <2>5
<1> QED
  BY <1>2 DEF RoomInv

\* Every step leaves an id for every set_bp under way.
LEMMA RoomStep ==
  ASSUME TypeOK, RoomInv, AnnouncedInv, HeldInv, Next \/ UNCHANGED vars
  PROVE  RoomInv'
<1>1. CASE ClientStep
  <2>1. ASSUME NEW c \in PumpCmd, Request(c) PROVE RoomInv'
    BY <2>1, RoomSend DEF Request, Sendable, shared
  <2>2. ASSUME NEW c \in PumpCmd, Announce(c) PROVE RoomInv'
    BY <2>2 DEF Announce, RoomInv
  <2>3. ASSUME NEW a \in BpAddrs, StepOut(a) PROVE RoomInv'
    <3>1. [op |-> "set_bp", addr |-> a, oneshot |-> TRUE] \in PumpCmd
      BY DEF PumpCmd
    <3> QED
      BY <2>3, <3>1, RoomSend DEF StepOut, shared
  <2>4. CASE SendAnnounced
    <3>1. client.cmd \in PumpCmd
      BY <2>4 DEF SendAnnounced, TypeOK, ClientTypeOK, Client, Idle, Done, Landing
    <3> QED
      BY <2>4, <3>1, RoomSend DEF SendAnnounced, AnnouncedInv, shared
  <2>5. CASE Timeout
    BY <2>5 DEF Timeout, RoomInv, shared
  <2>6. CASE Disconnected
    BY <2>6 DEF Disconnected, RoomInv
  <2> QED
    BY <1>1, <2>1, <2>2, <2>3, <2>4, <2>5, <2>6 DEF ClientStep
<1>2. CASE HandleCmd /\ ~ContinueHeld /\ ~StepHeld
  <2>1. chan # <<>> /\ chan' = Tail(chan)
    BY <1>2 DEF HandleCmd, Continue, Told, HeldInv, Pause, SetSoftBp, ClearBpById, ClearBpByAddr, Query,
         SetContext, Step, DetachRestore, Receive, Serving
  <2>2. next_bp_id' \in {next_bp_id, next_bp_id + 1}
    BY <1>2 DEF HandleCmd, Continue, Told, Pause, SetSoftBp, ClearBpById, ClearBpByAddr, Query, SetContext,
         Step, DetachRestore, shared
  <2> QED
    BY <2>1, <2>2, RoomReceive
<1>5. CASE ContinueHeld \/ StepHeld
  BY <1>5 DEF ContinueHeld, StepHeld, RoomInv, shared
<1>3. CASE HandleEvent
  BY <1>3 DEF HandleEvent, OnLoad, OnStep, OnException, OnExit, OnBreakpoint, OnInitialBreak,
       OnUnrelatedBreak, RoomInv
<1>4. CASE Debuggee \/ PollEmpty \/ WaitEmpty \/ DetachDrain \/ DetachStop \/ SessionOver \/ UNCHANGED vars
  BY <1>4 DEF Debuggee, PollEmpty, WaitEmpty, DetachDrain, DetachStop, SessionOver, vars, shared, RoomInv
<1> QED
  BY <1>1, <1>2, <1>3, <1>4, <1>5 DEF Next, Pump

-----------------------------------------------------------------------------
(* The table *)

\* Every step keeps the table fresh and its index sound.
LEMMA TableStep ==
  ASSUME TypeOK, RoomInv, FreshInv, IndexNamesLiveEntry, Next \/ UNCHANGED vars
  PROVE  FreshInv' /\ IndexNamesLiveEntry'
<1> USE NoneAssumption
<1>0. ASSUME UNCHANGED <<bps, addr_to_id, next_bp_id>> PROVE FreshInv' /\ IndexNamesLiveEntry'
  BY <1>0 DEF FreshInv, IndexNamesLiveEntry
<1>1. ASSUME NEW id \in Ids \cup {None}, Clear(id), UNCHANGED next_bp_id
      PROVE  FreshInv' /\ IndexNamesLiveEntry'
  <2>1. CASE id = None \/ bps[id] = None
    BY <1>0, <1>1, <2>1 DEF Clear, table
  <2>2. CASE ~(id = None \/ bps[id] = None)
    <3>1. id \in Ids /\ bps[id].addr \in BpAddrs
      BY <1>1, <2>2 DEF TypeOK, TableTypeOK, SoftBp
    <3>2. bps' = [bps EXCEPT ![id] = None] /\ addr_to_id' = [addr_to_id EXCEPT ![bps[id].addr] = None]
      BY <1>1, <2>2 DEF Clear
    <3>3. FreshInv'
      BY <1>1, <3>1, <3>2 DEF FreshInv, TypeOK, TableTypeOK
    <3>4. ASSUME NEW a \in BpAddrs, addr_to_id'[a] # None
          PROVE  bps'[addr_to_id'[a]] # None /\ bps'[addr_to_id'[a]].addr = a /\ bps'[addr_to_id'[a]].enabled
      <4>1. addr_to_id'[a] = addr_to_id[a] /\ a # bps[id].addr
        BY <3>1, <3>2, <3>4 DEF TypeOK, TableTypeOK
      <4>2. addr_to_id[a] # id /\ addr_to_id[a] \in Ids
        BY <3>4, <4>1 DEF IndexNamesLiveEntry, TypeOK, TableTypeOK
      <4> QED
        BY <3>1, <3>2, <3>4, <4>1, <4>2 DEF IndexNamesLiveEntry, TypeOK, TableTypeOK
    <3> QED
      BY <3>3, <3>4 DEF IndexNamesLiveEntry
  <2> QED
    BY <2>1, <2>2
<1>2. CASE SetSoftBp
  <2> DEFINE a == Head(chan).addr
  <2>1. Head(chan) \in PumpCmd /\ Head(chan).op = "set_bp" /\ a \in BpAddrs
    BY <1>2, ReceiveType, CmdArgs DEF SetSoftBp, TypeOK
  <2>2. CASE addr_to_id[a] # None \/ ~Alive
    BY <1>0, <1>2, <2>2 DEF SetSoftBp, table
  <2>3. CASE ~(addr_to_id[a] # None \/ ~Alive)
    <3>1. next_bp_id \in Ids
      <4>1. Len(chan) \in Nat \ {0} /\ Head(chan) = chan[1]
        BY <1>2, EmptySeq DEF SetSoftBp, Receive, Serving, TypeOK, ClientTypeOK
      <4>2. next_bp_id <= MaxBp
        BY <2>1, <4>1, BoundAssumption DEF RoomInv, TypeOK, SharedTypeOK
      <4> QED
        BY <4>2, BoundAssumption DEF Ids, TypeOK, SharedTypeOK
    <3> DEFINE new == NewBp(a, Head(chan).oneshot)
    <3>2. /\ bps' = [bps EXCEPT ![next_bp_id] = new]
          /\ addr_to_id' = [addr_to_id EXCEPT ![a] = next_bp_id]
          /\ next_bp_id' = next_bp_id + 1
      BY <1>2, <2>3 DEF SetSoftBp
    <3>3. new \in SoftBp /\ new # None /\ new.addr = a /\ new.enabled
      <4>1. new \in SoftBp
        BY <2>1, CmdArgs DEF NewBp, SoftBp, TypeOK, DebuggeeTypeOK
      <4> QED
        BY <4>1 DEF NewBp
    <3>4. FreshInv'
      BY <3>1, <3>2, BoundAssumption DEF FreshInv, TypeOK, TableTypeOK, SharedTypeOK, Ids
    <3>5. ASSUME NEW b \in BpAddrs, addr_to_id'[b] # None
          PROVE  bps'[addr_to_id'[b]] # None /\ bps'[addr_to_id'[b]].addr = b /\ bps'[addr_to_id'[b]].enabled
      <4>1. CASE b = a
        BY <3>1, <3>2, <3>3, <4>1 DEF TypeOK, TableTypeOK
      <4>2. CASE b # a
        <5>1. addr_to_id'[b] = addr_to_id[b] /\ addr_to_id[b] \in Ids
          BY <3>2, <3>5, <4>2 DEF TypeOK, TableTypeOK
        <5>2. addr_to_id[b] # next_bp_id
          <6>1. bps[next_bp_id] = None
            BY <3>1 DEF FreshInv, TypeOK, SharedTypeOK
          <6> QED
            BY <3>5, <5>1, <6>1 DEF IndexNamesLiveEntry
        <5> QED
          BY <3>1, <3>2, <3>5, <5>1, <5>2 DEF IndexNamesLiveEntry, TypeOK, TableTypeOK
      <4> QED
        BY <4>1, <4>2
    <3> QED
      BY <3>4, <3>5 DEF IndexNamesLiveEntry
  <2> QED
    BY <2>2, <2>3
<1>3. CASE ClearBpById
  BY <1>1, <1>3, ReceiveType, CmdArgs DEF ClearBpById, shared, TypeOK
<1>4. CASE ClearBpByAddr
  <2>1. addr_to_id[Head(chan).addr] \in Ids \cup {None}
    BY <1>4, ReceiveType, CmdArgs DEF ClearBpByAddr, TypeOK, TableTypeOK
  <2> QED
    BY <1>1, <1>4, <2>1 DEF ClearBpByAddr, shared
<1>5. CASE DetachRestore
  BY <1>5 DEF DetachRestore, FreshInv, IndexNamesLiveEntry
<1>6. CASE OnBreakpoint
  <2> DEFINE id == HitOf(Head(queue))
             bp == bps[id]
             new == [bp EXCEPT !.enabled = ~bp.oneshot /\ bp.enabled]
  <2>1. id \in Ids /\ bp \in SoftBp /\ bp.addr \in BpAddrs /\ addr_to_id[bp.addr] = id
    BY <1>6, HitType DEF OnBreakpoint
  <2>2. bps' = [bps EXCEPT ![id] = new] /\ UNCHANGED next_bp_id
    BY <1>6 DEF OnBreakpoint
  <2>3. new \in SoftBp /\ new.addr = bp.addr /\ (~bp.oneshot => new.enabled)
    <3>1. bp.enabled
      BY <2>1 DEF IndexNamesLiveEntry
    <3> QED
      BY <2>1, <3>1 DEF SoftBp
  <2>4. FreshInv'
    BY <2>1, <2>2 DEF FreshInv, TypeOK, TableTypeOK
  <2>5. ASSUME NEW a \in BpAddrs, addr_to_id'[a] # None
        PROVE  bps'[addr_to_id'[a]] # None /\ bps'[addr_to_id'[a]].addr = a /\ bps'[addr_to_id'[a]].enabled
    <3>1. addr_to_id'[a] = addr_to_id[a] /\ addr_to_id[a] \in Ids
      BY <1>6, <2>1, <2>5 DEF OnBreakpoint, TypeOK, TableTypeOK
    <3>2. CASE addr_to_id[a] = id
      <4>1. a = bp.addr
        BY <2>1, <3>1, <3>2 DEF IndexNamesLiveEntry
      <4>2. ~bp.oneshot
        BY <1>6, <2>1, <2>5, <4>1 DEF OnBreakpoint, TypeOK, TableTypeOK
      <4> QED
        BY <2>1, <2>2, <2>3, <3>1, <3>2, <4>1, <4>2 DEF TypeOK, TableTypeOK
    <3>3. CASE addr_to_id[a] # id
      BY <2>1, <2>2, <3>1, <3>3 DEF IndexNamesLiveEntry, TypeOK, TableTypeOK
    <3> QED
      BY <3>2, <3>3
  <2> QED
    BY <2>4, <2>5 DEF IndexNamesLiveEntry
<1>7. CASE ContinueHeld \/ Continue \/ StepHeld \/ Told \/ Pause \/ Query \/ SetContext \/ Step
  BY <1>0, <1>7 DEF ContinueHeld, Continue, StepHeld, Told, Pause, Query, SetContext, Step, table, shared
<1>8. CASE OnLoad \/ OnStep \/ OnException \/ OnExit \/ OnInitialBreak \/ OnUnrelatedBreak
  BY <1>0, <1>8 DEF OnLoad, OnStep, OnException, OnExit, OnInitialBreak, OnUnrelatedBreak, table
<1>9. CASE ClientStep \/ Debuggee \/ PollEmpty \/ WaitEmpty \/ DetachDrain \/ DetachStop
             \/ SessionOver \/ UNCHANGED vars
  BY <1>0, <1>9 DEF ClientStep, Request, Announce, SendAnnounced, StepOut, Timeout, Disconnected,
       Debuggee, PollEmpty, WaitEmpty, DetachDrain, DetachStop, SessionOver, vars, table, shared
<1> QED
  BY <1>2, <1>3, <1>4, <1>5, <1>6, <1>7, <1>8, <1>9 DEF Next, Pump, HandleCmd, HandleEvent

-----------------------------------------------------------------------------
(* Events *)

\* Every event queued is one of a thread.
LEMMA QueueElement ==
  ASSUME DebuggeeTypeOK
  PROVE  \A i \in 1 .. Len(queue) : queue[i] \in Event /\ queue[i].tid \in Tids
<1>1. \A i \in 1 .. Len(queue) : queue[i] \in Event
  BY ElementOfSeq DEF DebuggeeTypeOK
<1> QED
  BY <1>1 DEF Event

\* An event appended to the queue for a thread that runs; the pump holds none,
\* or has continued it.
LEMMA QueueRaise ==
  ASSUME TypeOK, QueueInv, pending = None \/ letting, UNCHANGED <<pending, letting>>,
         NEW t \in Tids, ts[t] \notin {"stuck", "gone"}, NEW kind \in EventKinds \ {"exit"}, NEW a,
         Raise(t, kind, a)
  PROVE  QueueInv'
<1>1. Len(queue') = Len(queue) + 1 /\ Len(queue) \in Nat
      /\ \A i \in 1 .. Len(queue) + 1 :
           queue'[i] = IF i <= Len(queue) THEN queue[i] ELSE [kind |-> kind, tid |-> t, addr |-> a]
  BY DEF Raise, TypeOK, DebuggeeTypeOK
<1>2. ts' = [ts EXCEPT ![t] = "stuck"]
  BY DEF Raise
<1>3. \A i \in 1 .. Len(queue) : queue[i] \in Event
  BY ElementOfSeq DEF TypeOK, DebuggeeTypeOK
<1>4. \A i \in 1 .. Len(queue) : queue[i].kind # "exit" => queue[i].tid # t
  BY DEF QueueInv
<1>5. \A i \in 1 .. Len(queue') : queue'[i].kind # "exit" => ts'[queue'[i].tid] = "stuck"
  BY <1>1, <1>2, <1>3, <1>4 DEF QueueInv, TypeOK, DebuggeeTypeOK, Event
<1>6. \A i, j \in 1 .. Len(queue') :
        queue'[i].kind # "exit" /\ queue'[j].kind # "exit" /\ queue'[i].tid = queue'[j].tid => i = j
  BY <1>1, <1>4 DEF QueueInv
<1>7. \A i \in 1 .. Len(queue') : queue'[i].kind # "exit"
  BY <1>1 DEF QueueInv
<1> QED
  BY <1>5, <1>6, <1>7 DEF QueueInv

\* The event in front is taken: kept, or its thread continued.
LEMMA QueueTake ==
  ASSUME TypeOK, QueueInv, queue # <<>>, queue' = Tail(queue),
         \/ ts' = ts /\ pending' = Head(queue)
         \/ ts' = Resumed(Head(queue)) /\ pending' = pending /\ pending = None
  PROVE  QueueInv'
<1>1. Len(queue') = Len(queue) - 1 /\ Len(queue) \in Nat /\ Len(queue) >= 1
      /\ \A i \in 1 .. Len(queue) - 1 : queue'[i] = queue[i + 1]
  BY HeadTailProperties, LenProperties, EmptySeq DEF TypeOK, DebuggeeTypeOK
<1>2. Head(queue) = queue[1]
  OBVIOUS
<1>3. \A i \in 1 .. Len(queue) : queue[i] \in Event
  BY ElementOfSeq DEF TypeOK, DebuggeeTypeOK
<1>4. \A i \in 1 .. Len(queue') : i + 1 \in 1 .. Len(queue) /\ queue'[i] = queue[i + 1]
  BY <1>1
<1>5. \A i, j \in 1 .. Len(queue') :
        queue'[i].kind # "exit" /\ queue'[j].kind # "exit" /\ queue'[i].tid = queue'[j].tid => i = j
  <2>1. TAKE i, j \in 1 .. Len(queue')
  <2>2. i \in Nat /\ j \in Nat
    BY <1>1
  <2>3. HAVE queue'[i].kind # "exit" /\ queue'[j].kind # "exit" /\ queue'[i].tid = queue'[j].tid
  <2>4. i + 1 = j + 1
    BY <1>4, <2>3 DEF QueueInv
  <2> QED
    BY <2>2, <2>4
<1>6. ASSUME NEW i \in 1 .. Len(queue'), queue'[i].kind = "exit", NEW t \in Tids
      PROVE  ts'[t] = "gone"
  <2>1. ts[t] = "gone"
    BY <1>4, <1>6 DEF QueueInv
  <2>2. Resumed(Head(queue))[t] = "gone"
    BY <2>1, ResumedGone DEF TypeOK
  <2> QED
    BY <2>1, <2>2
<1>7. ASSUME queue[1].kind = "exit", NEW i \in 1 .. Len(queue') PROVE queue'[i].kind = "exit"
  <2>1. \A t \in Tids : ts[t] = "gone"
    BY <1>1, <1>7 DEF QueueInv
  <2>2. queue'[i].tid \in Tids
    BY <1>3, <1>4 DEF Event
  <2> QED
    BY <1>4, <2>1, <2>2 DEF QueueInv
<1>8. ASSUME NEW i \in 1 .. Len(queue'), queue'[i].kind # "exit"
      PROVE  ts[queue'[i].tid] = "stuck" /\ queue'[i].tid \in Tids /\ queue'[i].tid # queue[1].tid
  <2>1. i + 1 # 1 /\ 1 \in 1 .. Len(queue) /\ queue[1].kind # "exit"
    BY <1>1, <1>7, <1>8
  <2> QED
    BY <1>3, <1>4, <1>8, <2>1 DEF QueueInv, Event
<1>9. CASE ts' = ts /\ pending' = Head(queue)
  BY <1>2, <1>5, <1>6, <1>8, <1>9 DEF QueueInv
<1>10. CASE ts' = Resumed(Head(queue)) /\ pending' = pending /\ pending = None
  <2>1. ASSUME NEW i \in 1 .. Len(queue'), queue'[i].kind # "exit"
        PROVE  ts'[queue'[i].tid] = "stuck"
    BY <1>2, <1>8, <1>10, <2>1 DEF Resumed, TypeOK, DebuggeeTypeOK
  <2> QED
    BY <1>5, <1>6, <1>10, <2>1 DEF QueueInv
<1> QED
  BY <1>9, <1>10
\* A thread continued after the event the pump held leaves the queue sound.
LEMMA QueueRelease ==
  ASSUME TypeOK, QueueInv, queue' = queue, pending # None, ~letting, ts' = Resumed(pending),
         pending' = None \/ letting'
  PROVE  QueueInv'
<1>1. \A i \in 1 .. Len(queue) : queue[i] \in Event
  BY ElementOfSeq DEF TypeOK, DebuggeeTypeOK
<1>2. ASSUME NEW i \in 1 .. Len(queue), queue[i].kind = "exit", NEW t \in Tids
      PROVE  ts'[t] = "gone"
  BY <1>2, ResumedGone DEF QueueInv, TypeOK
<1>3. ASSUME NEW i \in 1 .. Len(queue), queue[i].kind # "exit"
      PROVE  ts'[queue[i].tid] = "stuck"
  <2>1. ts[queue[i].tid] = "stuck" /\ queue[i].tid # pending.tid /\ queue[i].tid \in Tids
    BY <1>1, <1>3 DEF QueueInv, Event
  <2> QED
    BY <2>1 DEF Resumed, TypeOK, DebuggeeTypeOK
<1> QED
  BY <1>2, <1>3 DEF QueueInv

\* Every step of the system keeps the queue sound.
LEMMA QueueStep ==
  ASSUME TypeOK, HeldInv, QueueInv, Next \/ UNCHANGED vars
  PROVE  QueueInv'
<1>0. ASSUME UNCHANGED <<queue, ts>>, pending' = None \/ UNCHANGED <<pending, letting>> PROVE QueueInv'
  BY <1>0 DEF QueueInv
<1>1. CASE Debuggee
  <2>1. UNCHANGED <<pending, letting>>
    BY <1>1 DEF Debuggee, local
  <2>2. ASSUME NEW t \in Threads, HitInt3(t) PROVE QueueInv'
    BY <2>1, <2>2, QueueRaise DEF HitInt3, Free, EventKinds, Tids
  <2>3. ASSUME NEW t \in Threads, Execute(t) PROVE QueueInv'
    <3>1. CASE tf[t]
      BY <2>1, <2>3, <3>1, QueueRaise DEF Execute, Free, EventKinds, Tids
    <3>2. CASE ~tf[t]
      BY <1>0, <2>1, <2>3, <3>2 DEF Execute
    <3> QED
      BY <3>1, <3>2
  <2>4. ASSUME NEW t \in Threads, Fault(t) PROVE QueueInv'
    BY <2>1, <2>4, QueueRaise DEF Fault, Free, EventKinds, Tids
  <2>5. ASSUME NEW t \in Threads, ExitProcess(t) PROVE QueueInv'
    <3>1. \A i \in 1 .. Len(queue) : queue[i].tid \in Tids
      BY QueueElement DEF TypeOK
    <3>2. Len(queue) = 0
      <4>1. 1 \notin 1 .. Len(queue)
        BY <2>5, <3>1 DEF ExitProcess, QueueInv, Tids
      <4> QED
        BY <4>1, LenProperties DEF TypeOK, DebuggeeTypeOK
    <3>3. Len(queue') = 1 /\ queue'[1].kind = "exit"
      BY <2>5, <3>2 DEF ExitProcess, TypeOK, DebuggeeTypeOK
    <3> QED
      BY <2>5, <3>3 DEF ExitProcess, QueueInv
  <2>6. ASSUME BreakIn PROVE QueueInv'
    <3>1. ASSUME NEW kind \in {"break", "step"}, ts[SysThread] \in {"breaking", "running"},
                 Free, Raise(SysThread, kind, None)
          PROVE  QueueInv'
      BY <2>1, <3>1, QueueRaise DEF Free, EventKinds, Tids
    <3>2. ASSUME Free, ts[SysThread] = "running", ts' = [ts EXCEPT ![SysThread] = "gone"], queue' = queue
          PROVE  QueueInv'
      <4>1. \A i \in 1 .. Len(queue) : queue[i].tid \in Tids
        BY QueueElement DEF TypeOK
      <4> QED
        BY <2>1, <3>2, <4>1 DEF QueueInv, Free, TypeOK, DebuggeeTypeOK, Tids
    <3> QED
      BY <2>6, <3>1, <3>2 DEF BreakIn
  <2> QED
    BY <1>1, <2>2, <2>3, <2>4, <2>5, <2>6 DEF Debuggee
<1>2. CASE Continue \/ Step \/ Told
  BY <1>0, <1>2 DEF Continue, Step, Told, debuggee
<1>10. CASE ContinueHeld \/ StepHeld
  BY <1>10, QueueRelease DEF ContinueHeld, StepHeld, LetGo, Serving
<1>3. CASE DetachRestore
  <2>1. ~letting
    BY <1>3 DEF DetachRestore, Receive, Serving
  <2> QED
    BY <1>0, <1>3, <2>1, QueueRelease DEF DetachRestore
<1>4. CASE Pause
  <2>1. UNCHANGED <<queue, pending, letting>>
    BY <1>4 DEF Pause, local
  <2>2. CASE UNCHANGED ts
    BY <1>0, <2>1, <2>2
  <2>3. CASE Alive /\ ~Exists(SysThread) /\ ts' = [ts EXCEPT ![SysThread] = "breaking"]
    <3>1. \A i \in 1 .. Len(queue) : queue[i].tid \in Tids
      BY QueueElement DEF TypeOK
    <3>2. \A i \in 1 .. Len(queue) : queue[i].kind # "exit"
      BY <2>3 DEF QueueInv, Alive, Tids
    <3>3. \A i \in 1 .. Len(queue) : ts'[queue[i].tid] = "stuck"
      BY <2>3, <3>1, <3>2 DEF QueueInv, Exists, TypeOK, DebuggeeTypeOK
    <3> QED
      BY <2>1, <3>2, <3>3 DEF QueueInv
  <2> QED
    BY <1>4, <2>2, <2>3 DEF Pause
<1>5. CASE OnStep \/ OnException \/ OnExit \/ OnBreakpoint \/ OnInitialBreak
  BY <1>5, QueueTake DEF OnStep, OnException, OnExit, OnBreakpoint, OnInitialBreak,
       WaitForDebugEvent, Stop
<1>6. CASE OnLoad \/ OnUnrelatedBreak
  <2>1. pending = None
    BY <1>6 DEF OnLoad, OnUnrelatedBreak, WaitForDebugEvent, HeldInv
  <2> QED
    BY <1>6, <2>1, QueueTake DEF OnLoad, OnUnrelatedBreak, WaitForDebugEvent, PassOn
<1>7. CASE DetachDrain
  BY <1>7, QueueTake DEF DetachDrain, HeldInv
<1>8. CASE SetSoftBp \/ ClearBpById \/ ClearBpByAddr \/ Query \/ SetContext
  BY <1>0, <1>8 DEF SetSoftBp, ClearBpById, ClearBpByAddr, Query, SetContext, debuggee, local
<1>9. CASE ClientStep \/ PollEmpty \/ WaitEmpty \/ DetachStop \/ SessionOver \/ UNCHANGED vars
  BY <1>0, <1>9 DEF ClientStep, Request, Announce, SendAnnounced, StepOut, Timeout, Disconnected,
       PollEmpty, WaitEmpty, DetachStop, SessionOver, vars, debuggee, local
<1> QED
  BY <1>1, <1>2, <1>3, <1>4, <1>5, <1>6, <1>7, <1>8, <1>9, <1>10 DEF Next, Pump, HandleCmd, HandleEvent

\* Every step of the system keeps what the pump says of the event it holds.
LEMMA HeldStep ==
  ASSUME TypeOK, HeldInv, AnnouncedInv, Next \/ UNCHANGED vars
  PROVE  HeldInv'
<1>0. ASSUME UNCHANGED <<pc, stopped, pending, letting, chan>> PROVE HeldInv'
  BY <1>0 DEF HeldInv
<1>1. ASSUME UNCHANGED <<stopped, pending>>, ~letting', pc \in {"poll", "wait"}, pc' # "drain" PROVE HeldInv'
  BY <1>1 DEF HeldInv
<1>2. ASSUME stopped' = FALSE, pending' = None, ~letting' PROVE HeldInv'
  BY <1>2 DEF HeldInv
<1>3. CASE Continue \/ Step
  <2>1. pc \in {"poll", "wait"} /\ pc' # "drain" /\ ~letting'
    BY <1>3, NextIterationType DEF Continue, Step, Receive, Serving
  <2>2. UNCHANGED <<stopped, pending>> \/ (stopped' = FALSE /\ pending' = None)
    BY <1>3 DEF Continue, Step, TellRunning
  <2> QED
    BY <1>1, <1>2, <2>1, <2>2
<1>4. CASE Told
  BY <1>2, <1>4 DEF Told, TellRunning
<1>12. CASE ContinueHeld \/ StepHeld
  BY <1>12 DEF ContinueHeld, StepHeld, LetGo, Serving, HeldInv
<1>5. CASE Pause \/ SetSoftBp \/ ClearBpById \/ ClearBpByAddr \/ Query \/ SetContext
  BY <1>1, <1>5, NextIterationType
     DEF Pause, SetSoftBp, ClearBpById, ClearBpByAddr, Query, SetContext, Receive, Serving, local
<1>6. CASE DetachRestore
  BY <1>6 DEF DetachRestore, Receive, Serving, HeldInv
<1>7. CASE OnStep \/ OnException \/ OnExit \/ OnBreakpoint \/ OnInitialBreak
  <2>1. PICK kind : WaitForDebugEvent(kind)
    BY <1>7 DEF OnStep, OnException, OnExit, OnBreakpoint, OnInitialBreak
  <2>2. Head(queue) # None /\ pc' = "poll"
    BY <2>1, WaitType, NoneAssumption DEF TypeOK, WaitForDebugEvent
  <2>3. pending' = Head(queue) /\ stopped' = TRUE /\ UNCHANGED letting
    BY <1>7 DEF OnStep, OnException, OnExit, OnBreakpoint, OnInitialBreak, Stop
  <2>4. ~letting
    BY <2>1 DEF WaitForDebugEvent, HeldInv
  <2> QED
    BY <2>2, <2>3, <2>4 DEF HeldInv
<1>8. CASE OnLoad \/ OnUnrelatedBreak
  <2>1. ~letting
    BY <1>8 DEF OnLoad, OnUnrelatedBreak, WaitForDebugEvent, HeldInv
  <2> QED
    BY <1>1, <1>8, <2>1 DEF OnLoad, OnUnrelatedBreak, WaitForDebugEvent, PassOn
<1>9. CASE PollEmpty \/ WaitEmpty
  <2>1. ~letting
    BY <1>9 DEF PollEmpty, WaitEmpty, HeldInv
  <2> QED
    BY <1>1, <1>9, <2>1 DEF PollEmpty, WaitEmpty, local
<1>10. CASE DetachStop
  BY <1>10 DEF DetachStop, HeldInv
<1>11. CASE Debuggee \/ DetachDrain \/ SessionOver \/ UNCHANGED vars
  BY <1>0, <1>11 DEF Debuggee, DetachDrain, SessionOver, vars, debuggee, local
<1>13. CASE ClientStep
  <2>1. UNCHANGED <<pc, stopped, pending, letting>>
    BY <1>13 DEF ClientStep, Request, Announce, SendAnnounced, StepOut, Timeout, Disconnected, local
  <2>2. CASE UNCHANGED chan
    BY <1>0, <2>1, <2>2
  <2>3. CASE \E c : chan' = Append(chan, c)
    <3>1. chan # <<>> => chan' # <<>> /\ Head(chan') = Head(chan)
      BY <2>3 DEF TypeOK, ClientTypeOK
    <3> QED
      BY <2>1, <3>1 DEF HeldInv
  <2>4. CASE Disconnected
    BY <2>1, <2>4 DEF Disconnected, HeldInv
  <2> QED
    BY <1>13, <2>2, <2>3, <2>4 DEF ClientStep, Request, Announce, SendAnnounced, StepOut, Timeout, Send
<1> QED
  BY <1>3, <1>4, <1>5, <1>6, <1>7, <1>8, <1>9, <1>10, <1>11, <1>12, <1>13
     DEF Next, Pump, HandleCmd, HandleEvent

-----------------------------------------------------------------------------
(* Stops *)

\* Every step of the system leaves a published stop a stop that is held.
LEMMA StoppedStep ==
  ASSUME TypeOK, TypeOK', IndexNamesLiveEntry, HeldInv, QueueInv, StoppedIsHeld,
         Next \/ UNCHANGED vars
  PROVE  StoppedIsHeld'
<1>0. ASSUME UNCHANGED <<run_state, stopped, pending, letting, last_stop, ts>>,
             pc # "drain" \/ pc' = "drain"
      PROVE  StoppedIsHeld'
  BY <1>0 DEF StoppedIsHeld
<1>1. CASE Debuggee
  <2>1. UNCHANGED <<pc, run_state, letting>> /\ (pending = None \/ letting)
    BY <1>1 DEF Debuggee, HitInt3, Execute, Fault, ExitProcess, BreakIn, Free, local, shared
  <2> QED
    BY <2>1 DEF StoppedIsHeld
<1>2. CASE \E c \in PumpCmd : Announce(c)
  BY <1>2 DEF Announce, StoppedIsHeld
<1>3. CASE Continue \/ Step \/ Told
  <2>1. CASE run_state' = "Running"
    BY <2>1 DEF StoppedIsHeld
  <2>2. CASE run_state' # "Running"
    BY <1>0, <1>3, <2>2 DEF Continue, Step, Told, TellRunning, Receive, Serving
  <2> QED
    BY <2>1, <2>2
<1>4. CASE ContinueHeld \/ StepHeld
  BY <1>4 DEF ContinueHeld, StepHeld, LetGo, StoppedIsHeld
<1>5. CASE Pause
  <2>1. UNCHANGED <<run_state, stopped, pending, letting, last_stop>> /\ pc # "drain"
    BY <1>5 DEF Pause, Receive, Serving, local, shared
  <2>2. \A t \in Tids : ts[t] = "stuck" => ts'[t] = "stuck"
    BY <1>5 DEF Pause, Exists, TypeOK, DebuggeeTypeOK
  <2>3. pending # None => pending.tid \in Tids
    BY DEF TypeOK, LocalTypeOK, Event
  <2> QED
    BY <2>1, <2>2, <2>3 DEF StoppedIsHeld
<1>6. CASE SetSoftBp \/ ClearBpById \/ ClearBpByAddr \/ Query \/ SetContext
  BY <1>0, <1>6 DEF SetSoftBp, ClearBpById, ClearBpByAddr, Query, SetContext, Receive, Serving,
       debuggee, local, shared
<1>7. CASE DetachRestore
  BY <1>7 DEF DetachRestore, StoppedIsHeld
<1>8. CASE OnStep \/ OnException \/ OnBreakpoint \/ OnInitialBreak
  <2>1. PICK kind \in {"step", "exception", "break"} : WaitForDebugEvent(kind)
    BY <1>8 DEF OnStep, OnException, OnBreakpoint, OnInitialBreak
  <2>2. Head(queue) \in Event /\ Head(queue).kind # "exit"
    BY <2>1, WaitType DEF TypeOK
  <2>3. ts[Head(queue).tid] = "stuck"
    <3>1. 1 \in 1 .. Len(queue) /\ Head(queue) = queue[1]
      BY <2>1, EmptySeq, LenProperties DEF WaitForDebugEvent, TypeOK, DebuggeeTypeOK
    <3> QED
      BY <2>2, <3>1 DEF QueueInv
  <2>4. \E reason \in StopReasons \ {"exit"}, id \in Ids \cup {None} : Stop(reason, id)
    <3>1. CASE OnStep
      BY <3>1 DEF OnStep, StopReasons
    <3>2. CASE OnException
      BY <3>2 DEF OnException, StopReasons
    <3>3. CASE OnInitialBreak
      BY <3>3 DEF OnInitialBreak, StopReasons
    <3>4. CASE OnBreakpoint
      <4>1. HitOf(Head(queue)) \in Ids /\ Stop("breakpoint", HitOf(Head(queue)))
        BY <3>4, HitType DEF OnBreakpoint
      <4> QED
        BY <4>1 DEF StopReasons
    <3> QED
      BY <1>8, <3>1, <3>2, <3>3, <3>4
  <2>5. PICK reason \in StopReasons \ {"exit"}, id \in Ids \cup {None} : Stop(reason, id)
    BY <2>4
  <2>6. stopped' /\ pending' = Head(queue) /\ UNCHANGED ts /\ last_stop'.tid = Head(queue).tid
    BY <2>5 DEF Stop
  <2>7. last_stop' \in StopEvent
    BY <2>2, <2>5, StopType DEF TypeOK, DebuggeeTypeOK
  <2> QED
    BY <2>2, <2>3, <2>6, <2>7, NoneAssumption DEF StoppedIsHeld
<1>9. CASE OnExit
  BY <1>9 DEF OnExit, Stop, StoppedIsHeld
<1>10. CASE OnLoad \/ OnUnrelatedBreak
  <2>1. UNCHANGED <<run_state, letting>> /\ ~stopped /\ pc # "drain"
    BY <1>10 DEF OnLoad, OnUnrelatedBreak, WaitForDebugEvent, PassOn
  <2> QED
    BY <2>1 DEF StoppedIsHeld
<1>11. CASE DetachDrain
  BY <1>11 DEF DetachDrain, StoppedIsHeld
<1>12. CASE DetachStop
  BY <1>12 DEF DetachStop, StoppedIsHeld
<1>13. CASE PollEmpty \/ WaitEmpty
  BY <1>0, <1>13 DEF PollEmpty, WaitEmpty, debuggee, local, shared
<1>14. CASE \/ \E c \in PumpCmd : Request(c)
            \/ \E a \in BpAddrs : StepOut(a)
            \/ SendAnnounced \/ Timeout \/ Disconnected \/ SessionOver \/ UNCHANGED vars
  BY <1>14 DEF Request, StepOut, SendAnnounced, Timeout, Disconnected, SessionOver, vars,
       debuggee, local, shared, StoppedIsHeld
<1> QED
  BY <1>1, <1>2, <1>3, <1>4, <1>5, <1>6, <1>7, <1>8, <1>9, <1>10, <1>11, <1>12, <1>13, <1>14
     DEF Next, ClientStep, Pump, HandleCmd, HandleEvent

-----------------------------------------------------------------------------
(* Theorems *)

\* The session starts with an empty table, nothing held and one event queued.
LEMMA InitInductive == Init => IInv
<1> SUFFICES ASSUME Init PROVE IInv
  OBVIOUS
<1> USE CodeAssumption, BoundAssumption, ThreadAssumption DEF Init
<1>1. DebuggeeTypeOK
  BY DEF DebuggeeTypeOK, Byte, Code, Tids, Event, EventKinds
<1>2. LocalTypeOK /\ SharedTypeOK
  <2>1. LocalTypeOK
    BY DEF LocalTypeOK
  <2>2. next_bp_id \in Nat \ {0}
    OBVIOUS
  <2>3. shared_exited \in BOOLEAN
    BY Zenon
  <2>4. run_state \in RunStates /\ last_stop \in StopEvent \cup {None}
    BY DEF RunStates
  <2> QED
    BY <2>1, <2>2, <2>3, <2>4 DEF SharedTypeOK
<1>3. TableTypeOK
  BY DEF TableTypeOK
<1>4. ClientTypeOK
  BY EmptySeq DEF ClientTypeOK, Client
<1>5. RoomInv /\ AnnouncedInv
  BY DEF RoomInv, AnnouncedInv, Idle
<1>6. FreshInv /\ IndexNamesLiveEntry /\ HeldInv /\ StoppedIsHeld
  BY DEF FreshInv, IndexNamesLiveEntry, HeldInv, StoppedIsHeld
<1>8. HistoryTypeOK
  BY DEF HistoryTypeOK
<1>7. QueueInv
  <2>1. Len(queue) = 1 /\ queue[1].kind = "load" /\ queue[1].tid = SysThread
        /\ ts[SysThread] = "stuck" /\ pending = None
    BY DEF Tids
  <2> QED
    BY <2>1 DEF QueueInv
<1> QED
  BY <1>1, <1>2, <1>3, <1>4, <1>5, <1>6, <1>7, <1>8 DEF IInv, TypeOK

\* The inductive invariant holds throughout a session, whatever the client
\* calls, the debuggee does and the pump's timeouts let happen.
THEOREM Inductive == Spec => []IInv
<1>1. Init => IInv
  BY InitInductive
<1>2. IInv /\ [Next]_vars => IInv'
  <2> SUFFICES ASSUME IInv, Next \/ UNCHANGED vars PROVE IInv'
    OBVIOUS
  <2> QED
    BY TypeStep, RoomStep, AnnouncedStep, TableStep, HeldStep, QueueStep, StoppedStep DEF IInv
<1> QED
  BY <1>1, <1>2, PTL DEF Spec

\* Every variable of a debug session keeps to its range: the ids the table is
\* indexed with were given out, and an address looked up is one of the code.
THEOREM TypeCorrect == Spec => []TypeOK
<1>1. IInv => TypeOK
  BY DEF IInv
<1> QED
  BY <1>1, Inductive, PTL

\* The index the pump finds a hit with never leads to a dead, disabled or
\* foreign entry, so the bps[&id] of handle_cmd and handle_event never fail.
THEOREM IndexSound == Spec => []IndexNamesLiveEntry
<1>1. IInv => IndexNamesLiveEntry
  BY DEF IInv
<1> QED
  BY <1>1, Inductive, PTL

\* A client that reads Stopped reads a stop the pump still holds: neither the
\* unlocked writes of continue_exec and the steps nor commands served after
\* their caller gave up ever leave an old stop in SharedDebug.
THEOREM StoppedSound == Spec => []StoppedIsHeld
<1>1. IInv => StoppedIsHeld
  BY DEF IInv
<1> QED
  BY <1>1, Inductive, PTL

-----------------------------------------------------------------------------
(* A debug session implements StopProtocol *)

\* What a reader of the session sees.
seen == <<Phase, HeldThread, run_state, ShownThread>>

\* A command is received while the session is served, and ends it at most.
LEMMA CommandPhase ==
  ASSUME NEW op, Receive(op)
  PROVE  /\ Phase = "serving"
         /\ NextIteration => Phase' \in {"serving", "closed"}
  BY DEF Receive, Serving, NextIteration, Phase

\* A command that leaves the stop and the event held alone.
LEMMA OtherCommand ==
  ASSUME NEW op, Receive(op), NextIteration, UNCHANGED <<pending, last_stop, run_state>>
  PROVE  Promise!End \/ UNCHANGED seen
<1>1. UNCHANGED <<HeldThread, run_state, ShownThread>>
  BY DEF HeldThread, ShownThread
<1> QED
  BY <1>1, CommandPhase DEF Promise!End, seen

\* A step of the debuggee or a client's that leaves the pump and SharedDebug alone.
LEMMA Elsewhere ==
  ASSUME UNCHANGED <<pc, pending, last_stop, run_state>>
  PROVE  UNCHANGED seen
  BY DEF seen, Phase, HeldThread, ShownThread

\* An event taken and kept.
LEMMA Delivered ==
  ASSUME TypeOK, HeldInv, NEW kind, WaitForDebugEvent(kind),
         rip' \in [Threads -> Code],
         NEW reason \in StopReasons, NEW id \in Ids \cup {None}, Stop(reason, id)
  PROVE  \E t \in Tids : Promise!Deliver(t)
<1>1. Head(queue) \in Event /\ Head(queue).tid \in Tids
  BY WaitType DEF TypeOK
<1>2. pending = None /\ Phase = "serving" /\ Phase' = "serving"
  BY DEF WaitForDebugEvent, HeldInv, Phase, TypeOK, LocalTypeOK
<1>3. pending' = Head(queue) /\ pending' # None
  BY <1>1, NoneAssumption DEF Stop
<1>4. last_stop' \in StopEvent /\ last_stop' # None
  BY <1>1, StopType, NoneAssumption DEF TypeOK
<1>5. last_stop'.tid = Head(queue).tid
  BY DEF Stop
<1>6. run_state' \in {"Stopped", "Exited"}
  BY DEF Stop
<1>7. Promise!Deliver(Head(queue).tid)
  BY <1>2, <1>3, <1>4, <1>5, <1>6 DEF Promise!Deliver, HeldThread, ShownThread
<1> QED
  BY <1>1, <1>7

\* An event continued at once.
LEMMA PassedOn ==
  ASSUME NEW kind, WaitForDebugEvent(kind), PassOn
  PROVE  UNCHANGED seen
  BY DEF WaitForDebugEvent, PassOn, seen, Phase, HeldThread, ShownThread

-----------------------------------------------------------------------------

\* The client's steps show nothing, or announce a continue.
LEMMA ClientRefines ==
  ASSUME ClientStep
  PROVE  Promise!Announce \/ UNCHANGED seen
<1>1. ASSUME NEW c \in PumpCmd, Announce(c)  PROVE Promise!Announce
  BY <1>1 DEF Announce, Promise!Announce, Phase, HeldThread, ShownThread, local
<1>2. ASSUME NEW c \in PumpCmd, Request(c)  PROVE UNCHANGED seen
  BY <1>2, Elsewhere DEF Request, local, shared
<1>3. ASSUME NEW a \in BpAddrs, StepOut(a)  PROVE UNCHANGED seen
  BY <1>3, Elsewhere DEF StepOut, local, shared
<1>4. ASSUME SendAnnounced  PROVE UNCHANGED seen
  BY <1>4, Elsewhere DEF SendAnnounced, local, shared
<1>5. ASSUME Timeout  PROVE UNCHANGED seen
  BY <1>5, Elsewhere DEF Timeout, local, shared
<1>6. ASSUME Disconnected  PROVE UNCHANGED seen
  BY <1>6, Elsewhere DEF Disconnected, local, shared
<1> QED
  BY <1>1, <1>2, <1>3, <1>4, <1>5, <1>6 DEF ClientStep

\* A command served is a resume, the start of a detach, or not seen.
LEMMA HandleCmdRefines ==
  ASSUME HeldInv, HandleCmd
  PROVE  Promise!Resume \/ Promise!BeginDetach \/ Promise!End \/ UNCHANGED seen
<1>1. CASE Continue
  <2>1. CASE exited
    BY <1>1, <2>1, OtherCommand DEF Continue
  <2>2. CASE ~exited
    <3>1. Phase = "serving" /\ Phase' \in {"serving", "closed"}
      BY <1>1, CommandPhase DEF Continue
    <3>2. HeldThread' = None /\ HeldThread = None /\ run_state' = "Running" /\ ShownThread' = ShownThread
      BY <1>1, <2>2 DEF Continue, TellRunning, HeldThread, ShownThread
    <3> QED
      BY <3>1, <3>2 DEF Promise!Resume
  <2> QED
    BY <2>1, <2>2
<1>2. CASE Step
  <2>1. CASE Exists(Head(chan).tid)
    <3>1. Phase = "serving" /\ Phase' \in {"serving", "closed"}
      BY <1>2, CommandPhase DEF Step
    <3>2. HeldThread' = None /\ run_state' = "Running" /\ ShownThread' = None
      BY <1>2, <2>1 DEF Step, TellRunning, HeldThread, ShownThread
    <3> QED
      BY <3>1, <3>2 DEF Promise!Resume
  <2>2. CASE ~Exists(Head(chan).tid)
    BY <1>2, <2>2, OtherCommand DEF Step
  <2> QED
    BY <2>1, <2>2
<1>10. CASE Told
  <2>1. Phase = "serving" /\ Phase' \in {"serving", "closed"}
    BY <1>10 DEF Told, HeldInv, NextIteration, Phase
  <2>2. HeldThread' = None /\ run_state' = "Running" /\ ShownThread' = None
    BY <1>10 DEF Told, TellRunning, HeldThread, ShownThread
  <2> QED
    BY <2>1, <2>2 DEF Promise!Resume
<1>11. CASE ContinueHeld \/ StepHeld
  BY <1>11, Elsewhere DEF ContinueHeld, StepHeld, shared
<1>3. CASE DetachRestore
  <2>1. Phase = "serving" /\ Phase' = "closing"
    BY <1>3, CommandPhase DEF DetachRestore, Phase
  <2> QED
    BY <1>3, <2>1 DEF DetachRestore, shared, Promise!BeginDetach, HeldThread, ShownThread
<1>4. CASE Pause
  BY <1>4, OtherCommand DEF Pause, local, shared
<1>5. CASE SetSoftBp
  BY <1>5, OtherCommand DEF SetSoftBp, local
<1>6. CASE ClearBpById
  BY <1>6, OtherCommand DEF ClearBpById, local, shared
<1>7. CASE ClearBpByAddr
  BY <1>7, OtherCommand DEF ClearBpByAddr, local, shared
<1>8. CASE Query
  BY <1>8, OtherCommand DEF Query, local, shared
<1>9. CASE SetContext
  BY <1>9, OtherCommand DEF SetContext, local, shared
<1> QED
  BY <1>1, <1>2, <1>3, <1>4, <1>5, <1>6, <1>7, <1>8, <1>9, <1>10, <1>11 DEF HandleCmd

\* An event served is delivered or passed on.
LEMMA HandleEventRefines ==
  ASSUME TypeOK, TypeOK', HeldInv, HandleEvent
  PROVE  (\E t \in Tids : Promise!Deliver(t)) \/ UNCHANGED seen
<1>0. rip' \in [Threads -> Code]
  BY DEF TypeOK, DebuggeeTypeOK
<1>1. CASE OnLoad
  BY <1>1, PassedOn DEF OnLoad
<1>2. CASE OnUnrelatedBreak
  BY <1>2, PassedOn DEF OnUnrelatedBreak
<1>3. CASE OnStep
  BY <1>0, <1>3, Delivered DEF OnStep, StopReasons
<1>4. CASE OnException
  BY <1>0, <1>4, Delivered DEF OnException, StopReasons
<1>5. CASE OnExit
  BY <1>0, <1>5, Delivered DEF OnExit, StopReasons
<1>6. CASE OnInitialBreak
  BY <1>0, <1>6, Delivered DEF OnInitialBreak, StopReasons
<1>7. CASE OnBreakpoint
  <2>1. PICK id : id = HitOf(Head(queue)) /\ id # None /\ Stop("breakpoint", id)
    BY <1>7 DEF OnBreakpoint
  <2>2. id \in Ids \cup {None}
    BY <2>1 DEF HitOf, Lookup, IndexAt, TypeOK, TableTypeOK
  <2> QED
    BY <1>0, <1>7, <2>1, <2>2, Delivered DEF OnBreakpoint, StopReasons
<1> QED
  BY <1>1, <1>2, <1>3, <1>4, <1>5, <1>6, <1>7 DEF HandleEvent

\* The rest of pump_loop and of Detach.
LEMMA LoopRefines ==
  ASSUME PollEmpty \/ WaitEmpty \/ DetachDrain \/ DetachStop
  PROVE  Promise!End \/ Promise!EndDetach \/ UNCHANGED seen
<1>1. CASE PollEmpty
  <2>1. UNCHANGED <<HeldThread, run_state, ShownThread>>
    BY <1>1 DEF PollEmpty, local, shared, HeldThread, ShownThread
  <2>2. Phase = "serving" /\ Phase' \in {"serving", "closed"}
    BY <1>1 DEF PollEmpty, Phase
  <2> QED
    BY <2>1, <2>2 DEF Promise!End, seen
<1>2. CASE WaitEmpty
  BY <1>2 DEF WaitEmpty, local, shared, seen, Phase, HeldThread, ShownThread
<1>3. CASE DetachDrain
  BY <1>3, Elsewhere DEF DetachDrain, shared
<1>4. CASE DetachStop
  BY <1>4 DEF DetachStop, Promise!EndDetach, Phase, HeldThread, ShownThread
<1> QED
  BY <1>1, <1>2, <1>3, <1>4

\* Every step is one of StopProtocol's, or not seen.
LEMMA StepRefines == IInv /\ IInv' /\ [Next]_vars => [Promise!Next]_seen
<1> SUFFICES ASSUME IInv, IInv', [Next]_vars PROVE [Promise!Next]_seen
  OBVIOUS
<1>1. CASE Debuggee
  BY <1>1, Elsewhere DEF Debuggee, local, shared
<1>2. CASE ClientStep
  BY <1>2, ClientRefines DEF Promise!Next
<1>3. CASE HandleCmd
  BY <1>3, HandleCmdRefines DEF Promise!Next, IInv
<1>4. CASE HandleEvent
  BY <1>4, HandleEventRefines DEF Promise!Next, IInv
<1>5. CASE PollEmpty \/ WaitEmpty \/ DetachDrain \/ DetachStop
  BY <1>5, LoopRefines DEF Promise!Next
<1>6. CASE UNCHANGED vars
  BY <1>6, Elsewhere DEF vars, local, shared
<1> QED
  BY <1>1, <1>2, <1>3, <1>4, <1>5, <1>6 DEF Next, Pump, SessionOver

\* A debug session shows a stop exactly as it holds one: the pump takes one
\* event at a time and publishes it with the stop, and lets it go only with a
\* reader told so, or detaching.
THEOREM KeepsPromise == Spec => PromiseKept
<1>1. Init => Promise!Init
  BY DEF Init, Promise!Init, Phase, HeldThread, ShownThread
<1>2. IInv /\ IInv' /\ [Next]_vars => [Promise!Next]_(Promise!vars)
  BY StepRefines DEF seen, Promise!vars
<1> QED
  BY <1>1, <1>2, Inductive, PTL DEF Spec, PromiseKept, Promise!Spec

-----------------------------------------------------------------------------
(***************************************************************************)
(* Code, stops and running.  A client that clears no shadowed oneshot       *)
(* leaves the program its code and its instructions and is told the right   *)
(* breakpoint of each stop; any client reads Running of a debuggee that is  *)
(* held only after a step the pump refused.                                 *)
(***************************************************************************)

ClearsOwn == ShadowedClears = FALSE

-----------------------------------------------------------------------------
(* The invariants *)

\* What the table would write back is the program's own byte.
OriginalInv == \A id \in Ids : bps[id] # None => bps[id].original = Genuine

\* The index and the enabled entries say the same, and an INT3 in a live
\* debuggee is one of theirs.
EnabledInv == \A id \in Ids : bps[id] # None /\ bps[id].enabled => addr_to_id[bps[id].addr] = id
ArmedInv   == Alive => \A a \in BpAddrs : text[a] = Int3 => addr_to_id[a] # None

\* A clear under way names an entry that was there when it was sent, and is
\* alone at its address now and when it is served.
ClearInv ==
  \A i \in 1 .. Len(chan), id \in Ids : chan[i].op = "clear_id" /\ chan[i].id = id =>
    /\ id < next_bp_id
    /\ bps[id] # None =>
         /\ \A other \in Ids \ {id} : bps[other] # None => bps[other].addr # bps[id].addr
         /\ \A j \in 1 .. i - 1 : chan[j].op = "set_bp" => chan[j].addr # bps[id].addr

\* A session that drains or is detached has no breakpoint left.
DetachedInv ==
  /\ run_state = "Detached" => pc = "dead"
  /\ pc = "drain" \/ run_state = "Detached" => \A a \in BpAddrs : addr_to_id[a] = None

CodeInv == OriginalInv /\ EnabledInv /\ ArmedInv /\ ClearInv /\ DetachedInv

-----------------------------------------------------------------------------
(* What a step does to the table *)

\* A process that ended stays so.
LEMMA StaysDead ==
  ASSUME TypeOK, Next \/ UNCHANGED vars, Alive'
  PROVE  Alive
<1>1. PICK t \in Threads : ts'[t] # "gone"
  BY DEF Alive
<1>2. t \in Tids /\ t # SysThread
  BY ThreadAssumption DEF Tids
<1> SUFFICES ASSUME ts[t] = "gone" PROVE ts'[t] = "gone" \/ Alive
  BY <1>1 DEF Alive
<1>3. \A e : Resumed(e)[t] = "gone"
  BY <1>2, ResumedGone DEF TypeOK
<1>4. CASE Debuggee
  <2>1. ASSUME NEW u \in Threads, HitInt3(u) \/ Execute(u) \/ Fault(u) \/ ExitProcess(u) PROVE Alive
    BY <2>1 DEF HitInt3, Execute, Fault, ExitProcess, Alive
  <2>2. CASE BreakIn
    BY <1>2, <2>2 DEF BreakIn, Raise, TypeOK, DebuggeeTypeOK
  <2> QED
    BY <1>4, <2>1, <2>2 DEF Debuggee
<1>5. CASE HandleCmd
  BY <1>2, <1>3, <1>5 DEF HandleCmd, ContinueHeld, Continue, StepHeld, Step, LetGo, Told, Pause,
       SetSoftBp, ClearBpById, ClearBpByAddr, Query, SetContext, DetachRestore, debuggee,
       TypeOK, DebuggeeTypeOK
<1>6. CASE HandleEvent
  BY <1>3, <1>6 DEF HandleEvent, OnLoad, OnStep, OnException, OnExit, OnBreakpoint, OnInitialBreak,
       OnUnrelatedBreak, PassOn, Stop
<1>7. CASE ClientStep
  BY <1>7 DEF ClientStep, Request, Announce, StepOut, SendAnnounced, Timeout, Disconnected, debuggee
<1>8. CASE PollEmpty \/ WaitEmpty \/ DetachDrain \/ DetachStop \/ SessionOver \/ UNCHANGED vars
  BY <1>3, <1>8 DEF PollEmpty, WaitEmpty, DetachDrain, DetachStop, SessionOver, vars, debuggee
<1> QED
  BY <1>4, <1>5, <1>6, <1>7, <1>8 DEF Next, Pump

\* An indexed entry was given out.
LEMMA IndexedIds ==
  ASSUME IInv, NEW a \in BpAddrs, addr_to_id[a] # None
  PROVE  /\ addr_to_id[a] \in Ids /\ addr_to_id[a] < next_bp_id
         /\ bps[addr_to_id[a]] # None /\ bps[addr_to_id[a]].addr = a
<1>1. addr_to_id[a] \in Ids
  BY DEF IInv, TypeOK, TableTypeOK
<1> QED
  BY <1>1 DEF IInv, IndexNamesLiveEntry, FreshInv, TypeOK, SharedTypeOK, Ids

\* The steps that leave code and table alone.
LeavesTable ==
  \/ Pause \/ Query \/ SetContext \/ Step \/ StepHeld \/ Told
  \/ OnLoad \/ OnStep \/ OnException \/ OnExit \/ OnInitialBreak \/ OnUnrelatedBreak
  \/ ClientStep \/ Debuggee \/ PollEmpty \/ WaitEmpty \/ DetachDrain \/ DetachStop
  \/ SessionOver \/ UNCHANGED vars

LEMMA TableLeft ==
  ASSUME TypeOK, LeavesTable
  PROVE  UNCHANGED <<text, bps, addr_to_id, next_bp_id>>
<1>1. CASE Debuggee
  BY <1>1 DEF Debuggee, HitInt3, Execute, Fault, ExitProcess, BreakIn, table, shared
<1>2. CASE ClientStep
  BY <1>2 DEF ClientStep, Request, Announce, SendAnnounced, StepOut, Timeout, Disconnected,
       debuggee, table, shared
<1>3. CASE Pause \/ Query \/ SetContext \/ Step \/ StepHeld \/ Told
  BY <1>3 DEF Pause, Query, SetContext, Step, StepHeld, Told, debuggee, table, shared
<1>4. CASE OnLoad \/ OnStep \/ OnException \/ OnExit \/ OnInitialBreak \/ OnUnrelatedBreak
  BY <1>4 DEF OnLoad, OnStep, OnException, OnExit, OnInitialBreak, OnUnrelatedBreak, table
<1>5. CASE PollEmpty \/ WaitEmpty \/ DetachDrain \/ DetachStop \/ SessionOver \/ UNCHANGED vars
  BY <1>5 DEF PollEmpty, WaitEmpty, DetachDrain, DetachStop, SessionOver, vars, debuggee, table, shared
<1> QED
  BY <1>1, <1>2, <1>3, <1>4, <1>5 DEF LeavesTable

\* An entry removed, from table, index and code.
Removed(id) ==
  /\ id \in Ids /\ bps[id] \in SoftBp
  /\ bps' = [bps EXCEPT ![id] = None]
  /\ addr_to_id' = [addr_to_id EXCEPT ![bps[id].addr] = None]
  /\ text' = IF Alive THEN [text EXCEPT ![bps[id].addr] = bps[id].original] ELSE text

\* A clear removes the entry it names, by id or by address, or nothing.
LEMMA Clearing ==
  ASSUME IInv, ClearBpById \/ ClearBpByAddr
  PROVE  /\ UNCHANGED <<ts, next_bp_id>>
         /\ \/ UNCHANGED <<text, bps, addr_to_id>>
            \/ ClearBpById /\ Removed(Head(chan).id)
            \/ \E a \in BpAddrs : addr_to_id[a] # None /\ Removed(addr_to_id[a])
<1>1. CASE ClearBpById
  <2>1. Head(chan).id \in Ids /\ Clear(Head(chan).id) /\ UNCHANGED <<ts, next_bp_id>>
    BY <1>1, ReceiveType, CmdArgs DEF ClearBpById, shared, IInv, TypeOK
  <2> QED
    BY <1>1, <2>1 DEF Clear, Removed, table, IInv, TypeOK, TableTypeOK
<1>2. CASE ClearBpByAddr
  <2>1. PICK a \in BpAddrs : Clear(addr_to_id[a])
    BY <1>2, ReceiveType, CmdArgs DEF ClearBpByAddr, IInv, TypeOK
  <2>2. UNCHANGED <<ts, next_bp_id>>
    BY <1>2 DEF ClearBpByAddr, shared
  <2> QED
    BY <2>1, <2>2, IndexedIds DEF Clear, Removed, table, IInv, TypeOK, TableTypeOK
<1> QED
  BY <1>1, <1>2

\* An entry created, in table, index and code.
Created(a, oneshot) ==
  /\ a \in BpAddrs /\ oneshot \in BOOLEAN
  /\ next_bp_id \in Ids /\ bps[next_bp_id] = None
  /\ Alive /\ addr_to_id[a] = None
  /\ bps' = [bps EXCEPT ![next_bp_id] = NewBp(a, oneshot)]
  /\ addr_to_id' = [addr_to_id EXCEPT ![a] = next_bp_id]
  /\ text' = [text EXCEPT ![a] = Int3]
  /\ next_bp_id' = next_bp_id + 1

\* A breakpoint set is a new entry, or one that is there already.
LEMMA Setting ==
  ASSUME IInv, SetSoftBp
  PROVE  /\ UNCHANGED ts
         /\ \/ UNCHANGED <<text, bps, addr_to_id, next_bp_id>>
            \/ Created(Head(chan).addr, Head(chan).oneshot)
<1> DEFINE a == Head(chan).addr
<1>1. Head(chan) \in PumpCmd /\ Head(chan).op = "set_bp" /\ a \in BpAddrs /\ Head(chan).oneshot \in BOOLEAN
  BY ReceiveType, CmdArgs DEF SetSoftBp, IInv, TypeOK
<1>2. CASE addr_to_id[a] # None \/ ~Alive
  BY <1>2 DEF SetSoftBp, table
<1>3. CASE ~(addr_to_id[a] # None \/ ~Alive)
  <2>1. Len(chan) \in Nat \ {0} /\ Head(chan) = chan[1]
    BY EmptySeq DEF SetSoftBp, Receive, Serving, IInv, TypeOK, ClientTypeOK
  <2>2. next_bp_id <= MaxBp
    BY <1>1, <2>1, BoundAssumption DEF RoomInv, IInv, TypeOK, SharedTypeOK
  <2>3. next_bp_id \in Ids
    BY <2>2, BoundAssumption DEF Ids, IInv, TypeOK, SharedTypeOK
  <2>4. bps[next_bp_id] = None
    BY <2>3 DEF FreshInv, IInv, TypeOK, SharedTypeOK
  <2> QED
    BY <1>1, <1>3, <2>3, <2>4 DEF SetSoftBp, Created
<1> QED
  BY <1>2, <1>3

\* A breakpoint hit: the byte is restored, a oneshot disabled and forgotten by
\* the index.
Hit(id) ==
  /\ id \in Ids /\ bps[id] \in SoftBp /\ addr_to_id[bps[id].addr] = id
  /\ text' = [text EXCEPT ![bps[id].addr] = bps[id].original]
  /\ bps' = [bps EXCEPT ![id].enabled = ~bps[id].oneshot /\ bps[id].enabled]
  /\ addr_to_id' = IF bps[id].oneshot THEN [addr_to_id EXCEPT ![bps[id].addr] = None] ELSE addr_to_id

LEMMA Hitting ==
  ASSUME IInv, OnBreakpoint
  PROVE  Hit(HitOf(Head(queue))) /\ UNCHANGED <<ts, next_bp_id, chan>>
<1>1. HitOf(Head(queue)) # None
  BY DEF OnBreakpoint
<1>2. UNCHANGED <<ts, next_bp_id, chan>>
  BY DEF OnBreakpoint, Stop
<1> QED
  BY <1>1, <1>2, HitType DEF OnBreakpoint, Hit, IInv

\* The steps that change code or table.
LEMMA StepsOfTable ==
  ASSUME Next \/ UNCHANGED vars
  PROVE  \/ ClearBpById \/ ClearBpByAddr \/ SetSoftBp \/ OnBreakpoint
         \/ Continue \/ ContinueHeld \/ DetachRestore \/ LeavesTable
  BY DEF Next, Pump, HandleCmd, HandleEvent, LeavesTable
-----------------------------------------------------------------------------
(* The code of the debuggee *)

\* The original bytes of the table stay the program's.
LEMMA OriginalStep ==
  ASSUME IInv, CodeInv, Next \/ UNCHANGED vars
  PROVE  OriginalInv'
<1> USE DEF CodeInv, OriginalInv
<1>1. CASE ClearBpById \/ ClearBpByAddr
  BY <1>1, Clearing DEF Removed, IInv, TypeOK, TableTypeOK
<1>2. CASE SetSoftBp
  <2>1. CASE UNCHANGED bps
    BY <2>1
  <2>2. CASE Created(Head(chan).addr, Head(chan).oneshot)
    <3>1. text[Head(chan).addr] = Genuine
      BY <2>2 DEF Created, ArmedInv, IInv, TypeOK, DebuggeeTypeOK, Byte
    <3> QED
      BY <2>2, <3>1 DEF Created, NewBp, IInv, TypeOK, TableTypeOK
  <2> QED
    BY <1>2, <2>1, <2>2, Setting
<1>3. CASE OnBreakpoint
  <2>1. PICK id : Hit(id)
    BY <1>3, Hitting
  <2>2. \A other \in Ids : bps'[other] # None =>
          bps[other] # None /\ bps'[other].original = bps[other].original
    BY <2>1, NoneAssumption DEF Hit, SoftBp, IInv, TypeOK, TableTypeOK
  <2> QED
    BY <2>2
<1>4. CASE Continue \/ ContinueHeld \/ LeavesTable
  BY <1>4, TableLeft DEF Continue, ContinueHeld, table, shared, IInv
<1>5. CASE DetachRestore
  BY <1>5 DEF DetachRestore
<1> QED
  BY <1>1, <1>2, <1>3, <1>4, <1>5, StepsOfTable

\* An entry that is enabled is the one its address leads to.
LEMMA EnabledStep ==
  ASSUME IInv, CodeInv, Next \/ UNCHANGED vars
  PROVE  EnabledInv'
<1> USE NoneAssumption DEF EnabledInv
<1>0. ASSUME UNCHANGED <<bps, addr_to_id>> PROVE EnabledInv'
  BY <1>0 DEF CodeInv
<1>1. ASSUME NEW id, Removed(id),
             \A other \in Ids \ {id} : bps[other] # None /\ bps[other].enabled => bps[other].addr # bps[id].addr
      PROVE  EnabledInv'
  <2> SUFFICES ASSUME NEW other \in Ids, bps'[other] # None, bps'[other].enabled
               PROVE  addr_to_id'[bps'[other].addr] = other
    OBVIOUS
  <2>1. other # id /\ bps'[other] = bps[other]
    BY <1>1 DEF Removed, IInv, TypeOK, TableTypeOK
  <2>2. bps[other].addr \in BpAddrs /\ bps[id].addr \in BpAddrs
    BY <1>1, <2>1 DEF Removed, SoftBp, IInv, TypeOK, TableTypeOK
  <2> QED
    BY <1>1, <2>1, <2>2 DEF CodeInv, Removed, IInv, TypeOK, TableTypeOK
<1>2. CASE ClearBpById
  <2>1. Len(chan) \in Nat \ {0} /\ Head(chan) = chan[1] /\ chan[1].op = "clear_id"
    BY <1>2, EmptySeq DEF ClearBpById, Receive, Serving, IInv, TypeOK, ClientTypeOK
  <2>2. \A id \in Ids : id = Head(chan).id /\ bps[id] # None =>
          \A other \in Ids \ {id} : bps[other] # None => bps[other].addr # bps[id].addr
    BY <2>1 DEF CodeInv, ClearInv
  <2>3. CASE Removed(Head(chan).id)
    <3>1. Head(chan).id \in Ids /\ bps[Head(chan).id] # None
      BY <2>3, NoneAssumption DEF Removed
    <3> QED
      BY <1>1, <2>2, <2>3, <3>1
  <2>4. ASSUME NEW a \in BpAddrs, addr_to_id[a] # None, Removed(addr_to_id[a]) PROVE EnabledInv'
    BY <1>1, <2>4, IndexedIds DEF CodeInv
  <2> QED
    BY <1>0, <1>2, <2>3, <2>4, Clearing
<1>3. CASE ClearBpByAddr
  <2>1. ~ClearBpById
    BY <1>3 DEF ClearBpByAddr, ClearBpById, Receive, Serving
  <2>2. ASSUME NEW a \in BpAddrs, addr_to_id[a] # None, Removed(addr_to_id[a]) PROVE EnabledInv'
    BY <1>1, <2>2, IndexedIds DEF CodeInv
  <2> QED
    BY <1>0, <1>3, <2>1, <2>2, Clearing
<1>4. CASE SetSoftBp
  <2>1. CASE Created(Head(chan).addr, Head(chan).oneshot)
    <3>1. PICK a, oneshot : Created(a, oneshot)
      BY <2>1
    <3> SUFFICES ASSUME NEW id \in Ids, bps'[id] # None, bps'[id].enabled
                 PROVE  addr_to_id'[bps'[id].addr] = id
      OBVIOUS
    <3>2. CASE id = next_bp_id
      BY <3>1, <3>2 DEF Created, NewBp, IInv, TypeOK, TableTypeOK
    <3>3. CASE id # next_bp_id
      <4>1. bps'[id] = bps[id] /\ bps[id].addr \in BpAddrs
        BY <3>1, <3>3 DEF Created, SoftBp, IInv, TypeOK, TableTypeOK
      <4>2. addr_to_id[bps[id].addr] = id
        BY <4>1 DEF CodeInv
      <4>3. bps[id].addr # a
        BY <3>1, <4>2 DEF Created
      <4> QED
        BY <3>1, <4>1, <4>2, <4>3 DEF Created, IInv, TypeOK, TableTypeOK
    <3> QED
      BY <3>2, <3>3
  <2> QED
    BY <1>0, <1>4, <2>1, Setting
<1>5. CASE OnBreakpoint
  <2>1. PICK id : Hit(id)
    BY <1>5, Hitting
  <2> SUFFICES ASSUME NEW other \in Ids, bps'[other] # None, bps'[other].enabled
               PROVE  addr_to_id'[bps'[other].addr] = other
    OBVIOUS
  <2>2. CASE other = id
    <3>1. bps'[id].addr = bps[id].addr /\ ~bps[id].oneshot
      BY <2>1, <2>2 DEF Hit, SoftBp, IInv, TypeOK, TableTypeOK
    <3> QED
      BY <2>1, <2>2, <3>1 DEF Hit
  <2>3. CASE other # id
    <3>1. bps'[other] = bps[other] /\ bps[other].addr \in BpAddrs
      BY <2>1, <2>3 DEF Hit, SoftBp, IInv, TypeOK, TableTypeOK
    <3>2. addr_to_id[bps[other].addr] = other
      BY <3>1 DEF CodeInv
    <3>3. bps[other].addr # bps[id].addr
      BY <2>1, <2>3, <3>2 DEF Hit
    <3> QED
      BY <2>1, <3>1, <3>2, <3>3 DEF Hit, IInv, TypeOK, TableTypeOK
  <2> QED
    BY <2>2, <2>3
<1>6. CASE Continue \/ ContinueHeld \/ LeavesTable
  BY <1>0, <1>6, TableLeft DEF Continue, ContinueHeld, table, IInv
<1>7. CASE DetachRestore
  BY <1>7 DEF DetachRestore
<1> QED
  BY <1>2, <1>3, <1>4, <1>5, <1>6, <1>7, StepsOfTable

\* Detach writes the program's own bytes.
LEMMA RestoredGenuine ==
  ASSUME IInv, CodeInv, Alive, NEW f \in Restored
  PROVE  f \in [BpAddrs -> Byte] /\ \A a \in BpAddrs : f[a] = Genuine
<1>1. f \in [BpAddrs -> Byte]
  BY DEF Restored
<1> SUFFICES ASSUME NEW a \in BpAddrs PROVE f[a] = Genuine
  BY <1>1
<1>2. CASE \E id \in Ids : bps[id] # None /\ bps[id].addr = a
  BY <1>2 DEF Restored, CodeInv, OriginalInv
<1>3. CASE ~\E id \in Ids : bps[id] # None /\ bps[id].addr = a
  <2>1. addr_to_id[a] = None
    BY <1>3, IndexedIds
  <2>2. text[a] = Genuine
    BY <2>1 DEF CodeInv, ArmedInv, IInv, TypeOK, DebuggeeTypeOK, Byte
  <2> QED
    BY <1>3, <2>2 DEF Restored
<1> QED
  BY <1>2, <1>3

\* An INT3 of a live debuggee stays one that the index knows.
LEMMA ArmedStep ==
  ASSUME IInv, CodeInv, Next \/ UNCHANGED vars
  PROVE  ArmedInv'
<1> SUFFICES ASSUME Alive', NEW b \in BpAddrs, text'[b] = Int3 PROVE addr_to_id'[b] # None
  BY DEF ArmedInv
<1> USE NoneAssumption DEF Genuine, Int3
<1>0. Alive
  BY StaysDead DEF IInv
<1>1. text[b] = Int3 => addr_to_id[b] # None
  BY <1>0 DEF CodeInv, ArmedInv
<1>2. ASSUME NEW id, Removed(id) PROVE addr_to_id'[b] # None
  <2>1. bps[id].addr \in BpAddrs /\ bps[id].original = Genuine
    BY <1>2 DEF Removed, SoftBp, CodeInv, OriginalInv
  <2>2. b # bps[id].addr /\ text'[b] = text[b]
    BY <1>0, <1>2, <2>1 DEF Removed, IInv, TypeOK, DebuggeeTypeOK
  <2> QED
    BY <1>1, <1>2, <2>2 DEF Removed, IInv, TypeOK, TableTypeOK
<1>3. CASE ClearBpById \/ ClearBpByAddr
  BY <1>1, <1>2, <1>3, Clearing
<1>4. CASE SetSoftBp
  <2>1. CASE Created(Head(chan).addr, Head(chan).oneshot)
    BY <1>1, <2>1 DEF Created, IInv, TypeOK, TableTypeOK, DebuggeeTypeOK, Ids
  <2> QED
    BY <1>1, <1>4, <2>1, Setting
<1>5. CASE OnBreakpoint
  <2>1. PICK id : Hit(id)
    BY <1>5, Hitting
  <2>2. bps[id].addr \in BpAddrs /\ bps[id].original = Genuine
    BY <2>1 DEF Hit, SoftBp, CodeInv, OriginalInv
  <2>3. b # bps[id].addr /\ text'[b] = text[b]
    BY <2>1, <2>2 DEF Hit, IInv, TypeOK, DebuggeeTypeOK
  <2> QED
    BY <1>1, <2>1, <2>3 DEF Hit, IInv, TypeOK, TableTypeOK
<1>6. CASE Continue \/ ContinueHeld
  <2>1. CASE \E id \in Ids : bps[id] # None /\ bps[id].enabled /\ bps[id].addr = b
    BY <1>6, <2>1 DEF Continue, ContinueHeld, table, CodeInv, EnabledInv
  <2>2. CASE ~\E id \in Ids : bps[id] # None /\ bps[id].enabled /\ bps[id].addr = b
    <3>1. text'[b] = text[b]
      BY <1>6, <2>2 DEF Continue, ContinueHeld, Rearmed
    <3> QED
      BY <1>1, <1>6, <3>1 DEF Continue, ContinueHeld, table
  <2> QED
    BY <2>1, <2>2
<1>7. CASE LeavesTable
  BY <1>1, <1>7, TableLeft DEF IInv
<1>8. CASE DetachRestore
  BY <1>0, <1>8, RestoredGenuine DEF DetachRestore
<1> QED
  BY <1>3, <1>4, <1>5, <1>6, <1>7, <1>8, StepsOfTable
\* A session detached stays without breakpoints.
LEMMA DetachedStep ==
  ASSUME IInv, CodeInv, Next \/ UNCHANGED vars
  PROVE  DetachedInv'
<1> USE DEF DetachedInv, CodeInv
<1>1. CASE HandleCmd /\ ~DetachRestore
  <2>1. pc # "dead" /\ pc' # "drain"
    BY <1>1 DEF HandleCmd, ContinueHeld, Continue, StepHeld, Step, Told, Pause, SetSoftBp, ClearBpById,
         ClearBpByAddr, Query, SetContext, Receive, Serving, NextIteration, IInv, HeldInv
  <2>2. run_state' \in {run_state, "Running"}
    BY <1>1 DEF HandleCmd, ContinueHeld, Continue, StepHeld, Step, Told, TellRunning, Pause, SetSoftBp,
         ClearBpById, ClearBpByAddr, Query, SetContext, shared
  <2> QED
    BY <2>1, <2>2
<1>2. CASE DetachRestore
  BY <1>2 DEF DetachRestore, Receive, Serving, shared
<1>3. CASE HandleEvent
  <2>1. pc = "wait" /\ pc' = "poll"
    BY <1>3 DEF HandleEvent, OnLoad, OnStep, OnException, OnExit, OnBreakpoint, OnInitialBreak,
         OnUnrelatedBreak, WaitForDebugEvent
  <2>2. run_state' \in {run_state, "Stopped", "Exited"}
    BY <1>3 DEF HandleEvent, OnLoad, OnStep, OnException, OnExit, OnBreakpoint, OnInitialBreak,
         OnUnrelatedBreak, PassOn, Stop
  <2> QED
    BY <2>1, <2>2
<1>4. CASE ClientStep \/ Debuggee \/ SessionOver \/ UNCHANGED vars \/ DetachDrain
  <2>1. UNCHANGED <<pc, addr_to_id>> /\ run_state' \in {run_state, "Running"}
    BY <1>4 DEF ClientStep, Request, Announce, StepOut, SendAnnounced, Timeout, Disconnected, Debuggee,
         SessionOver, vars, DetachDrain, table, shared
  <2> QED
    BY <2>1
<1>5. CASE DetachStop
  BY <1>5 DEF DetachStop, table
<1>6. CASE PollEmpty \/ WaitEmpty
  BY <1>6 DEF PollEmpty, WaitEmpty, shared
<1> QED
  BY <1>1, <1>2, <1>3, <1>4, <1>5, <1>6 DEF Next, Pump

\* An entry that is there after a step was there before, or is new.
LEMMA Entries ==
  ASSUME IInv, Next \/ UNCHANGED vars
  PROVE  /\ next_bp_id' \in {next_bp_id, next_bp_id + 1}
         /\ \A id \in Ids : bps'[id] # None =>
              \/ bps[id] # None /\ bps'[id].addr = bps[id].addr
              \/ /\ SetSoftBp /\ id = next_bp_id /\ next_bp_id' = next_bp_id + 1
                 /\ bps'[id].addr = Head(chan).addr
<1>1. CASE ClearBpById \/ ClearBpByAddr
  BY <1>1, Clearing DEF Removed, IInv, TypeOK, TableTypeOK
<1>2. CASE SetSoftBp
  BY <1>2, Setting DEF Created, NewBp, IInv, TypeOK, TableTypeOK
<1>3. CASE OnBreakpoint
  <2>1. PICK id : Hit(id) /\ UNCHANGED next_bp_id
    BY <1>3, Hitting
  <2> QED
    BY <2>1, NoneAssumption DEF Hit, SoftBp, IInv, TypeOK, TableTypeOK
<1>4. CASE Continue \/ ContinueHeld \/ LeavesTable
  BY <1>4, TableLeft DEF Continue, ContinueHeld, table, shared, IInv
<1>5. CASE DetachRestore
  BY <1>5 DEF DetachRestore, shared
<1> QED
  BY <1>1, <1>2, <1>3, <1>4, <1>5, StepsOfTable

\* A clear sent names an entry that nothing shadows.
LEMMA ClearSend ==
  ASSUME IInv, ClearInv, UNCHANGED <<bps, next_bp_id>>, NEW at, NEW c \in PumpCmd, Send(at, c),
         c.op = "clear_id" => bps[c.id] # None /\ ~Shadowed(c.id)
  PROVE  ClearInv'
<1>1. CASE chan' = chan
  BY <1>1 DEF ClearInv
<1>2. CASE chan' = Append(chan, c)
  <2>1. Len(chan') = Len(chan) + 1 /\ Len(chan) \in Nat
        /\ \A i \in 1 .. Len(chan) + 1 : chan'[i] = IF i <= Len(chan) THEN chan[i] ELSE c
    BY <1>2 DEF IInv, TypeOK, ClientTypeOK
  <2> SUFFICES ASSUME NEW i \in 1 .. Len(chan'), NEW id \in Ids, chan'[i].op = "clear_id", chan'[i].id = id
               PROVE  /\ id < next_bp_id
                      /\ bps[id] # None =>
                           /\ \A other \in Ids \ {id} : bps[other] # None => bps[other].addr # bps[id].addr
                           /\ \A j \in 1 .. i - 1 : chan'[j].op = "set_bp" => chan'[j].addr # bps[id].addr
    BY DEF ClearInv
  <2>2. \A j \in 1 .. i - 1 : j \in 1 .. Len(chan) /\ chan'[j] = chan[j]
    BY <2>1
  <2>3. CASE i \in 1 .. Len(chan)
    <3>1. chan'[i] = chan[i]
      BY <2>1, <2>3
    <3> QED
      BY <2>2, <2>3, <3>1 DEF ClearInv
  <2>4. CASE i = Len(chan) + 1
    <3>1. bps[id] # None /\ ~Shadowed(id)
      BY <2>1, <2>4
    <3>2. id < next_bp_id
      BY <3>1 DEF IInv, FreshInv, TypeOK, SharedTypeOK, Ids
    <3> QED
      BY <2>2, <3>1, <3>2 DEF Shadowed
  <2> QED
    BY <2>1, <2>3, <2>4
<1> QED
  BY <1>1, <1>2 DEF Send

\* A command received shadows no entry that a later clear names.
LEMMA ClearReceive ==
  ASSUME IInv, ClearInv, Next, chan # <<>>, chan' = Tail(chan)
  PROVE  ClearInv'
<1>1. Len(chan') = Len(chan) - 1 /\ Len(chan) \in Nat \ {0} /\ Head(chan) = chan[1]
      /\ \A i \in 1 .. Len(chan) - 1 : chan'[i] = chan[i + 1]
  BY HeadTailProperties, LenProperties, EmptySeq DEF IInv, TypeOK, ClientTypeOK
<1> SUFFICES ASSUME NEW i \in 1 .. Len(chan'), NEW id \in Ids, chan'[i].op = "clear_id", chan'[i].id = id
             PROVE  /\ id < next_bp_id'
                    /\ bps'[id] # None =>
                         /\ \A other \in Ids \ {id} : bps'[other] # None => bps'[other].addr # bps'[id].addr
                         /\ \A j \in 1 .. i - 1 : chan'[j].op = "set_bp" => chan'[j].addr # bps'[id].addr
  BY DEF ClearInv
<1>2. i + 1 \in 1 .. Len(chan) /\ chan[i + 1] = chan'[i] /\ (i + 1) - 1 = i
  BY <1>1
<1>3. /\ id < next_bp_id
      /\ bps[id] # None =>
           /\ \A other \in Ids \ {id} : bps[other] # None => bps[other].addr # bps[id].addr
           /\ \A j \in 1 .. i : chan[j].op = "set_bp" => chan[j].addr # bps[id].addr
  BY <1>2 DEF ClearInv
<1>4. next_bp_id' \in {next_bp_id, next_bp_id + 1} /\ next_bp_id \in Nat /\ id \in Nat
  BY Entries DEF IInv, TypeOK, SharedTypeOK, Ids
<1>5. id < next_bp_id'
  BY <1>3, <1>4
<1>6. ASSUME bps'[id] # None
      PROVE  /\ \A other \in Ids \ {id} : bps'[other] # None => bps'[other].addr # bps'[id].addr
             /\ \A j \in 1 .. i - 1 : chan'[j].op = "set_bp" => chan'[j].addr # bps'[id].addr
  <2>1. bps[id] # None /\ bps'[id].addr = bps[id].addr
    BY <1>3, <1>4, <1>6, Entries
  <2>2. ASSUME NEW other \in Ids \ {id}, bps'[other] # None
        PROVE  bps'[other].addr # bps[id].addr
    <3>1. CASE bps[other] # None /\ bps'[other].addr = bps[other].addr
      BY <1>3, <2>1, <3>1
    <3>2. CASE SetSoftBp /\ bps'[other].addr = Head(chan).addr
      <4>1. chan[1].op = "set_bp" /\ 1 \in 1 .. i
        BY <1>1, <3>2 DEF SetSoftBp, Receive, Serving
      <4> QED
        BY <1>1, <1>3, <2>1, <3>2, <4>1
    <3> QED
      BY <2>2, <3>1, <3>2, Entries
  <2>3. ASSUME NEW j \in 1 .. i - 1, chan'[j].op = "set_bp"
        PROVE  chan'[j].addr # bps[id].addr
    <3>1. j + 1 \in 1 .. i /\ chan[j + 1] = chan'[j]
      BY <1>1
    <3> QED
      BY <1>3, <2>1, <2>3, <3>1
  <2> QED
    BY <2>1, <2>2, <2>3
<1> QED
  BY <1>5, <1>6

\* Every clear under way stays one of an entry that is alone.
LEMMA ClearStep ==
  ASSUME ClearsOwn, IInv, CodeInv, Next \/ UNCHANGED vars
  PROVE  ClearInv'
<1>0. ClearInv
  BY DEF CodeInv
<1>1. CASE HandleCmd
  <2>1. CASE ContinueHeld \/ StepHeld
    BY <1>0, <2>1 DEF ContinueHeld, StepHeld, table, shared, ClearInv
  <2>2. CASE ~(ContinueHeld \/ StepHeld)
    <3>1. chan # <<>> /\ chan' = Tail(chan)
      BY <1>1, <2>2 DEF HandleCmd, Continue, Step, Told, Pause, SetSoftBp, ClearBpById, ClearBpByAddr,
           Query, SetContext, DetachRestore, Receive, Serving, IInv, HeldInv
    <3> QED
      BY <1>0, <1>1, <3>1, ClearReceive DEF Next, Pump
  <2> QED
    BY <2>1, <2>2
<1>2. CASE ClientStep
  <2>0. UNCHANGED <<bps, next_bp_id>>
    BY <1>2 DEF ClientStep, Request, Announce, StepOut, SendAnnounced, Timeout, Disconnected, table, shared
  <2>1. ASSUME NEW c \in PumpCmd, Request(c) PROVE ClearInv'
    BY <1>0, <2>0, <2>1, ClearSend DEF Request, Sendable, ClearsOwn
  <2>2. ASSUME NEW a \in BpAddrs, StepOut(a) PROVE ClearInv'
    <3>1. [op |-> "set_bp", addr |-> a, oneshot |-> TRUE] \in PumpCmd
      BY DEF PumpCmd
    <3> QED
      BY <1>0, <2>0, <2>2, <3>1, ClearSend DEF StepOut
  <2>3. CASE SendAnnounced
    <3>1. client.cmd \in PumpCmd
      BY <2>3 DEF SendAnnounced, IInv, TypeOK, ClientTypeOK, Client, Idle, Done, Landing
    <3>2. client.cmd.op # "clear_id"
      BY <2>3 DEF SendAnnounced, IInv, AnnouncedInv
    <3> QED
      BY <1>0, <2>0, <2>3, <3>1, <3>2, ClearSend DEF SendAnnounced
  <2>4. CASE Disconnected
    <3>1. Len(chan') = 0
      BY <2>4 DEF Disconnected
    <3> QED
      BY <3>1 DEF ClearInv
  <2>5. ASSUME UNCHANGED chan PROVE ClearInv'
    BY <1>0, <2>0, <2>5 DEF ClearInv
  <2> QED
    BY <1>2, <2>1, <2>2, <2>3, <2>4, <2>5 DEF ClientStep, Announce, Timeout
<1>3. CASE ~HandleCmd /\ ~ClientStep
  <2>1. UNCHANGED <<chan, next_bp_id>>
    BY <1>3 DEF Next, Pump, HandleEvent, OnLoad, OnStep, OnException, OnExit, OnBreakpoint, OnInitialBreak,
         OnUnrelatedBreak, PollEmpty, WaitEmpty, DetachDrain, DetachStop, Debuggee, SessionOver, vars, shared
  <2>2. \A id \in Ids : bps'[id] # None => bps[id] # None /\ bps'[id].addr = bps[id].addr
    BY <1>3, Entries DEF HandleCmd
  <2> QED
    BY <1>0, <2>1, <2>2 DEF ClearInv
<1> QED
  BY <1>1, <1>2, <1>3

LEMMA InitCode == Init => CodeInv
<1> SUFFICES ASSUME Init PROVE CodeInv
  OBVIOUS
<1>1. OriginalInv /\ EnabledInv /\ ArmedInv
  BY DEF Init, OriginalInv, EnabledInv, ArmedInv, Genuine, Int3
<1>2. ClearInv /\ DetachedInv
  BY DEF Init, ClearInv, DetachedInv
<1> QED
  BY <1>1, <1>2 DEF CodeInv

\* Code and table belong together, for a client that clears its own.
THEOREM CodeTogether == ClearsOwn => (Spec => []CodeInv)
<1> SUFFICES ASSUME ClearsOwn PROVE Spec => []CodeInv
  OBVIOUS
<1>1. IInv /\ CodeInv /\ [Next]_vars => CodeInv'
  BY OriginalStep, EnabledStep, ArmedStep, ClearStep, DetachedStep DEF CodeInv
<1> QED
  BY <1>1, InitCode, Inductive, PTL DEF Spec

\* The INT3s of a live debuggee are the table's, and the table would put back
\* the program's own bytes, for a client that clears no oneshot that fired
\* once a new breakpoint was set at its address (handle_cmd, ClearBp).
THEOREM TextOwned == ClearsOwn => (Spec => []TextIsOwned)
<1> SUFFICES ASSUME ClearsOwn PROVE Spec => []TextIsOwned
  OBVIOUS
<1>1. IInv /\ CodeInv => TextIsOwned
  <2> SUFFICES ASSUME IInv, CodeInv PROVE TextIsOwned
    OBVIOUS
  <2>1. ASSUME Alive, NEW a \in BpAddrs, text[a] = Int3
        PROVE  \E id \in Ids : bps[id] # None /\ bps[id].addr = a
    BY <2>1, IndexedIds DEF CodeInv, ArmedInv
  <2> QED
    BY <2>1 DEF TextIsOwned, CodeInv, OriginalInv
<1>2. Spec => []CodeInv
  BY CodeTogether
<1> QED
  BY <1>1, <1>2, Inductive, PTL

\* Detach leaves a live debuggee the code it had, for the same client (Detach,
\* which writes the originals back before it stops debugging).
THEOREM TextRestored == ClearsOwn => (Spec => []DetachRestoresText)
<1> SUFFICES ASSUME ClearsOwn PROVE Spec => []DetachRestoresText
  OBVIOUS
<1>1. IInv /\ CodeInv => DetachRestoresText
  <2> SUFFICES ASSUME IInv, CodeInv, run_state = "Detached", Alive
               PROVE  text = [a \in BpAddrs |-> Genuine]
    BY DEF DetachRestoresText
  <2>1. \A a \in BpAddrs : text[a] = Genuine
    BY DEF CodeInv, ArmedInv, DetachedInv, IInv, TypeOK, DebuggeeTypeOK, Byte
  <2> QED
    BY <2>1 DEF IInv, TypeOK, DebuggeeTypeOK
<1>2. Spec => []CodeInv
  BY CodeTogether
<1> QED
  BY <1>1, <1>2, Inductive, PTL
-----------------------------------------------------------------------------
(* Stops and the instructions under them *)

\* The threads of the program break at breakpoints only.
HitAddrInv ==
  \A i \in 1 .. Len(queue) :
    queue[i].kind = "break" /\ queue[i].tid \in Threads => queue[i].addr \in BpAddrs

\* A breakpoint stop names an entry given out, which is still at the address
\* of the event held, unless it is gone or the hit had lost its own.
NameInv ==
  pending # None /\ last_stop # None /\ last_stop.reason = "breakpoint" =>
    /\ last_stop.bp_id \in Ids /\ last_stop.bp_id < next_bp_id
    /\ bps[last_stop.bp_id] # None =>
         letting \/ bps[last_stop.bp_id].addr = pending.addr \/ pending.tid \in lost

\* A hit not yet taken finds its entry, or has lost it; no other thread ran
\* past an instruction.
HitInv ==
  \A i \in 1 .. Len(queue) :
    queue[i].kind = "break" /\ queue[i].tid \in Threads
      => addr_to_id[queue[i].addr] # None \/ queue[i].tid \in lost

LostInv == overrun \subseteq lost

\* A hit that is queued was queued, or is that of the thread that reached an
\* armed byte.
LEMMA Queued ==
  ASSUME TypeOK, Next \/ UNCHANGED vars,
         NEW i \in 1 .. Len(queue'), queue'[i].kind = "break", queue'[i].tid \in Threads
  PROVE  \/ \E j \in 1 .. Len(queue) : queue[j] = queue'[i]
         \/ Debuggee /\ \E t \in Threads : HitInt3(t) /\ queue'[i].addr = rip[t]
<1>0. ASSUME UNCHANGED queue
      PROVE  \E j \in 1 .. Len(queue) : queue[j] = queue'[i]
  BY <1>0
<1>1. CASE Debuggee
  <2>1. ASSUME NEW e, queue' = Append(queue, e)
        PROVE  (\E j \in 1 .. Len(queue) : queue[j] = queue'[i]) \/ queue'[i] = e
    BY <2>1 DEF TypeOK, DebuggeeTypeOK
  <2>2. ASSUME NEW t \in Threads, HitInt3(t)
        PROVE  (\E j \in 1 .. Len(queue) : queue[j] = queue'[i]) \/ queue'[i].addr = rip[t]
    BY <2>1, <2>2 DEF HitInt3, Raise
  <2>3. ASSUME NEW t \in Threads, Execute(t)
        PROVE  \E j \in 1 .. Len(queue) : queue[j] = queue'[i]
    BY <2>1, <2>3 DEF Execute, Raise
  <2>4. ASSUME NEW t \in Threads, Fault(t)
        PROVE  \E j \in 1 .. Len(queue) : queue[j] = queue'[i]
    BY <2>1, <2>4 DEF Fault, Raise
  <2>5. ASSUME NEW t \in Threads, ExitProcess(t)
        PROVE  \E j \in 1 .. Len(queue) : queue[j] = queue'[i]
    BY <2>1, <2>5 DEF ExitProcess
  <2>6. ASSUME BreakIn PROVE \E j \in 1 .. Len(queue) : queue[j] = queue'[i]
    <3>1. SysThread \in Tids /\ SysThread \notin Threads
      BY ThreadAssumption DEF Tids
    <3>2. CASE UNCHANGED queue
      BY <3>2
    <3>3. CASE Raise(SysThread, "break", None) \/ Raise(SysThread, "step", None)
      BY <2>1, <3>1, <3>3 DEF Raise
    <3> QED
      BY <2>6, <3>2, <3>3 DEF BreakIn
  <2> QED
    BY <1>1, <2>2, <2>3, <2>4, <2>5, <2>6 DEF Debuggee
<1>2. ASSUME queue # <<>>, queue' = Tail(queue)
      PROVE  \E j \in 1 .. Len(queue) : queue[j] = queue'[i]
  <2>1. Len(queue') = Len(queue) - 1 /\ Len(queue) \in Nat
        /\ \A k \in 1 .. Len(queue) - 1 : queue'[k] = queue[k + 1]
    BY <1>2, HeadTailProperties, LenProperties DEF TypeOK, DebuggeeTypeOK
  <2>2. i + 1 \in 1 .. Len(queue) /\ queue[i + 1] = queue'[i]
    BY <2>1
  <2> QED
    BY <2>2
<1>3. CASE HandleEvent \/ DetachDrain
  BY <1>2, <1>3 DEF HandleEvent, DetachDrain, OnLoad, OnStep, OnException, OnExit, OnBreakpoint,
       OnInitialBreak, OnUnrelatedBreak, WaitForDebugEvent
<1>4. CASE ~Debuggee /\ ~HandleEvent /\ ~DetachDrain
  <2>1. UNCHANGED queue
    BY <1>4 DEF Next, Pump, HandleCmd, ContinueHeld, Continue, StepHeld, Step, Told, Pause, SetSoftBp,
         ClearBpById, ClearBpByAddr, Query, SetContext, DetachRestore, ClientStep, Request, Announce, StepOut, SendAnnounced, Timeout,
         Disconnected, PollEmpty, WaitEmpty, DetachStop, SessionOver, vars, debuggee
  <2> QED
    BY <1>0, <1>4, <2>1 DEF HandleEvent
<1> QED
  BY <1>1, <1>3, <1>4

LEMMA HitAddrStep ==
  ASSUME TypeOK, HitAddrInv, Next \/ UNCHANGED vars
  PROVE  HitAddrInv'
<1> SUFFICES ASSUME NEW i \in 1 .. Len(queue'), queue'[i].kind = "break", queue'[i].tid \in Threads
             PROVE  queue'[i].addr \in BpAddrs
  BY DEF HitAddrInv
<1> QED
  BY Queued DEF HitAddrInv, HitInt3, Armed

\* Addresses are numbers.
LEMMA BpNat == \A a \in BpAddrs : a \in Nat
<1>1. \A a \in 0 .. CodeLen - 1 : a \in Nat
  BY CodeAssumption
<1> QED
  BY <1>1, CodeAssumption

\* A hit is looked up at the address reported and the one before it; the
\* INT3's own is one of the two, and the first of them unless the exception
\* address is its own.
LEMMA LookedUp ==
  ASSUME IInv, NEW e, e.tid \in Threads, e.addr \in BpAddrs
  PROVE  /\ HitOf(e) = None => addr_to_id[e.addr] = None
         /\ HitOf(e) # None =>
              /\ HitOf(e) \in Ids /\ HitOf(e) < next_bp_id
              /\ bps[HitOf(e)] # None /\ bps[HitOf(e)].addr \in BpAddrs
              /\ bps[HitOf(e)].addr = e.addr \/ addr_to_id[e.addr] = None \/ Beside(e)
<1>1. e.addr \in Nat /\ e.tid # SysThread
  BY BpNat, ThreadAssumption
<1> DEFINE back == IF Reported(e) = 0 THEN 0 ELSE Reported(e) - 1
<1>2. /\ back \in Nat /\ Reported(e) \in Nat /\ Reported(e) \in {back, back + 1}
      /\ e.addr \in {back, Reported(e)} /\ (ReportAfter => e.addr = back)
      /\ (~ReportAfter => e.addr = Reported(e))
  BY <1>1 DEF Reported
<1>3. HitOf(e) = IF IndexAt(back) # None THEN IndexAt(back) ELSE IndexAt(Reported(e))
  BY <1>1, <1>2 DEF HitOf, Lookup
<1>4. ASSUME NEW a \in Nat, IndexAt(a) # None
      PROVE  /\ a \in BpAddrs /\ IndexAt(a) = addr_to_id[a] /\ addr_to_id[a] # None
             /\ IndexAt(a) \in Ids /\ IndexAt(a) < next_bp_id
             /\ bps[IndexAt(a)] # None /\ bps[IndexAt(a)].addr = a
  BY <1>4, IndexedIds DEF IndexAt
<1>5. CASE IndexAt(back) # None
  <2>1. bps[HitOf(e)].addr = back
    BY <1>2, <1>3, <1>4, <1>5
  <2>2. back # e.addr => Beside(e)
    <3>1. back # e.addr => Reported(e) = back + 1
      BY <1>2
    <3> QED
      BY <1>2, <1>4, <1>5, <3>1 DEF Beside
  <2> QED
    BY <1>2, <1>3, <1>4, <1>5, <2>1, <2>2
<1>6. CASE IndexAt(back) = None /\ IndexAt(Reported(e)) # None
  <2>1. bps[HitOf(e)].addr = Reported(e)
    BY <1>2, <1>3, <1>4, <1>6
  <2>2. Reported(e) # e.addr => addr_to_id[e.addr] = None
    BY <1>2, <1>6 DEF IndexAt
  <2> QED
    BY <1>2, <1>3, <1>4, <1>6, <2>1, <2>2
<1>7. CASE IndexAt(back) = None /\ IndexAt(Reported(e)) = None
  BY <1>2, <1>3, <1>7 DEF IndexAt
<1> QED
  BY <1>5, <1>6, <1>7

\* The event taken as a breakpoint is a thread's, at an address of the code.
LEMMA HitTaken ==
  ASSUME IInv, HitAddrInv, OnBreakpoint
  PROVE  LET e == Head(queue) IN
           /\ e = queue[1] /\ 1 \in 1 .. Len(queue)
           /\ e.kind = "break" /\ e.tid \in Threads /\ e.addr \in BpAddrs /\ HitOf(e) # None
<1> DEFINE e == Head(queue)
<1>1. e.tid \in Tids /\ e.kind = "break" /\ HitOf(e) # None
  BY WaitType DEF OnBreakpoint, IInv, TypeOK
<1>2. e.tid \in Threads
  BY <1>1 DEF HitOf, Tids
<1>3. e = queue[1] /\ 1 \in 1 .. Len(queue)
  BY EmptySeq, LenProperties DEF OnBreakpoint, WaitForDebugEvent, IInv, TypeOK, DebuggeeTypeOK
<1> QED
  BY <1>1, <1>2, <1>3 DEF HitAddrInv

\* A hit that lost its breakpoint has lost it until its thread runs again.
LEMMA LostStays ==
  ASSUME Next \/ UNCHANGED vars
  PROVE  \/ lost \subseteq lost'
         \/ \E t \in Threads : /\ HitInt3(t) /\ ts[t] = "running"
                              /\ lost' = lost \ {t} /\ overrun' = overrun \ {t}
<1>1. CASE Debuggee
  BY <1>1 DEF Debuggee, HitInt3, Execute, Fault, ExitProcess, BreakIn, skipped
<1>2. CASE HandleCmd
  <2>1. CASE ContinueHeld \/ Continue \/ StepHeld \/ Step \/ Told \/ Pause \/ SetSoftBp \/ Query
               \/ SetContext \/ DetachRestore
    BY <2>1 DEF ContinueHeld, Continue, StepHeld, Step, Told, Pause, SetSoftBp, Query, SetContext,
         DetachRestore, history, skipped
  <2>2. CASE ClearBpById \/ ClearBpByAddr
    BY <2>2 DEF ClearBpById, ClearBpByAddr, Clear
  <2> QED
    BY <1>2, <2>1, <2>2 DEF HandleCmd
<1>3. CASE HandleEvent
  BY <1>3 DEF HandleEvent, OnLoad, OnStep, OnException, OnExit, OnBreakpoint, OnInitialBreak,
       OnUnrelatedBreak, skipped
<1>4. CASE ClientStep
  BY <1>4 DEF ClientStep, Request, Announce, StepOut, SendAnnounced, Timeout, Disconnected, history, skipped
<1>5. CASE PollEmpty \/ WaitEmpty \/ DetachDrain \/ DetachStop \/ SessionOver \/ UNCHANGED vars
  BY <1>5 DEF PollEmpty, WaitEmpty, DetachDrain, DetachStop, SessionOver, vars, history, skipped
<1> QED
  BY <1>1, <1>2, <1>3, <1>4, <1>5 DEF Next, Pump

\* A stop keeps the name of its breakpoint.
LEMMA NameStep ==
  ASSUME IInv, CodeInv, HitAddrInv, HitInv, NameInv, Next \/ UNCHANGED vars
  PROVE  NameInv'
<1>1. CASE UNCHANGED <<pending, last_stop>> /\ (letting => letting')
  <2> SUFFICES ASSUME pending # None, last_stop # None, last_stop.reason = "breakpoint"
               PROVE  /\ last_stop.bp_id \in Ids /\ last_stop.bp_id < next_bp_id'
                      /\ bps'[last_stop.bp_id] # None =>
                           letting' \/ bps'[last_stop.bp_id].addr = pending.addr \/ pending.tid \in lost'
    BY <1>1 DEF NameInv
  <2>1. next_bp_id \in Nat /\ last_stop.bp_id \in Nat
    BY DEF NameInv, IInv, TypeOK, SharedTypeOK, Ids
  <2>2. letting \/ lost \subseteq lost'
    BY LostStays DEF HitInt3, Free
  <2> QED
    BY <1>1, <2>1, <2>2, Entries DEF NameInv
<1>2. CASE pending' = None \/ last_stop' = None
  BY <1>2 DEF NameInv
<1>3. CASE OnBreakpoint
  <2> DEFINE e == Head(queue)  id == HitOf(e)
  <2>1. /\ id \in Ids /\ id < next_bp_id /\ bps[id] # None
        /\ bps[id].addr = e.addr \/ addr_to_id[e.addr] = None \/ Beside(e)
        /\ e.tid \in Threads /\ e = queue[1] /\ 1 \in 1 .. Len(queue) /\ e.kind = "break"
    BY <1>3, HitTaken, LookedUp
  <2>2. pending' = e /\ last_stop'.bp_id = id /\ UNCHANGED next_bp_id
    BY <1>3 DEF OnBreakpoint, Stop
  <2>3. bps'[id] # None => bps'[id].addr = bps[id].addr
    <3>1. id # next_bp_id
      BY <2>1 DEF IInv, TypeOK, SharedTypeOK, Ids
    <3> QED
      BY <2>1, <3>1, Entries
  <2>4. bps[id].addr = e.addr \/ e.tid \in lost'
    <3>1. lost \subseteq lost' /\ (Beside(e) => e.tid \in lost')
      BY <1>3 DEF OnBreakpoint
    <3>2. addr_to_id[e.addr] = None => e.tid \in lost
      BY <2>1 DEF HitInv
    <3> QED
      BY <2>1, <3>1, <3>2
  <2> QED
    BY <2>1, <2>2, <2>3, <2>4 DEF NameInv
<1>4. CASE OnStep \/ OnException \/ OnExit \/ OnInitialBreak
  <2>1. PICK reason \in StopReasons \ {"breakpoint"} : Stop(reason, None)
    BY <1>4 DEF OnStep, OnException, OnExit, OnInitialBreak, StopReasons
  <2> QED
    BY <2>1 DEF Stop, NameInv
<1>5. CASE ContinueHeld \/ Continue \/ StepHeld \/ Step \/ Told \/ DetachRestore
  BY <1>1, <1>2, <1>5 DEF ContinueHeld, Continue, StepHeld, Step, Told, LetGo, DetachRestore, shared
<1>6. CASE ClientStep
  BY <1>1, <1>2, <1>6 DEF ClientStep, Request, Announce, StepOut, SendAnnounced, Timeout, Disconnected,
       local, shared
<1>7. CASE Pause \/ SetSoftBp \/ ClearBpById \/ ClearBpByAddr \/ Query \/ SetContext
            \/ OnLoad \/ OnUnrelatedBreak
  BY <1>1, <1>7 DEF Pause, SetSoftBp, ClearBpById, ClearBpByAddr, Query, SetContext, OnLoad,
       OnUnrelatedBreak, PassOn, local, shared
<1>8. CASE Debuggee \/ PollEmpty \/ WaitEmpty \/ DetachDrain \/ DetachStop \/ SessionOver \/ UNCHANGED vars
  BY <1>1, <1>8 DEF Debuggee, PollEmpty, WaitEmpty, DetachDrain, DetachStop, SessionOver, vars, local, shared
<1> QED
  BY <1>3, <1>4, <1>5, <1>6, <1>7, <1>8 DEF Next, Pump, HandleCmd, HandleEvent

\* When an address leaves the index, with its entry or as a oneshot is hit,
\* the hits of it that are queued are marked.
LEMMA IndexStays ==
  ASSUME IInv, Next \/ UNCHANGED vars, NEW a \in BpAddrs, addr_to_id[a] # None, addr_to_id'[a] = None
  PROVE  HitsAt(a, queue') \subseteq lost'
<1>1. ASSUME NEW id, Clear(id), UNCHANGED queue PROVE HitsAt(a, queue') \subseteq lost'
  <2>1. ~(id = None \/ bps[id] = None)
    BY <1>1 DEF Clear, table
  <2>2. addr_to_id' = [addr_to_id EXCEPT ![bps[id].addr] = None] /\ lost' = lost \cup HitsAt(bps[id].addr, queue)
    BY <1>1, <2>1 DEF Clear
  <2>3. bps[id].addr = a
    BY <2>2 DEF IInv, TypeOK, TableTypeOK
  <2> QED
    BY <1>1, <2>2, <2>3
<1>2. CASE ClearBpById \/ ClearBpByAddr
  BY <1>1, <1>2 DEF ClearBpById, ClearBpByAddr
<1>3. CASE SetSoftBp
  BY <1>3, Setting, NoneAssumption DEF Created, IInv, TypeOK, TableTypeOK
<1>4. CASE OnBreakpoint
  <2> DEFINE bp == bps[HitOf(Head(queue))]
  <2>1. bp.oneshot /\ addr_to_id' = [addr_to_id EXCEPT ![bp.addr] = None]
    BY <1>4 DEF OnBreakpoint
  <2>2. bp.addr = a
    BY <2>1 DEF IInv, TypeOK, TableTypeOK
  <2> QED
    BY <1>4, <2>1, <2>2 DEF OnBreakpoint
<1>5. CASE DetachRestore
  BY <1>5 DEF DetachRestore
<1>6. CASE Continue \/ ContinueHeld \/ LeavesTable
  BY <1>6, TableLeft DEF Continue, ContinueHeld, table, IInv
<1> QED
  BY <1>2, <1>3, <1>4, <1>5, <1>6, StepsOfTable

\* A hit in the queue keeps its entry, or is marked.
LEMMA HitStep ==
  ASSUME IInv, CodeInv, HitAddrInv, HitInv, Next \/ UNCHANGED vars
  PROVE  HitInv'
<1> SUFFICES ASSUME NEW i \in 1 .. Len(queue'), queue'[i].kind = "break", queue'[i].tid \in Threads
             PROVE  addr_to_id'[queue'[i].addr] # None \/ queue'[i].tid \in lost'
  BY DEF HitInv
<1> DEFINE t == queue'[i].tid  a == queue'[i].addr
<1>1. ASSUME NEW j \in 1 .. Len(queue), queue[j] = queue'[i]
      PROVE  addr_to_id'[a] # None \/ t \in lost'
  <2>1. a \in BpAddrs /\ (addr_to_id[a] # None \/ t \in lost)
    BY <1>1 DEF HitAddrInv, HitInv
  <2>2. ts[t] = "stuck"
    BY <1>1 DEF IInv, QueueInv
  <2>3. t \in HitsAt(a, queue')
    BY DEF HitsAt
  <2>4. t \in lost => t \in lost'
    BY <2>2, LostStays
  <2> QED
    BY <2>1, <2>3, <2>4, IndexStays
<1>2. ASSUME NEW u \in Threads, HitInt3(u), Debuggee, a = rip[u]
      PROVE  addr_to_id'[a] # None
  <2>1. Alive /\ rip[u] \in BpAddrs /\ text[rip[u]] = Int3 /\ UNCHANGED addr_to_id
    BY <1>2 DEF HitInt3, Armed, Alive, Debuggee, table
  <2> QED
    BY <1>2, <2>1 DEF CodeInv, ArmedInv
<1> QED
  BY <1>1, <1>2, Queued DEF IInv

\* A thread runs past an instruction only with its hit marked.
LEMMA LostStep ==
  ASSUME IInv, CodeInv, HitAddrInv, HitInv, LostInv, Next \/ UNCHANGED vars
  PROVE  LostInv'
<1> DEFINE e == Head(queue)
<1> USE DEF LostInv
<1>0. CASE UNCHANGED overrun
  BY <1>0, LostStays
<1>1. ASSUME queue # <<>>, RunsOn(e)
      PROVE  /\ e.tid \in Threads /\ e.addr \in BpAddrs
             /\ addr_to_id[e.addr] # None \/ e.tid \in lost
  <2>1. e = queue[1] /\ 1 \in 1 .. Len(queue)
    BY <1>1, EmptySeq, LenProperties DEF IInv, TypeOK, DebuggeeTypeOK
  <2> QED
    BY <1>1, <2>1 DEF RunsOn, HitAddrInv, HitInv
<1>2. ASSUME queue # <<>>, Serve(e), lost \subseteq lost', RunsOn(e) => e.tid \in lost'
      PROVE  LostInv'
  BY <1>2 DEF Serve
<1>3. CASE OnBreakpoint
  <2> DEFINE b == bps[HitOf(e)].addr
  <2>1. /\ e.tid \in Threads /\ e.addr \in BpAddrs /\ HitOf(e) # None
        /\ b = e.addr \/ addr_to_id[e.addr] = None \/ Beside(e)
    BY <1>3, HitTaken, LookedUp
  <2>2. rip' = BackedUp(e, b) /\ Serve(e) /\ queue # <<>> /\ lost \subseteq lost'
        /\ (Beside(e) => e.tid \in lost')
    BY <1>3 DEF OnBreakpoint, WaitForDebugEvent
  <2>3. ASSUME b = e.addr PROVE ~RunsOn(e)
    <3>1. e.addr \in Nat
      BY <2>1, BpNat
    <3>2. rip'[e.tid] # e.addr + 1
      BY <2>1, <2>2, <2>3, <3>1 DEF BackedUp, IInv, TypeOK, DebuggeeTypeOK
    <3> QED
      BY <3>2 DEF RunsOn
  <2> QED
    BY <1>1, <1>2, <2>1, <2>2, <2>3
<1>4. CASE OnInitialBreak \/ OnUnrelatedBreak
  <2>1. queue # <<>> /\ HitOf(e) = None /\ Serve(e) /\ UNCHANGED lost
    BY <1>4 DEF OnInitialBreak, OnUnrelatedBreak, WaitForDebugEvent
  <2> QED
    BY <1>1, <1>2, <2>1, LookedUp
<1>5. CASE DetachDrain
  <2>1. queue # <<>> /\ pc = "drain" /\ Serve(e) /\ UNCHANGED lost
    BY <1>5 DEF DetachDrain
  <2> QED
    BY <1>1, <1>2, <2>1 DEF CodeInv, DetachedInv
<1>6. CASE Debuggee
  <2>1. UNCHANGED overrun \/ \E t \in Threads : HitInt3(t)
    BY <1>6 DEF Debuggee, Execute, Fault, ExitProcess, BreakIn, skipped
  <2>2. ASSUME NEW t \in Threads, HitInt3(t) PROVE LostInv'
    BY <2>2 DEF HitInt3
  <2> QED
    BY <1>0, <2>1, <2>2
<1>7. CASE ClientStep \/ HandleCmd \/ OnLoad \/ OnStep \/ OnException \/ OnExit
            \/ PollEmpty \/ WaitEmpty \/ DetachStop \/ SessionOver \/ UNCHANGED vars
  <2>1. UNCHANGED overrun
    BY <1>7 DEF ClientStep, HandleCmd, ContinueHeld, Continue, StepHeld, Step, Told, Pause, SetSoftBp,
         ClearBpById, ClearBpByAddr, Query, SetContext, DetachRestore, Request, Announce, StepOut,
         SendAnnounced, Timeout, Disconnected, OnLoad, OnStep, OnException, OnExit, PollEmpty, WaitEmpty,
         DetachStop, SessionOver, vars, history, skipped
  <2> QED
    BY <1>0, <2>1
<1> QED
  BY <1>3, <1>4, <1>5, <1>6, <1>7 DEF Next, Pump, HandleEvent

LEMMA InitHits == Init => HitAddrInv /\ NameInv /\ HitInv /\ LostInv
<1> SUFFICES ASSUME Init PROVE HitAddrInv /\ NameInv /\ HitInv /\ LostInv
  OBVIOUS
<1>1. Len(queue) = 1 /\ queue[1].kind = "load" /\ pending = None /\ overrun = {}
  BY DEF Init
<1> QED
  BY <1>1 DEF HitAddrInv, NameInv, HitInv, LostInv

\* A breakpoint stop names the breakpoint the thread ran into, but of a hit
\* that lost it in the queue or has one on the byte before, for any addresses
\* and any threads; entries are cleared, and their addresses set again, while
\* the stop is held (handle_event).
THEOREM StopsNamed == ClearsOwn => (Spec => []StopNamesItsBreakpoint)
<1> SUFFICES ASSUME ClearsOwn PROVE Spec => []StopNamesItsBreakpoint
  OBVIOUS
<1>1. Spec => []CodeInv
  BY CodeTogether
<1>2. IInv /\ CodeInv /\ HitAddrInv /\ HitInv /\ NameInv /\ [Next]_vars
        => HitAddrInv' /\ HitInv' /\ NameInv'
  BY HitAddrStep, HitStep, NameStep DEF IInv
<1>3. NameInv => StopNamesItsBreakpoint
  BY DEF NameInv, StopNamesItsBreakpoint
<1> QED
  BY <1>1, <1>2, <1>3, InitHits, Inductive, PTL DEF Spec

\* No thread is resumed past an instruction under a breakpoint that it never
\* executed, unless its hit lost the breakpoint while it was queued (cleared,
\* detached, a oneshot fired by another thread) or was taken for that of the
\* byte before, whatever contexts are set and steps are made (handle_event,
\* which backs the program counter up, and Detach, which drains).
THEOREM NothingSkipped == ClearsOwn => (Spec => []NoInstructionSkipped)
<1> SUFFICES ASSUME ClearsOwn PROVE Spec => []NoInstructionSkipped
  OBVIOUS
<1>1. Spec => []CodeInv
  BY CodeTogether
<1>2. IInv /\ CodeInv /\ HitAddrInv /\ HitInv /\ LostInv /\ [Next]_vars
        => HitAddrInv' /\ HitInv' /\ LostInv'
  BY HitAddrStep, HitStep, LostStep DEF IInv
<1>3. LostInv => NoInstructionSkipped
  BY DEF LostInv, NoInstructionSkipped
<1> QED
  BY <1>1, <1>2, <1>3, InitHits, Inductive, PTL DEF Spec

-----------------------------------------------------------------------------
(* Running *)

Detaching == [at |-> "waiting", cmd |-> DetachCmd]

\* A detach is the client's last call.
CallInv ==
  /\ \A i \in 1 .. Len(chan) : chan[i].op = "detach" => i = Len(chan) /\ client = Detaching
  /\ pc = "drain" => client = Detaching /\ Len(chan) = 0

\* A debuggee that is held while Running is shown is about to be continued or
\* stepped, or a step was refused.
Resuming == \E i \in 1 .. Len(chan) : chan[i].op \in {"continue", "step"}

RunInv ==
  stopped /\ run_state = "Running" /\ pc \in {"poll", "wait"} =>
    refused \/ client.at = "announced" \/ Resuming

\* A command sent keeps to the order of calls.
LEMMA CallSend ==
  ASSUME TypeOK, CallInv, client \in {Idle} \cup [at : {"announced"}, cmd : PumpCmd], UNCHANGED pc,
         NEW at \in {"waiting", "step_out"}, NEW c \in PumpCmd, Send(at, c),
         c.op = "detach" => at = "waiting" /\ c = DetachCmd
  PROVE  CallInv'
<1>1. client # Detaching
  BY DEF Idle, Detaching
<1>2. pc # "drain" /\ \A i \in 1 .. Len(chan) : chan[i].op # "detach"
  BY <1>1 DEF CallInv
<1>3. CASE chan' = chan
  BY <1>2, <1>3 DEF CallInv
<1>4. CASE chan' = Append(chan, c) /\ client' = [at |-> at, cmd |-> c]
  <2>1. Len(chan') = Len(chan) + 1 /\ Len(chan) \in Nat
        /\ \A i \in 1 .. Len(chan) + 1 : chan'[i] = IF i <= Len(chan) THEN chan[i] ELSE c
    BY <1>4 DEF TypeOK, ClientTypeOK
  <2>2. c.op = "detach" => client' = Detaching
    BY <1>4 DEF Detaching
  <2> QED
    BY <1>2, <2>1, <2>2 DEF CallInv
<1> QED
  BY <1>3, <1>4 DEF Send

\* A command taken from the channel.
Taken == chan # <<>> /\ chan' = Tail(chan)

\* A command received and answered keeps to the order of calls too.
LEMMA CallReceive ==
  ASSUME TypeOK, CallInv, Taken, pc' # "drain", NEW ok, Reply(ok)
  PROVE  CallInv'
<1>1. Len(chan') = Len(chan) - 1 /\ Len(chan) \in Nat \ {0}
      /\ \A i \in 1 .. Len(chan) - 1 : chan'[i] = chan[i + 1]
  BY HeadTailProperties, LenProperties, EmptySeq DEF Taken, TypeOK, ClientTypeOK
<1>4. ASSUME NEW i \in 1 .. Len(chan') PROVE i + 1 \in 1 .. Len(chan) /\ chan'[i] = chan[i + 1]
  BY <1>1
<1>5. ASSUME NEW i \in 1 .. Len(chan'), chan'[i].op = "detach"
      PROVE  i = Len(chan') /\ client' = Detaching
  <2>1. i + 1 = Len(chan) /\ client = Detaching
    BY <1>4, <1>5 DEF CallInv
  <2>2. Len(chan) > 1
    BY <1>1, <2>1
  <2>3. client' = client
    BY <2>2 DEF Reply
  <2> QED
    BY <1>1, <2>1, <2>3
<1> QED
  BY <1>4, <1>5 DEF CallInv

LEMMA CallStep ==
  ASSUME TypeOK, AnnouncedInv, HeldInv, CallInv, Next \/ UNCHANGED vars
  PROVE  CallInv'
<1>0. ASSUME UNCHANGED <<client, chan>>, pc' = "drain" => pc = "drain" PROVE CallInv'
  BY <1>0 DEF CallInv
<1>1. CASE ClientStep
  <2>1. ASSUME NEW c \in PumpCmd, Request(c) PROVE CallInv'
    <3>1. c.op = "detach" => c = DetachCmd
      BY DEF PumpCmd, ContinueCmd, PauseCmd, QueryCmd, DetachCmd
    <3> QED
      BY <2>1, <3>1, CallSend DEF Request
  <2>2. ASSUME NEW c \in PumpCmd, Announce(c) PROVE CallInv'
    <3>1. client # Detaching /\ UNCHANGED <<pc, chan>>
      BY <2>2 DEF Announce, Idle, Landing, Detaching
    <3> QED
      BY <3>1 DEF CallInv
  <2>3. ASSUME NEW a \in BpAddrs, StepOut(a) PROVE CallInv'
    <3>1. [op |-> "set_bp", addr |-> a, oneshot |-> TRUE] \in PumpCmd
      BY DEF PumpCmd
    <3> QED
      BY <2>3, <3>1, CallSend DEF StepOut
  <2>4. CASE SendAnnounced
    <3>1. client \in [at : {"announced"}, cmd : PumpCmd] /\ client.cmd \in PumpCmd
      BY <2>4 DEF SendAnnounced, TypeOK, ClientTypeOK, Client, Idle, Done, Landing
    <3>2. client.cmd.op # "detach"
      BY <2>4 DEF SendAnnounced, AnnouncedInv
    <3> QED
      BY <2>4, <3>1, <3>2, CallSend DEF SendAnnounced
  <2>5. CASE Timeout
    <3>1. client # Detaching /\ UNCHANGED <<pc, chan>>
      BY <2>5 DEF Timeout, Detaching
    <3> QED
      BY <3>1 DEF CallInv
  <2>6. CASE Disconnected
    <3>1. Len(chan') = 0 /\ pc' = "dead"
      BY <2>6 DEF Disconnected
    <3> QED
      BY <3>1 DEF CallInv
  <2> QED
    BY <1>1, <2>1, <2>2, <2>3, <2>4, <2>5, <2>6 DEF ClientStep
<1>2. CASE HandleCmd /\ ~DetachRestore
  <2>1. CASE ContinueHeld \/ StepHeld
    BY <1>0, <2>1 DEF ContinueHeld, StepHeld
  <2>2. CASE ~(ContinueHeld \/ StepHeld)
    <3>1. PICK ok : Taken /\ NextIteration /\ Reply(ok)
      BY <1>2, <2>2 DEF HandleCmd, Continue, Step, Told, Pause, SetSoftBp, ClearBpById, ClearBpByAddr,
           Query, SetContext, Receive, Serving, HeldInv, Taken
    <3>2. pc' # "drain"
      BY <3>1 DEF NextIteration
    <3> QED
      BY <3>1, <3>2, CallReceive
  <2> QED
    BY <2>1, <2>2
<1>3. CASE DetachRestore
  <2>1. Len(chan) \in Nat \ {0} /\ Head(chan) = chan[1] /\ chan[1].op = "detach"
    BY <1>3, EmptySeq DEF DetachRestore, Receive, Serving, TypeOK, ClientTypeOK
  <2>2. 1 = Len(chan) /\ client = Detaching
    <3>1. 1 \in 1 .. Len(chan)
      BY <2>1
    <3> QED
      BY <2>1, <3>1, Zenon DEF CallInv
  <2>3. Len(chan') = 0 /\ client' = Detaching
    BY <1>3, <2>2, HeadTailProperties DEF DetachRestore, Receive, Serving, TypeOK, ClientTypeOK
  <2> QED
    BY <2>3 DEF CallInv
<1>4. CASE HandleEvent
  BY <1>0, <1>4 DEF HandleEvent, OnLoad, OnStep, OnException, OnExit, OnBreakpoint, OnInitialBreak,
       OnUnrelatedBreak, WaitForDebugEvent
<1>5. CASE DetachStop
  <2>1. Len(chan) = 0
    BY <1>5 DEF DetachStop, CallInv
  <2> QED
    BY <1>5, <2>1 DEF DetachStop, CallInv
<1>6. CASE Debuggee \/ PollEmpty \/ WaitEmpty \/ DetachDrain \/ SessionOver \/ UNCHANGED vars
  BY <1>0, <1>6 DEF Debuggee, PollEmpty, WaitEmpty, DetachDrain, SessionOver, vars
<1> QED
  BY <1>1, <1>2, <1>3, <1>4, <1>5, <1>6 DEF Next, Pump
\* A continue or a step under way stays so until it is served.
LEMMA RunStep ==
  ASSUME IInv, RunInv, Next \/ UNCHANGED vars
  PROVE  RunInv'
<1> DEFINE waiting == client.at = "announced" \/ Resuming
<1>1. ASSUME UNCHANGED <<stopped, run_state, refused>>, pc' \in {"poll", "wait"} => pc \in {"poll", "wait"},
             waiting => waiting'
      PROVE  RunInv'
  BY <1>1 DEF RunInv
<1>2. CASE ClientStep
  <2>1. UNCHANGED <<stopped, pc, refused>>
    BY <1>2 DEF ClientStep, Request, Announce, StepOut, SendAnnounced, Timeout, Disconnected, local, history
  <2>2. ASSUME NEW c \in PumpCmd, Announce(c) PROVE RunInv'
    BY <2>2 DEF Announce, RunInv
  <2>3. ASSUME NEW at, NEW c, Send(at, c), client.at = "announced" => c.op \in {"continue", "step"},
               pc \in {"poll", "wait"}, waiting
        PROVE  Resuming'
    <3>1. chan' = Append(chan, c)
      BY <2>3 DEF Send
    <3>2. Len(chan') = Len(chan) + 1 /\ Len(chan) \in Nat
          /\ \A i \in 1 .. Len(chan) + 1 : chan'[i] = IF i <= Len(chan) THEN chan[i] ELSE c
      BY <3>1 DEF IInv, TypeOK, ClientTypeOK
    <3>3. CASE client.at = "announced"
      <4>1. chan'[Len(chan')].op \in {"continue", "step"} /\ Len(chan') \in 1 .. Len(chan')
        BY <2>3, <3>2, <3>3
      <4> QED
        BY <4>1 DEF Resuming
    <3>4. ASSUME Resuming PROVE Resuming'
      BY <3>2, <3>4 DEF Resuming
    <3> QED
      BY <2>3, <3>3, <3>4
  <2>4. ASSUME NEW at, NEW c, Send(at, c), client.at = "announced" => c.op \in {"continue", "step"},
               UNCHANGED run_state
        PROVE  RunInv'
    BY <2>1, <2>3, <2>4 DEF RunInv
  <2>5. ASSUME NEW c \in PumpCmd, Request(c) PROVE RunInv'
    BY <2>4, <2>5 DEF Request, Idle, shared
  <2>6. ASSUME NEW a \in BpAddrs, StepOut(a) PROVE RunInv'
    BY <2>4, <2>6 DEF StepOut, Idle, shared
  <2>7. CASE SendAnnounced
    BY <2>4, <2>7 DEF SendAnnounced, IInv, AnnouncedInv, shared
  <2>8. CASE Timeout
    BY <1>1, <2>8 DEF Timeout, local, shared, history, Resuming
  <2>9. CASE Disconnected
    BY <2>9 DEF Disconnected, RunInv
  <2> QED
    BY <1>2, <2>2, <2>5, <2>6, <2>7, <2>8, <2>9 DEF ClientStep
<1>3. CASE Continue \/ Step \/ Told
  <2>1. CASE Continue
    <3>1. ~stopped' \/ (pending = None /\ stopped' = stopped)
      BY <2>1 DEF Continue, TellRunning
    <3>2. pc \in {"poll", "wait"}
      BY <2>1 DEF Continue, Receive, Serving
    <3> QED
      BY <3>1, <3>2 DEF IInv, HeldInv, RunInv
  <2>2. CASE Step
    <3> DEFINE found == Exists(Head(chan).tid)
    <3>1. stopped' => refused'
      <4>1. found => stopped' = FALSE
        BY <2>2 DEF Step, TellRunning
      <4>2. ~found => refused' = stopped /\ stopped' = stopped
        BY <2>2 DEF Step
      <4>3. stopped = TRUE \/ stopped = FALSE
        BY DEF IInv, TypeOK, LocalTypeOK
      <4> HIDE DEF found
      <4>4. stopped' = FALSE \/ refused' = TRUE
        BY <4>1, <4>2, <4>3, Zenon
      <4> QED
        BY <4>4, Zenon
    <3> QED
      BY <3>1 DEF RunInv
  <2>3. CASE Told
    BY <2>3 DEF Told, TellRunning, RunInv
  <2> QED
    BY <1>3, <2>1, <2>2, <2>3
<1>4. CASE Pause \/ SetSoftBp \/ ClearBpById \/ ClearBpByAddr \/ Query \/ SetContext
  <2>1. PICK op \in {"pause", "set_bp", "clear_id", "clear_addr", "query", "set_context"}, ok \in BOOLEAN :
          Receive(op) /\ Reply(ok)
    BY <1>4 DEF Pause, SetSoftBp, ClearBpById, ClearBpByAddr, Query, SetContext, Alive, Exists
  <2>2. pc \in {"poll", "wait"} /\ UNCHANGED <<stopped, run_state, refused>>
    BY <1>4 DEF Pause, SetSoftBp, ClearBpById, ClearBpByAddr, Query, SetContext, Receive, Serving, local,
         shared, history
  <2>3. client.at = "announced" => client' = client
    BY <2>1 DEF Reply
  <2>4. ASSUME NEW i \in 1 .. Len(chan), chan[i].op \in {"continue", "step"}
        PROVE  Resuming'
    <3>1. Len(chan') = Len(chan) - 1 /\ Len(chan) \in Nat \ {0} /\ Head(chan) = chan[1]
          /\ \A k \in 1 .. Len(chan) - 1 : chan'[k] = chan[k + 1]
      BY <2>1, HeadTailProperties, LenProperties, EmptySeq DEF Receive, Serving, IInv, TypeOK, ClientTypeOK
    <3>2. i # 1
      BY <2>1, <2>4, <3>1 DEF Receive, Serving
    <3>3. i - 1 \in 1 .. Len(chan') /\ chan'[i - 1] = chan[i]
      BY <3>1, <3>2
    <3> QED
      BY <2>4, <3>3 DEF Resuming
  <2> QED
    BY <1>1, <2>2, <2>3, <2>4 DEF Resuming
<1>5. CASE DetachRestore
  BY <1>5 DEF DetachRestore, RunInv
<1>6. CASE OnStep \/ OnException \/ OnExit \/ OnBreakpoint \/ OnInitialBreak
  <2>1. run_state' # "Running"
    BY <1>6 DEF OnStep, OnException, OnExit, OnBreakpoint, OnInitialBreak, Stop
  <2> QED
    BY <2>1 DEF RunInv
<1>7. CASE OnLoad \/ OnUnrelatedBreak
  <2>1. ~stopped'
    BY <1>7 DEF OnLoad, OnUnrelatedBreak, WaitForDebugEvent, PassOn
  <2> QED
    BY <2>1 DEF RunInv
<1>8. CASE Debuggee \/ PollEmpty \/ WaitEmpty \/ DetachDrain \/ SessionOver \/ UNCHANGED vars
            \/ ContinueHeld \/ StepHeld
  <2>1. /\ UNCHANGED <<stopped, run_state, refused, client, chan>>
        /\ pc' \in {"poll", "wait"} => pc \in {"poll", "wait"}
    BY <1>8 DEF Debuggee, PollEmpty, WaitEmpty, DetachDrain, SessionOver, vars, ContinueHeld, StepHeld,
         local, shared, history
  <2> QED
    BY <1>1, <2>1 DEF Resuming
<1>9. CASE DetachStop
  BY <1>9 DEF DetachStop, RunInv
<1> QED
  BY <1>2, <1>3, <1>4, <1>5, <1>6, <1>7, <1>8, <1>9 DEF Next, Pump, HandleCmd, HandleEvent

LEMMA InitCalls == Init => CallInv /\ RunInv
<1> SUFFICES ASSUME Init PROVE CallInv /\ RunInv
  OBVIOUS
<1>1. Len(chan) = 0 /\ client = Idle /\ pc = "poll" /\ stopped = FALSE
  BY DEF Init
<1> QED
  BY <1>1 DEF CallInv, RunInv

\* A client that reads Running, with no call of its own under way, has a
\* debuggee that runs, unless a step was refused: what continue_exec and the
\* steps write before they send is made true by the command behind it.
THEOREM RunningIsFree == Spec => []RunningIsNotHeld
<1>1. IInv /\ CallInv /\ RunInv /\ [Next]_vars => CallInv' /\ RunInv'
  BY CallStep, RunStep DEF IInv
<1>2. IInv /\ CallInv /\ RunInv => RunningIsNotHeld
  <2> SUFFICES ASSUME IInv, CallInv, RunInv, run_state = "Running", client = Idle, chan = <<>>, pc # "dead"
               PROVE  ~stopped \/ refused
    BY DEF RunningIsNotHeld
  <2>1. Len(chan) = 0 /\ client.at = "idle" /\ client # Detaching
    BY DEF Idle, Detaching
  <2>2. pc \in {"poll", "wait"}
    BY <2>1 DEF CallInv, IInv, TypeOK, LocalTypeOK
  <2> QED
    BY <2>1, <2>2 DEF RunInv, Resuming
<1> QED
  BY <1>1, <1>2, InitCalls, Inductive, PTL DEF Spec
=============================================================================
