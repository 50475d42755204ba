# Verification of Ghidrust

TLA+ models of Ghidrust, the TLC configurations that check them on small instances, and theorems about them that the TLA+
proof system checks for every instance. Paths below are relative to `src/crates/`; `core` stands for `ghidrust-core/src`,
`gui` for `ghidrust-gui/src`.

Modelled are the subsystems in which state is shared, steps interleave or an algorithm has a definition it can be held
against, and in which a unit test therefore sees least:

- the **debug session** of the Live Process Bridge, the **session table** over it and the **debugger pane** that drives it;
- the **project** on disk with the desktop application over it, its background analysis and the command line beside it;
- **network captures** and the tool that shows them, with its background job;
- the **embedded terminal**, its threads and its grid;
- the **SSA form** of a lifted function and the passes over it.

| module | what it is |
|---|---|
| `StopProtocol` | what a debug session promises a reader: an abstract specification |
| `DebugPump` | one `DebugSession` of `core/process/win_debug.rs`: debuggee, pump, client, breakpoint table |
| `DebugPumpProofs` | the invariant of `DebugPump`; that it implements `StopProtocol`; what holds for a client that takes some care |
| `LiveSessions` | the session table of `core/process/mod.rs` with its callers, handles and processes |
| `LiveSessionsProofs` | who owns a handle, a debuggee, a suspended process |
| `DebuggerPane` | the debugger of the desktop application, `gui/debugger.rs` |
| `DebuggerPaneProofs` | what the pane shows is of the debuggee it drives |
| `JobChannel` | what the application promises of a background job: an abstract specification |
| `ProjectStore` | `core/project.rs`: project file, `imports/`, `results/` and the operations on them |
| `Workbench` | the GUI handlers, the analysis worker, the command line and crashes over `ProjectStore` |
| `WorkbenchProofs` | the invariants of `Workbench`; that its analysis implements `JobChannel`; what is on disk, for an orderly user |
| `CaptureSession` | captures and flow tables, `ghidrust-net-capture` and `ghidrust-net-flow` |
| `NetworkPane` | the network tool and its worker over `CaptureSession`, `gui/network.rs`, `network_job.rs` |
| `NetworkPaneProofs` | the flows and digs of the pane; that its job implements `JobChannel` |
| `InductionLemmas` | induction over numbers and finite sets; sums over finite sets, the turns of a loop, sequences put together |
| `TerminalGrid` | the cell grid and its control sequences, `gui/grok_term/ansi.rs` |
| `TermSession` | the control and reader threads of the terminal over `TerminalGrid`, `gui/grok_term/session.rs` |
| `TermSessionProofs` | cells, cursor, glyphs and sizes of the terminal |
| `ControlFlow` | blocks, dominators, frontiers and phi places, `ghidrust-ssa/src/lib.rs` |
| `SsaForm` | renaming and the passes, `ghidrust-ssa/src/ssa.rs` |
| `SsaExecution` | a function executed beside its SSA form and what the passes leave of it |
| `SsaProofs` | the graph, the dominators, the phis, the renaming and the passes of any function |
| `MCDebugPump`, `MCLiveSessions`, `MCDebuggerPane`, `MCWorkbench`, `MCNetworkPane`, `MCTermSession`, `MCSsaExecution` | their instances for TLC; each `.cfg` is named for the module it checks |

`LiveSessions` stands on the promise of `StopProtocol` (it sees a debug session through the run state it shows), `DebuggerPane` on that of
`LiveSessions` (its buttons are calls of the table). `JobChannel` is implemented twice, by `Workbench` and by `NetworkPane`.

To check a run: `tlc -config DebugPump_ops.cfg MCDebugPump`. To check a proof: `tlapm DebugPumpProofs.tla`.

## 1. Inventory

For each component: the state it keeps, its operations, whom it talks to, what is hard about it, and what makes it
correct. PROJECT.json lists the source files of each, and every hazard at its line.

### Live process bridge

**Debug session pump** (`core/process/win_debug.rs`; modelled). State: the breakpoint table `bps` and its address index
`addr_to_id`, the debug event held, the flags `stopped`, `exited`, `first_bp_seen` (locals of the pump thread);
`SharedDebug` with the last stop and the run state, behind a mutex; a channel of commands with a reply channel in each.
Operations: continue, pause, set/clear/list breakpoints, get/set context, step into/over/out, stack, threads, wait,
detach. Interactions: the client writes `SharedDebug` and sends a command; the pump serves it between two waits for a
debug event; Windows freezes the debuggee from the delivery of an event to its `ContinueDebugEvent`. Hard: everything.
The run state has two writers; a command outlives the call that gave up on it after five seconds; several threads may have
hit the same breakpoint before the first hit is served; breakpoints live in the debuggee's own code. Correct when: a stop
shown is a stop held; the index leads each hit to its own entry; a live debuggee's code is its own but for the table's
INT3s, and all its own after detach; no instruction is skipped but where a hit has lost its breakpoint by the time it is served;
every call returns; no thread is left frozen unseen.

**Live session table** (`core/process/mod.rs`, `session.rs`, `win_observe.rs`; modelled but for what a scan finds). State: one
map of sessions behind a mutex, each with a process handle, a copy of the run state and perhaps a `DebugSession`. Operations:
attach, launch, continue, step, wait, resume, detach, and the readers that copy a handle out of the lock. Hard: the emptiness
check of a launch and its insertion are two critical sections; a handle may be closed under a reader, and its value given again;
commands wait for the pump under the table's lock; one step of an attach may fail after another opened something. Correct when:
a handle of a session is open, its process's and its own; a debug session has its debuggee to itself; nothing created suspended is
left so; a copied run state never claims a stop that is over; a copied handle is not taken for another's.

**Debugger pane** (`gui/debugger.rs`; the session and what is kept to draw). State: the session, the last stop seen, the thread
shown and its registers. Operations: attach, launch, continue, step, pause, detach, poll for a stop, select a thread, edit a
register. Hard: what is drawn is a copy of what the pump shows, read at another time; an edit writes the whole copy back.
Correct when: the pane owns the session in the table; nothing is shown or written that came from an earlier debuggee; the
registers beside a stop are those of the thread shown.

### Projects and the desktop application

**Project store** (`core/project.rs`; modelled). State: `ghidrust.project.json`, `imports/<id>`, `results/<id>/analysis.bin`.
Operations: create, open, import, set active, remove, load with results, save, analyze. Hard: metadata is read once and
written back whole; files are overwritten in place; ids are reused; two processes share a folder. Correct when: saved results
belong to the imported copy; registered files have a copy; saved edits survive until the file is removed.

**Project handlers of the GUI, user edits, analysis job** (`gui/app/project_io.rs`, `menus.rs`, `program_edit.rs`,
`analysis_job.rs`, `core/edits.rs`; modelled, edits as a set). State: the open program, the file it came from, the pending
questions, the job with its channel. Operations: the menu and tree handlers; begin, poll and finish an analysis. Hard: the
program moves to a worker thread and comes back in a message, to whatever the UI shows by then; an id kept for a question is
interpreted in the project open when it is answered. Correct when: the program is in one place and neither it nor an edit to it is
lost; UI and project agree on the active file; every analysis ends.

### Network plane

**Capture sessions, flow table** (`ghidrust-net-capture`, `-flow`; modelled over replayed files). State: a table of sessions, each with
a backend, the frames kept, a byte limit and the flows so far. Operations: start, status, stop, flows, each of which pumps the
backend. Hard: a frame over the limit ends the capture in the middle of a batch; a session is finished before its file is written.
Correct when: the flows are those of the frames kept, and those the longest start of the replay within the limit.

**Network job** (`gui/network_job.rs`, `network.rs`; modelled but for rules, tables and drawing). State: the job with its channel, the
capture shown, alerts, pivots, the dig's plan and result. Hard: the outcome of a job is applied to whatever the page shows by then; a
panic ends the worker without a word; the window may be closed meanwhile; a hint that names no binary leaves the earlier one in the
page. Correct when: a result is of the target picked, its plan the one executed, the flows those of the capture shown; every job ends.

**Schema, attribution, rules, detection, parsing, correlation** (`ghidrust-net-*`; not modelled): stateless matching and parsing.

### Terminal

**Terminal session and emulation** (`gui/grok_term`; modelled). State: a pseudo terminal, a control thread and a reader thread, a queue of
commands, a grid of two screens with cursor and margins. Operations: start, write, resize, poll, stop; every control sequence that
moves, writes, erases or scrolls. Hard: the grid is resized at once and the pseudo terminal later; a double-width glyph is two cells that
can be parted; the end of the output is noticed by one thread and acted on by another. Correct when: cells and margins stay in range, a
cursor leaves the window only to a position saved in a larger one, glyphs stay whole, grid and child agree on the size unless the system
refuses it, the end of the output ends the session.

### Analysis and decompilation

**Control-flow graph and SSA** (`ghidrust-ssa/src/lib.rs`, `ssa.rs`; modelled for variables of two widths). Pure algorithms: blocks,
dominators by iteration, frontiers, phi placement by worklist, renaming along the dominator tree, and four passes. Hard: graphs with
several ways in, loops in loops, copies that swap, loads behind stores through another name. Correct when: the dominators are the
dominators, the SSA form reads what the function reads, and what the passes leave computes the same in a function whose variables have
one width; with two it does not (section 7).

**Analyzers and bulk scan, RTTI catalog cache, artifacts** (`core`; not modelled): what they compute is data. **Structuring and
types** (not modelled): no definition of the right result to check against. **Loaders, decoder, IR and lifting, decompiler, Il2Cpp
and Unity inventory** (not modelled, or what `SsaExecution` executes of them): sequential parsing and translation of data without
protocol or shared state; tests against corpora reach them better than a model would.

### Front ends

**Command line and MCP server** (`ghidrust-cli`): `project import` and `project analyze` are in `Workbench`; the rest hands one
request at a time to the components above. **Agent policy and bridge** (`ghidrust-agent`; not modelled): a decision table.
**Navigation history, event bus, GUI shell** (`gui/nav.rs`, `events.rs`, `app`; not modelled): bounded stacks, a queue drained in the
frame it is filled, layout and drawing.

## 2. The live process bridge

### Correspondence: `DebugPump`

The three parties of `DebugPump` are three groups of actions.

- *Debuggee* (external): threads loop over the addresses `0 .. CodeLen`; they run into an INT3, execute, fault or end the
  process, and freeze with the event they raise in `queue`. `SysThread` is the thread in which Windows runs the break-in code,
  at attach and again for a pause. `Free` says that nothing runs while an event is held.
- *Client*: `Request` is a method that sends a command and waits; `Announce` and `SendAnnounced` are the two halves of
  `continue_exec` and the steps, which write `SharedDebug` under its lock, release it and then send; `StepOut` is a oneshot
  breakpoint followed by a continue (`Landing`). `Timeout` is `recv_timeout` giving up: the command stays in the channel.
- *Pump*: `pc` is where `pump_loop` is: at the top (`poll`), waiting for an event or, while stopped, a command (`wait`), in the
  drain loop of Detach (`drain`), or returned (`dead`). There is one action for each command of `handle_cmd` and one for each
  branch on an event. `WaitForDebugEvent`, `Stop` and `PassOn` are the parts those branches share.

`text` holds the byte at each breakpoint address, genuine or INT3. A continue and a step with an event held take two actions, as the code
does two things: `ContinueHeld` and `StepHeld` are `ContinueDebugEvent` (`win_debug.rs:748`), `Told` is the write to `SharedDebug` after it
(`:751`). In between (`letting`) the debuggee runs and the client still reads Stopped.

Three variables are history. `lost` has the threads whose last hit lost its breakpoint while it was queued: the client cleared it or detached,
it was a oneshot that fired for another thread first, or the byte before has a breakpoint too, which the pump looks up first and takes the
hit for. `overrun` has those that were let go with the program counter past an INT3 they never executed the instruction of. `refused` is
set while the pump still holds what a step was to continue and could not, although `SharedDebug` was told that it runs.

What is abstracted: registers are the program counter and the trap flag; ListBp, GetContext, Stack and Threads are one
`Query` that changes nothing; `step_out`'s fallback is a loop of queries and steps, which the client can make already; a
second-chance exception is not reached, as every first-chance one stops. Debug events are assumed to reach the pump thread. What is
left out: INT3s of the debuggee's own, writes that fail while the debuggee lives, the last 32 hits a breakpoint records and thread
handles. `ReportAfter` selects which of the two addresses an INT3 is reported at; the runs use the
address itself, which is what `EXCEPTION_BREAKPOINT` carries, and the code accepts both. `ShadowedClears = FALSE` keeps the client from
clearing a oneshot that fired by its id after a new breakpoint was set at its address; that sequence is described in section 7 and
would hide all others.

`StopProtocol` says the same in four variables: the session's phase, the thread whose event is held, the run state and the
thread shown. An event is taken, kept and shown in one step, only when none is held; a reader may be told "running" before it
is so and never after; an event is let go with the display or by detaching. `PromiseKept` is that specification under the
mapping at the end of `DebugPump`.

### Correspondence: `LiveSessions`

`Callers` are the threads that use the API. The table's lock is held within one action, except in a `process_wait`, which keeps it
until its deadline (`lock`, `WaitBegin`, `WaitEnd`). What is done outside the lock takes two actions, with the caller's copy in
`call`: `AttachObserve`, `AttachDebug`, `LaunchCheck` and `CreateProcess` come before `Insert`, `SessionHandle` before `UseHandle`.
The system (external) is `process`, `debugged` (`DebugActiveProcess`), `pump` (a debug session as its readers see it) and
`handles`, a table whose lowest free values are given first, so that a value that was closed comes back at once. An attach may fail
after it opened or began to debug, as the code does, and so may the detach of a debug session, whose error is ignored: the entry is gone and the
process stays debugged, with nobody to debug it. `Go` is continue and resume of a debug session, after which the entry has the run state the session
shows by then, and that may be the next stop's; `Step` is the three steps;
breakpoint and register commands run under the lock, change nothing here and reach `DebugPump`; a pause changes nothing here.
Assumed: `now_token` gives each attach a millisecond of its own.

### Correspondence: `DebuggerPane`

The handlers of the buttons run one at a time on the UI thread; those that wait for the next stop (`poll_stop`) are in two steps
(`polling`), with the debuggee's stops between. `context` has each thread's registers, told apart by the session and the run they
come from; `last_stop`, `active_thread_id` and `registers_cache` are the fields of `DebuggerState`. Two variables are history: `read_of` is
the thread the registers shown were read from, `misread` that the last read failed, so that those of `read_of` stay beside another thread.

### Runs

| run | instance | shows | states |
|---|---|---|---|
| `pump_ops` | 1 thread, 1 address, 2 breakpoints, all operations | `IndexNamesLiveEntry`, `RunningIsNotHeld`, `PromiseKept` | 2.49M |
| `pump_threads` | 2 threads, 2 adjacent addresses, breakpoints set, cleared, hit, detach | `StopNamesItsBreakpoint`, `NoInstructionSkipped`, `TextIsOwned`, `DetachRestoresText` | 1.32M |
| `pump_timeouts` | 1 thread, 1 breakpoint, 1 abandoned command (continue, step, set, clear, detach), fair | `StoppedIsHeld`, `CommandsReturn`, `ThreadsAreServed` | 555K |
| `pump_pause` | continue and pause, fair break-in thread | `PauseStops` fails | 832 |
| `sessions` | 2 callers, 2 processes, 3 handles, 3 sessions | `SessionOwnsHandles`, `SuspendedIsOwned`, `DebugIsExclusive`, `ReaderReadsItsTarget`, `StoppedCopyHolds` | 1.49M |
| `pane` | 2 threads, 2 sessions, 3 stops each | `PaneOwnsTable`, `CachesAreOfTheSession`, `ShownStopHasItsRegisters` | 79K |

- `IndexNamesLiveEntry`: an indexed address names a live, enabled entry of that address. `RunningIsNotHeld`: a client at rest that reads
  Running is not looking at a debuggee the pump holds, but after a step the pump refused.
- `StopNamesItsBreakpoint`: a breakpoint stop names the entry of the address hit, unless the thread is in `lost`. `NoInstructionSkipped`: no
  thread is resumed past an instruction it never executed, unless it is in `lost`; so a detach with a hit in its queue is excused by that
  hit having lost its breakpoint, and by nothing else. `TextIsOwned`: an INT3 in live code belongs to the table, and no entry would write an
  INT3 back.
- `StoppedIsHeld`: Stopped means a held event, the one shown, with its thread frozen, but between a `ContinueDebugEvent` and the write that
  tells of it, and while a detach drains. `CommandsReturn` and `ThreadsAreServed` are liveness: every method returns; a thread is not left
  frozen unless the client is shown a stop, its step was refused, or the session is over.
- `SessionOwnsHandles`: handles in the table, and those a launch or attach is about to insert, are open and have one owner.
  `SuspendedIsOwned`: somebody has the thread of whatever is suspended. `DebugIsExclusive`: two debug sessions are of two processes, each
  with its pump, and no pump goes on without a session, a failed detach included. `ReaderReadsItsTarget`: a handle copied out of the lock
  names the process it was copied for, its own debug session ended or not; the exception is the detach of the observe session it was copied
  from, which closes it (section 7). `StoppedCopyHolds`: a copied Stopped is true, unless the last command reported a failure.
- `PaneOwnsTable`, `CachesAreOfTheSession`: see the inventory. `ShownStopHasItsRegisters`: once the stop the debuggee is at was seen, the
  registers shown are those that the thread they were read from has now, and it is the thread shown unless a selected thread's could not be
  read. Of a stop that came after the pane's wait was over nothing is said until it is asked for.

Bounds. Two breakpoints at one address are enough for an entry to outlive its index, two threads for an event queued behind the one
served and for a oneshot hit twice, two adjacent addresses for a hit that is taken for its neighbour's, one abandoned command for a late answer that
meets the next call (the channel then holds two). `DrainMax = 2` stands for 32: with two
threads and the break-in thread the queue can be longer, so the bound is reached. `CodeLen` leaves a thread somewhere to go on to, and in
`pump_ops` an address beyond the breakpoint to step to. The channel and the queue need no bound: callers wait, and a frozen thread raises
nothing. Two callers are what a race needs; three handles are one for a session, and two of a launch or one that comes back. Two
sessions of the pane let what belongs to the first meet the second, three stops let one be missed between two that are seen.
`CHECK_DEADLOCK FALSE` where sessions and stops are used up and the system may rest.

Fairness. `FairSpec` of `DebugPump` gives weak fairness to the pump thread, which the operating system schedules and whose waits are all
bounded (50 ms), and to the second half of a client method already called. Nothing makes the debuggee run, the client call, or a
timeout expire. `BreakInFairSpec`, used only by `pump_pause`, also lets the break-in thread run, so that the pause is not
defeated by the operating system. `LiveSessions` and `DebuggerPane` state no liveness and assume no fairness.

### What is proved

*`DebugPump`*, for any threads, code, breakpoint addresses and bounds, from its named assumptions alone (breakpoints lie in the
code, the bounds are numbers, the absent value is none of the others): `TypeCorrect`, `IndexSound`, `StoppedSound` (`TypeOK`,
`IndexNamesLiveEntry` and `StoppedIsHeld` are invariants) and `KeepsPromise` (every debug session implements `StopProtocol`).

All four rest on `Inductive`: `IInv` is an invariant. None of the first three is inductive alone, and each conjunct of `IInv` is there for a
reason. `RoomInv` (a set_bp under way finds an id within the bound) and `AnnouncedInv` (only a continue or a step is announced) carry
the types through the channel. `FreshInv` (ids not given out name no entry) lets `SetSoftBp` create an entry without taking away
another's index; with it `IndexNamesLiveEntry` is inductive, because a oneshot is disabled and leaves the index in the same step.
`HeldInv` (the pump is stopped exactly when it holds an event, and lets go of one only while it serves the continue or step for it) and
`QueueInv` (a queued thread is frozen, has one event, and is not
the one held) carry `StoppedIsHeld`: no queued event of another thread unfreezes the one shown, and none is of the same thread. The
refinement needs `HeldInv` for `Deliver` (nothing is held when an event is taken) and the types to know that what is published is not absent.

`RunningIsFree` (`RunningIsNotHeld`) holds of every client as well: a debuggee held while Running is shown has a continue or a step announced,
in the channel or refused (`RunInv`). A detach is the last call of a client, so that the pump drains with nobody at rest (`CallInv`).

The other invariants of the runs fail for a client that clears a fired oneshot by its id once a new breakpoint is set at its address (section 7). The
rest of `DebugPumpProofs` proves them of every other client (`ClearsOwn`), for any threads and addresses, adjacent ones included:

- `TextOwned` and `TextRestored` (`TextIsOwned`, `DetachRestoresText`). The invariant is `CodeInv`: original bytes are genuine, enabled entries
  and index say the same, an armed byte is indexed. A clear sent while it was harmless may be served much later, so `ClearInv` says of every clear
  in the channel that its entry is alone at its address, with all commands ahead of it counted in.
- `StopsNamed` (`StopNamesItsBreakpoint`). What is looked up is an entry of the address hit or of the byte before (`NameInv`); in the second case
  the thread is in `lost`. The entry named can be gone, but is never another's, as no id is given out twice.
- `NothingSkipped` (`NoInstructionSkipped`). A hit in the queue keeps its entry or is in `lost` (`HitInv`), which needs `CodeInv` when the thread
  reaches the byte, and `QueueInv` when an entry leaves the index and the threads that wait for it lose it.

*`LiveSessions`*, for any callers, processes, handles and sessions: `HandlesAreOwned`, `SuspendedAreOwned`, `DebugSessionsApart`,
`ReadersOnTarget` and `CopiesHold`, the five invariants of the run. They hold together or not at all, and so are proved from one
invariant: who is about to insert counts as an owner beside the entries of the table, every owner's token was given out once, owners of
handles and of debuggees are apart and have their pumps, no pump is without an owner, and a reader's copy is what its session still has or, when that
was a debug session, the handle it left open, which nobody else has. Without the owners that are not in the table yet,
`Insert` could bring a handle another session has; without the tokens, it could replace an entry and orphan what it held.

*`DebuggerPane`*, for any threads, sessions and stops: `TableOwned`, `CachesOwned`, `StopShownWhole`. The invariant adds
that what the pump and the debuggee hold is of the session the pane drives, that only a debug session is waited for, that the stop
shown is no later than the last, so that the next one cannot be taken for it, and that a debuggee that has exited shows no stop.

Only model-checked: the liveness properties, which are outside the prover's reach.

## 3. The project and the desktop application

### Correspondence

`ProjectStore` has the state on disk, per folder: `meta` (the project file), `imports`, `results`. A program is the binary it was
loaded from and the user's edits. The operators are the methods of `Project`; a project in memory is a record with the metadata it
read, which it writes back whole. An id is a name and a number: `UniqueId` takes the first free one, as `unique_id` appends `_n`.

`Workbench` adds the fields of `GhidrustApp` that name a program or a file, and one action per handler. Handlers run one at a
time on the UI thread, so each is one step; the analysis worker, the command line and a crash come between them. A handler that
fails half way is modelled with what it did before: an import that does not load is registered, copied and active, and the program
before stays open. The program is moved into the worker (`HandOver`; the thread may fail to start, and the program stays; the send to one that started
cannot fail, as the first thing it does is to wait for the program) and back in the
last message (`GiveBack`; an error and a caught panic do the same). `PollAnalysis` is one frame: it drains the channel, applies the last
message, and saves after a full run. `Habits` names what users and the system do beyond the ordinary: open unimported binaries or
other files during an analysis, delete, recreate a project, use the command line meanwhile, crash, crash while writing. A run
names the habits under which its properties are claimed.

Left out: Save As (a copy of a save), recent projects, preferences, listings and exports derived from the save, the
`analysis.json` of older projects, deletions that fail, progress texts and panes. Edits only accumulate: clearing a comment is one more edit.
The question whether to delete keeps its folder as history; the code keeps the id, and so does the action that answers it.

`JobChannel` is the promise of a background job in three variables: whether the UI has a job (`on`), whether its worker is at work (`working`), and the
messages sent and not yet taken (`queue`). A worker is started only when no job is on; what it sends waits in the order sent; its end comes
after all of it; the UI takes what waits out of the channel, so that nothing is read twice, and is free once the worker has ended.
`ChannelKept` is that specification under the mapping at the end
of `Workbench`, the channel's messages included. A crash, which ends the application and the job with it, is the one step excepted.

### Runs

| run | instance | shows | states |
|---|---|---|---|
| `project_store` | 2 folders, 2 builds of one name, deletions, crashes between handlers | `ResultsMatchCopy`, `RegisteredHasCopy`, `OneHolder`, `ProgramKept`, `SavedWorkKept` | 1.02M |
| `project_any` | 2 folders, every habit, one build that does not load, fair | `ActiveAgrees`, `ProgramKept`, `AnalysisEnds`, `ChannelKept` | 326K |

- `ResultsMatchCopy`: what is under `results/<id>/` was computed from the copy under `imports/`. `RegisteredHasCopy`: each registered file
  has a copy, and no two share an id. `OneHolder`: the program is in the UI, the worker or the channel, and in one of them. `SavedWorkKept`:
  saved edits leave only with the file.
- `ActiveAgrees`: UI and project agree on the active file. `ProgramKept`: no program and no edit to it is lost, wherever it is, in the UI,
  at the worker or in the channel; it is that very program that stays, not just some program. The open one may go because the user puts
  another in its place, closes it or deletes its file (`Chosen`), with a crash, or, if it was opened during an analysis, when the worker's
  comes back (`Displaced`: under `"busy"` only, so `project_store` knows no such case). `AnalysisEnds`: liveness. `ChannelKept`: the
  analysis implements `JobChannel`.
- The hazards `project_store` does not reach are named in PROJECT.json with the habit each needs: `"busy"`, `"load"`, `"recreate"`, `"torn"`
  and `"cli"`. Its three properties of what is on disk fail with them, as section 7 says, and no line of the repository promises otherwise.

Bounds. Two builds of one name make an id be chosen past another and be reused after a deletion; one edit is enough to be lost;
two folders are enough for what was meant for one to reach the other. `ThreeFiles` lets three files be registered in all: two of one
name in a folder and one in the other. One analyzer (`NAnalyzers = 1`) gives a run that fails before its end and one that reaches it.

Fairness. Weak fairness of the worker: analyzers end. Weak fairness of the poll: the UI asks for a repaint on every frame while a job is
under way. Nothing makes the user act.

### What is proved

For any folders, binaries, names, bounds and number of analyzers, from the named assumptions of `ProjectStore` and `Workbench` (names
are strings, the absent and the torn value are none of the others, there is an analyzer):

- `TypeCorrect`, `ActiveSound`, `KeepsProgram`, `ImplementsChannel`: `TypeOK`, `ActiveAgrees`, `ProgramKept` and `ChannelKept`, under every
  habit;
- `HoldsOnce`: `OneHolder`, for a user who opens no other file during an analysis (`"busy"` is not a habit).

These rest on `Inductive`: the invariant is `TypeOK`, `Agreement` and `ChannelInv`. `ActiveAgrees` is not inductive: a project that is
opened makes the active file of its metadata the UI's, and one file removed makes another the active one, so `Agreement` adds that the
active file of every readable project file (`MetaInv`) and of the project in memory (`ProjectInv`) is listed in it. Another process may
write the project file, which is why the two are said apart. That removing a file leaves the others listed is `RemoveAtElements`.
`ProgramKept` needs `ChannelInv`: a worker at work has sent no last message, and a last message is last, so the frame that drops the rest of
the channel drops progress only; of every program that is held, one lemma an action then says where it is after it. `ChannelKept` needs the
same: the worker's end is the last message or none, so the frame that finds it has taken all there were. `OneHolder` adds to `ChannelInv`
that a job under way has a worker or a last message, and that the UI has no program meanwhile; this is where the habit comes in.

The second part of `WorkbenchProofs` adds what is on disk, under a condition that excludes the sequences it fails by:

- `CopiesRegistered`, `ResultsOfCopy`, `SavedWorkStays`: `RegisteredHasCopy`, `ResultsMatchCopy` and `SavedWorkKept`, for an orderly
  user: `Orderly` says that of the habits only `"delete"` and `"crash"` occur and that every binary loads. `project_store` is the
  instance of these three.

They rest on `StoredTogether`, an invariant in three parts. `FoldersInv`: no project file is torn and the ids of one are apart; a
registered file has its copy and results of that copy or none, and an id that is not registered has neither. The last is what makes the
three true together: an import that takes a free id finds nothing saved under it, and a removal leaves nothing behind for the next
import. `OnDisk`: the project in memory is the one in the project file. `HeldInv`: a program of the active file, wherever it is (UI,
worker or last message), was loaded from its copy with all that was saved for it, so that a save over older results loses none.
One lemma an action; a removal takes exactly one file since ids are apart (`RemoveAtPlaces`, `RemoveAtApart`). Without `Orderly` all three
fail, in the ways section 7 lists.

Only model-checked: `AnalysisEnds`, a liveness property.

## 4. Captures and the network tool

### Correspondence

`CaptureSession` has the table of captures and the file of each. A capture replays a file; the pump that runs in every call is a fold of
`Take` over its frames, and as a replay hands over all it has at once, `CaptureStart` does it all and later pumps find nothing
new. A frame is its two endpoints, its length and the process it is attributed to. `Ingest` is the flow table's `ingest`, with the
canonical order of endpoints and the owner of the first frame that has one. `CaptureStop` ends the capture and then writes its file,
which may fail with none, a part or all of it there. Beside the pump stand `Kept` and `FlowsOf`, the same results said without it:
the matching frames of the replay whose cost, with that of all matching frames before them, is within the limit, and per conversation the
bytes each end sent in those, and the first owner. They are sets of positions and sums over them, so that nothing of the pump's order is in them.

`NetworkPane` is the tool. Handlers run one at a time on the UI thread; between them the worker does the job (`WorkerEnds`: with a result,
an error, or a panic that closes the channel without a word) and `PollNetworkJob` takes what the channel holds, while the window is drawn.
What a job computes is told apart by its subject only, the capture or the target it was given. Buttons that start work are grey while a job
is under way (`Quiet`); the menu's Refresh Connections and the capture's Start and Stop are not. The Dig page's target (`dig_fields`) has a
path and a host. A hint, from a connection, flow or alert, merges (`Merged`): what it has no value for stays as it was (`network.rs:506`).
The pivots of a job that ends overwrite the host (`:399`), also after a pick made meanwhile. A target that does not compile leaves the plan
and the result of the one before on the page (`:883`). `picked` is history: the host the last pick named and the path the page had with it,
each forgotten when the user types another or, the host, when pivots overwrite it.

Left out: live backends (their frames come from the operating system), rules and the parsers behind an alert, the pages' tables, the fields of
a target besides path and host, and the query that lists connections.

### Run

| run | instance | shows | states |
|---|---|---|---|
| `network` | 2 captures, 2 paths, 1 host, a replay of 4 frames, with and without a filter, fair | `ResultIsOfThePick`, `PlanIsOfTheResult`, `FlowsAreOfTheSession`, `JobEnds`, `ChannelKept` | 478K |

`ResultIsOfThePick`: after a dig was picked, a result on the page was made for the path the page had with the pick and for the host the pick
names, field by field; a pick that names no path keeps the earlier binary, and that is then what is dug into. `PlanIsOfTheResult`: the
plan shown beside a result is the one executed. `FlowsAreOfTheSession`: the flows listed are `FlowsOf(Kept(...))` of the capture shown.
`JobEnds`: a job ends for the UI, also when its worker panics. `ChannelKept`: the pane implements `JobChannel`, messages included.

Bounds. Four frames hold both directions of a conversation, an owner that becomes known late, a frame over the limit of 7 bytes, and one
after it that would still fit; with the filter the same frame is within the limit. Two captures let what was computed for the first meet the
second, two paths likewise; the host is there or not, typed, picked or from a pivot. Fairness: the worker runs on, and the window is drawn
while it is open.

### What is proved

For any replays, filters, targets and limits: `FlowsShown` (`FlowsAreOfTheSession`), `PickKept` (`ResultIsOfThePick`), `PlanKept`
(`PlanIsOfTheResult`, inductive alone) and `ImplementsChannel` (`ChannelKept`). The invariant of `PickKept` and `ImplementsChannel` is
`JobSound` (a worker is at work only while a job is on, and the channel then holds nothing but that it started), `DigSound` (the fields of
the page agree with the pick, and so does a dig at the worker or in the channel) and `CapturesSound`. `DigSound` is the heart: a result that
comes in late is of the pick because nothing that changes the pick is enabled while a dig is under way but typing, and pivots, which forget
the part they change.

`FlowsShown` is about the pump, a fold over a replay of any length. `PumpedTo` says what a capture is after the first `n` frames: its table
is `FlowsOf` the frames kept among them, and it is over exactly when those that match cost more than the limit, its bytes being their cost
until then. `TakeKeepsPumped` takes it one frame on; what that needs of the table is `IngestAdds` (one frame more in a flow is its length
more on one side, and the owner of the first owned frame stays), of the limit `CostAdds`. `StartedSound` runs the induction over the length:
`PumpExists` makes the fold's partial results a function of the position, and `NumbersInduct` of `InductionLemmas` is about a set of numbers
instead of a predicate, which is what makes the induction one the provers can follow; the same module has what is needed of sums over finite
sets and of least and largest elements. The rest is `FlowsSound`: each capture has the flows of its own replay, stopping one leaves them,
and the flows listed are those of the capture shown.

Only model-checked: `JobEnds`.

## 5. The terminal

### Correspondence

`TerminalGrid` has the two screens, the cursor, the margins and the position saved, and one action per control sequence that `ansi.rs`
acts on: printing (`PutChar`, with the wrap at the margin and the repair of halves of wide glyphs), line feed and the scrolls, cursor moves,
erasing and shifting of cells, margins, save and restore, the switch of screens, reset. A cell is narrow, or the left or right half of
a wide glyph; characters and styles are left out, as is the scrollback, which nothing is read back from. `stuck` is the outcome of a
scroll that never returns or panics: scrolled up by its whole height from row 0, a region is counted down from below zero. `Resize` follows
the code: the cursor is clamped, the saved position is not.

`TermSession` has the threads. The UI resizes the grid at once and sends the size to the control thread; `Control` receives a command and
serves it; `ReadLoop` is the reader with one sequence of the child's. The size the control thread asked for last (`told`) is recorded before
the system is asked, and a refusal is not looked at (`pty.rs:76`, `session.rs:247`), so the pseudo terminal's own size (`pty_size`) may stay
behind: `refused` is the history of that. Stopping the session drops the sender, so that the control thread serves what it still has
(`ControlDropped`) before it kills the child.

Pseudo terminal and child are external. The child's end and the end of its output are two events (`ChildExits`, `OutputEnds`), in any order,
and neither has to come: a grandchild keeps a Unix terminal open, and on Windows the pseudo console stays open until the session is dropped
(`pty.rs:97`). `ReadEof` is the reader at the end of the output. On Unix a read that brings something also asks for the child's end, which
`ReadLoop` allows and does not promise.

### Runs

| run | instance | shows | states |
|---|---|---|---|
| `terminal` | windows of 3x2 and 2x3, 2 wide glyphs, 2 commands, fair | `TypeOK`, `OffScreenIsSaved`, `SizesAgree`, `GlyphsStayWhole`, `ExitSeen` | 236K |
| `terminal_stuck` | the same windows, no wide glyph | `NeverStuck` fails | |

`TypeOK` is worth a run here: it says that cells and margins are in the range of the window's arrays, and the cursor and the saved one in
that of some window there may be. `OffScreenIsSaved`: the cursor is below the screen, or further right than the column past the last, only
at a position saved before the window shrank, and no further out than that. `SizesAgree`: once the control thread has caught up, it has
asked for the size of the grid, and the pseudo terminal has that size unless the system refused. `GlyphsStayWhole`: only the sequences that
edit single cells, and a resize, part the two halves of a glyph. `ExitSeen`: the end of the output ends the session unless the terminal is
stuck, and so does the child's end once the reader was told of it; the child's end alone does not (section 7).

Bounds. The two windows differ in both directions, so that each resize cuts one and extends the other; three rows leave room for a region
with a line outside it, three columns for a wide glyph printed over the half of another. `MaxWide = 4` counts cells on both screens, which
is two glyphs; `MaxCommands = 2` lets two sizes, or a size and keys, wait together. `SavesAtLineStart` keeps the saved column at 0,
`OneAtATime` keeps a session from starting before the last has ended, `GlyphsWhole` does not follow a screen with half a glyph on it, of
which nothing more is promised, and `SessionOrGlyphs` lets commands queue, sizes be refused and children end on screens without glyphs only,
as session and cells meet in nothing but the size. All four make the instance smaller, none restricts the module or the theorems; what the
reader does at the end of the output looks at no cell, so that `ExitSeen` is not weaker for the screens left out. Fairness: the control
thread runs on as long as the child takes its input, a read of output that has ended returns, and the UI polls in every frame. Nothing makes
the child print or end.

### What is proved

For any window sizes and bounds: `TermTypes`, `SavedCursorOnly`, `ChildIsToldSize` and `WholeGlyphs`, the first four properties above. The
invariant of the first three is `TypeInv`. Its part `GridInv` has two forms (`GridForm`): the cursor is within the window or no further out
than the saved one, and both are in the range of some window. Its part `TellsSize` is what makes `SizesAgree` inductive: if a resize is
waiting, the last one is to the size the grid was drawn in, and if none is, that size was the last asked for. What a session leaves its
control thread ends in Shutdown, so that the thread and the child are not left behind. `GlyphsStayWhole` goes through `Joined`, which says
`Whole` for a screen and a size: every scroll moves whole rows, and `PutChar` overwrites the other half of whatever it meets. `ExitSeen` is
only model-checked.

## 6. SSA

### Correspondence

`ControlFlow` is `lib.rs`: leaders, blocks and edges from a list of operations, dominators by iteration to a fixed point in reverse
postorder, frontiers, and the worklist that places phis. `SsaForm` is `ssa.rs`: renaming along the dominator tree with a stack per variable,
and constant folding, copy propagation, store forwarding and dead code removal in the rounds the code runs them. `SsaExecution` lifts a
function of the instance, then executes one transition at a time three things side by side: the operations as they were, the renamed blocks, and what
the passes leave.

A variable has a full width and may have a part, its lower half (`PartOf`), as `ecx` is of `rcx`: the renaming and the phis know the
variable only (`Key`, the space and offset of a varnode), while the identity of a value has its size too (`SsaValue`). Words have two bits.
A write of a part is as the machine's: the upper half becomes 0; a store of one leaves the upper half of the cell (`Cut`, `Stored`). The
memory is a function of addresses. A call changes memory only, as the renaming gives it no output; the lift's comment has its result in
`rax` (`ghidrust-lift/src/lib.rs:715`), so a function that calls reads no result register here (`ReadsNoResult`). What a function writes in
part it writes in full somewhere (`WrittenInFull`), so that a phi, whose size is the largest written, is in full width.

### Run

| run | instance | shows | states |
|---|---|---|---|
| `ssa` | 25 thousand functions | `ImmediateDominators`, `RenamedAgrees`, `OptimizedAgrees` | 958K |

`ImmediateDominators`: the iteration's result is the closest strict dominator by the definition (every path passes it). `RenamedAgrees`:
wherever an execution has come, the renamed operation reads what the operation reads, in either width. `OptimizedAgrees`: in a function of
one width (`OneWidth`), what the passes leave computes what the operation computes, and every effect, condition and return is left, with the
operands it had. With two widths that is not so, and the property claims nothing there: section 7.

Bounds. Four stretches, each of an operation and a transfer, in every shape the transfers allow, with two fillings; the shapes that matter
(straight line, diamond, early return, nested loops, a loop with two entries, a switch) with every filling from three sets of operations,
with and without memory and with a register used in two widths; and an irreducible graph of six blocks whose dominators take three rounds.
No transfer goes to the entry (section 7 says what would happen). The exchange of two registers gives the phis that swap; two registers
holding the same address give the store hidden behind another name. Registers begin with one set of values, in which two are alike and the
others apart, and a call leaves memory in one of two ways.

### What is proved

For every function, of any number of instructions, blocks and variables: `DominatorsAreImmediate` (`ImmediateDominators`), and, where no
function has a transfer to its first block (`NoWayBack`), `RenamedFormAgrees` (`RenamedAgrees`, of the functions of one width) and
`OptimizedFormAgrees` (`OptimizedAgrees`). The dominators are of functions in any widths; that the renaming reads right in two widths is
checked by the run and not proved. A function is what it was all along (`CodeStays`), and in one of one width the variable is its own key
and nothing is cut (`FullWidth`). `NoWayBack` is a hypothesis and not an assumption on the constants because the code accepts such
functions, and for them the two properties are false (section 7); the functions of the run satisfy it, which TLC evaluates. The algorithms
of `ControlFlow` are loops, and each is written as what it makes of a state in a number of turns (`Loop`) that is shown to be enough, so
that a proof is an induction over the turns: `TableOfSteps` and `TablesMeet` of `InductionLemmas` turn the loop's partial results into a
table and say that there is one such table.

- The graph (`GraphBuilt`): every block has its operations, and every edge leads to a block, whatever the targets and the cases of a switch.
- The walk (`OrderFound`): when the stack is empty, the order has every block that is reached, once, and each but the entry after one that
  leads to it. `Walked` is the invariant of a turn: what is on the stack was reached from a block whose turn to be done is below it, and
  what follows a visited block is done, or is visited, or is on the stack above. Blocks not yet visited, with an edge each, and what is on
  the stack are together fewer after each turn, so that the loop ends.
- A meeting (`IntersectMeets`, `DominatorMeets`): while the tree of dominators is only partly known, two fingers meet, within the turns the
  loop has, at a block that every set closed upwards and common to both contains. The fallback to the entry for distinct blocks of one place
  is never taken.
- The rounds (`RoundGrows`, `DominatorsFound`): no round leaves a dominator out (`Sound`), and with each round the blocks whose dominators
  are right reach one edge further along every path around a block (`Found`), so that after as many rounds as there are blocks all is found;
  a round that changes nothing has come to the same end. Another round on the result would change nothing, so that it is the fixed point the
  code stops at.

With the dominators found, the renaming:

- The phis (`PhisClosed`, `PhiPlaces`): a variable has phis on the frontiers of its definitions and of its phis, and nowhere else.
  `NothingBetween`: what changes only at a definition or a phi, and is otherwise what it was at the end of the immediate dominator, has
  across an edge into a block with no phi the value it had at the end of that block's dominator. The runners of `dominance_frontiers` pass
  every block from a predecessor up to it (`RunnersPass`), and none of them defines the variable.
- The walk over the dominator tree (`AllRenamed`): each reached block is renamed, once, after its dominator. The invariant `Renaming` has as
  its witness the versions current before every operation of the blocks done (`cur`): a block begins with those its dominator ended with,
  its phis' excepted; an operation defines at most its own variable, and reads what is current; the slots of the phis it leads to hold what
  it ended with. What is done stays so when later blocks are (`StaysDone`), since each writes the phis' slots of its own (`Elsewhere`), and
  blocks that wait are blocks whose dominator is done (`Waits`), each once, so that there are turns enough for all (`AllTurned`).
- The execution (`RunsSame`, inductive): the block is one that is reached, and the versions `cur` names at the operation have the values of
  the variables. An operation keeps this (`WriteAgrees`), and so does an edge (`EnterAgrees`): a phi takes what the block ended with, and a
  variable without one is what it was by `NothingBetween`. At the call every version is the one from outside, which needs that the entry has
  no phi: here `NoWayBack` is used, and at each edge, which must not lead there. `RenamedAgrees` alone is not inductive: an operand says
  nothing of the variables the operation does not read.

With the SSA form right, what the passes leave of it:

- A value is *available* at a point of the graph when it comes from outside or its definition is earlier: in the block, or in one that
  dominates it (`Available`). Every operand is available where it is read (`RenamingFormed`, from the witness `cur`), and what is available
  past an edge, and no phi there defines, was available before it (`AvailableAcross`).
- The passes are justified by *equations* between a value and what may be read in its place, another value or a constant. `Equations` are
  all those that bear each other out: the operation that defines the value yields the other side wherever the equations already hold of what
  is available there, and memory has what the last store of the block wrote. The largest such set serves, as a union of such sets is one
  (`EquationsJustified`, `EquationsGrow`); there is no order in which the passes would have to find them.
- Each pass keeps every operation like the one it is of (`Follows`): the operands are alike by the equations, or it is a copy of what the
  operation yields. `copy_propagate` ends a chain of copies at a value that is alike (`SourceAlike`, also when the chain has a cycle),
  `load_store_propagate` makes a load the copy of what was stored through the same operand when no store, call or push is between
  (`LoadStoreFollows`), `const_fold` computes what the operation yields (`ConstFoldFollows`, each of its rounds). `dead_code_eliminate` then
  leaves what is used and what matters, an effect or a register a caller reads (`Reduces`): with less left less is used (`UsesLess`), so
  that a later round breaks nothing of an earlier one (`DeadCodeReduces`).
- The execution (`RunsEqual`, inductive, with `RunsSame`): at the point the execution has come to, every equation between available values
  holds of the values of the SSA form, memory has what the last store wrote, and each value that is available and used has in the optimised
  form the value it has in the SSA form (`EqualAt`). An operation keeps this (`EqualPast`) and so does an edge (`EqualAcross`), where an
  equation is of values whose definitions dominate the block and are no phi's, so that it is not of another iteration; at the call no
  equation is of available values (`EqualAtCall`). `OptimizedAgrees` alone is not inductive: it says nothing of values that are read only
  later.

`Equations` is a union of sets of pairs of any values, which TLC cannot enumerate: of `RunsEqual` it checks the consequence, `OptimizedAgrees`.

The assumptions are `NoneAssumption` and `NamesAssumption` (None is no number, position, variable, part or value, a constant and a part no
variable, and a part is one of a variable), `StartAssumption` and `MemoriesAssumption` (registers begin, and calls leave memory, with words)
and `ProgramsAssumption`: a function has an instruction, and each instruction an operation, which is what the lift makes of a region that is
not empty, for an empty one the code returns at once; and it is `ReadsNoResult` and `WrittenInFull`. An operation has the operands its
opcode reads (`Arity`, from the table of `OpCode`), and a result just when it computes, loads, or pops into one. The other arithmetic of the
lift is left out, and with it what folding makes of narrow signed values (section 7): `Compute` has a copy, a negation and an addition of
words.

## 7. Disagreements and further behaviours

### Disagreements with a run of their own

Each is a finding in PROJECT.json with the line it contradicts.

- `pump_pause`: after the initial break the INT3 of a pause is nobody's and is passed on: a pause that replied Ok stops nothing.
- `terminal_stuck`: a scroll up by the whole region from the first row (`CSI S`, or `CSI M` on the first line, with a count of the window's
  height) counts below zero: the reader panics holding the grid's lock where overflow is checked, and loops holding it where it is not.

### Further behaviours of the debug session

To see one, change the constants as given and check the property.

- A oneshot that fired keeps its id; cleared by it after a new breakpoint was set at its address, it takes away the index of the new one,
  the next breakpoint there saves 0xCC as the original, and detach writes that into the program (`win_debug.rs:938`): `ShadowedClears =
  TRUE`, `MaxBp = 3`, `DetachRestoresText`.
- A thread is resumed past an instruction it never executed. Each way has its part in `lost`, which `NoInstructionSkipped` excepts; without
  the exception TLC shows it in `pump_threads`. Detach takes the INT3s out and then continues the hits that are queued without setting the
  program counters back (`win_debug.rs:950`): a debuggee that is let go with a hit in the queue runs on one byte into the instruction. The
  same befalls a hit whose breakpoint the client clears meanwhile, a second thread that hits the same oneshot (`:624`, `:630`), and a hit of
  a breakpoint one byte behind another, which is taken for that one (`:605`; `StopNamesItsBreakpoint` excepts it as well).
- A stop published between `continue_exec`'s write of `SharedDebug` and its command is let go unseen (`win_debug.rs:291`): the `Announce`
  step of `StopProtocol` is there for it.
- A step whose thread is gone leaves Running over a held event (`win_debug.rs:344`), until a continue or step is
  carried out. It happens in `pump_ops` and
  `pump_timeouts`; `RunningIsNotHeld` and `ThreadsAreServed` except it by `refused`.
- Between `ContinueDebugEvent` and the write that tells of it (`win_debug.rs:748`, `:751`) the debuggee runs and a reader still sees the
  stop.
- Continue arms every enabled breakpoint again, also the one the stopped thread stands on (`win_debug.rs:740`): a persistent breakpoint is
  hit again and again, unless it is stepped over first.
- `ClearBp` forgets the entry before the write that may fail (`win_debug.rs:845`).

### Of the session table and the pane

- Two callers can launch at once, as the check and the insertion are two critical sections (`mod.rs:202`); the table then has two entries.
- An attach that fails after `DebugActiveProcess` leaves the process debugged, and a failed one after `OpenProcess` leaks the handle. The
  detach of a debug session never closes the process handle, and removes the entry also when the pump's detach failed: the process is then
  debugged by nobody (`mod.rs:370`).
- A reader copies its session's handle out of the lock (`mod.rs:396`). If that observe session is detached meanwhile, the handle is closed,
  and the reader may read another object that was given the number: the one exception of `ReaderReadsItsTarget`.
- An edit of one register writes all of the cached set back (`debugger.rs:488`; the comment at `:465` speaks of the edited one). If another
  thread is selected and its registers cannot be read (`:780`), the earlier thread's stay beside it, and an edit writes them to it (`:485`):
  `misread` in `ShownStopHasItsRegisters`.
- A stop that comes after the pane's wait is over is not shown until the user asks; the pane shows the stop before it meanwhile.
- After a launch in debug mode and a Continue the pane still shows the process as suspended.

### Of projects

- A file opened during an analysis: the results of the first are saved as those of the second (`analysis_job.rs:320`, `project.rs:417`):
  habit `"busy"`, `ResultsMatchCopy`. The program opened meanwhile, with its edits, is replaced by the worker's (`analysis_job.rs:249`):
  `Displaced` in `ProgramKept`.
- `ghidrust project analyze` overwrites saved edits with none (`project.rs:338`, `:50`): habit `"cli"`, `SavedWorkKept`. The GUI's next
  write of the metadata drops what the command line imported (`project.rs:137`).
- A binary opened without importing it is saved under the file that was active (`project_io.rs:252`): habit `"load"`, `ResultsMatchCopy`. So
  is the program that stays open when an import does not load (`project_io.rs:364`): `Loadable` smaller than `Bins`.
- A save interrupted loses the save before (`project.rs:369`): habit `"torn"`, `SavedWorkKept`. The project file is overwritten in place too
  (`project.rs:140`).
- A project created over an existing one inherits its results (`project.rs:99`): habit `"recreate"`, `ResultsMatchCopy`.
- A deletion confirmed after a change of project deletes from the other one (`project_io.rs:151`).

### Of the network tool

- A hint that names no binary leaves the one in the page (`network.rs:506`): a dig picked from a connection without a known owner is of the
  binary of the target before, with the new host.
- Pivots that come in after a dig was picked overwrite the host it named (`network.rs:399`), and Execute then digs with theirs.
- An Execute that does not compile reports it and leaves the plan and the result of the target before on the page (`network.rs:883`).
- Starting a capture clears its pivots (`network.rs:673`), but those of a job under way come in later and are of the capture before
  (`network.rs:389`). Alerts are not cleared, which is why `pivots` and `alerts` have no property.
- Ids of captures are milliseconds (`session.rs:77`): two in one replace each other. The model tells captures apart by their number.
- Stop writes the file while a Detect may be reading it; the flows shown are the first 256 in hash order; captures are never removed.
- Start capture, Refresh connections and Refresh buffer stay enabled while a job is under way.

### Of the terminal

- On Windows the end of the child does not end the output, as the pseudo console is closed with the session only (`pty.rs:97`), and
  `try_read` has no case for it (`pty.rs:163`; its comment at `:159` speaks of exit): a terminal whose child has ended stays until the user
  stops it. `ExitSeen` is of the end of the output.
- A size the system refuses is not asked for again until the window changes (`session.rs:247`, `pty.rs:76`).
- `ESC 8` restores a position without clamping it, so that the cursor may be below a window that was made smaller; `OffScreenIsSaved` says
  that this is the only way.
- EL, ECH, DCH, ICH and a narrower window split wide glyphs, contrary to what `wide_cont` says of itself (`ansi.rs:57`); `GlyphsStayWhole`
  excepts them.
- A line feed below the bottom margin scrolls the region; insertion and deletion of lines from a row above it act on it as well.
- A write to a child that does not read blocks the control thread, so that a shutdown behind it is not served.

### Of SSA

- A loop to the entry gets no phi there (`lib.rs:113`): the entry has no predecessor that stands for the call.
- Code after a return that nothing leads to stays in the block and adds its edge.
- A call has no output, so that a value of `rax` from before it is propagated across it (the lift, `lib.rs:715`, means it to be the result),
  and its arguments are no operands, so that what computes them is removed. `ReadsNoResult` leaves such functions out.
- The size is part of a value's identity but not of its variable: after `mov ecx, 5` a use of `rcx` is of a value nothing defines, so that
  dead code removal drops the definition (`ssa.rs:605`), and a load is given the value of a store through the same address in another width
  (`ssa.rs:716`). The run has such functions; without `OneWidth` `OptimizedAgrees` fails on them.
- Constant folding compares and shifts narrow signed values as wide ones; a folded copy of a constant is folded again in each of the eight
  rounds.

## 8. Not modelled

The map covers a small share of the repository's lines, and most of what is left is of kinds a model says nothing about:

- *Decoder* (tables of some thirty instruction sets), *loaders*, *lifting* and the *parsers* of packets, DNS and TLS, Il2Cpp and
  Unity files: functions from bytes to data, without state between calls. A translation would be as long as the code and be checked against
  itself. `SsaExecution` executes the operations it needs.
- *Structuring, types, decompiler*: heuristics on a printed form; the code defines no right result to compare with.
- *Analyzers, bulk scan, RTTI catalog cache, artifacts*: what they compute is data; their chunks and cache files are written and read by one thread
  in one call.
- *Rules, detection, attribution*: stateless matching of one frame. Three behaviours met while reading: a rule without content panics, a frame of the
  reverse direction raises a second alert, and a match across the border of two payloads counts.
- *GUI shell and panes, navigation history, event bus, terminal view*: layout and drawing; two bounded stacks and a queue emptied in the frame
  that filled it, which have nothing a unit test does not reach.
- *Agent policy and bridge*: a decision table and a request handler. *Command line and MCP server*: one request at a time, but for the two
  commands in `Workbench`.
