----------------------------- MODULE NetworkPane -----------------------------
(***************************************************************************)
(* The network tool of the desktop application                               *)
(* (crates/ghidrust-gui/src/network.rs and network_job.rs).                  *)
(*                                                                         *)
(* Detection, pivots, digs and the connection list are made by one WORKER    *)
(* thread at a time.  Its messages wait in a channel that is read when the   *)
(* tool's window is drawn; until then the user goes on: buttons that start   *)
(* work are grey while a job is under way, but the menu's Refresh            *)
(* Connections and the capture's Start and Stop are not.                     *)
(*                                                                         *)
(* What a job computes is told apart by its SUBJECT, the capture it was given *)
(* or the fields of the Dig page; the flows are the capture's own.  A page    *)
(* has the path of the binary dug into and what is looked for in it, called   *)
(* the host (in the code a host or an ioc; pid, alert and flow label it).     *)
(***************************************************************************)
EXTENDS CaptureSession

CONSTANTS
  Paths, Hosts, \* what the fields of the Dig page hold, None when empty
  Filters       \* the processes a capture is limited to, or None

Fields   == [path : Paths \cup {None}, host : Hosts \cup {None}]
Kinds    == {"dig", "closed_loop", "detect", "pivots", "connections"}
Digs     == {"dig", "closed_loop"}
Subjects == Captures \cup Fields \cup {None}
Jobs     == [kind : Kinds, subject : Subjects]

ASSUME JobAssumption == None \notin Jobs /\ None \notin Fields

Msgs     == [what : {"started", "failed"}] \cup [what : {"done"}, job : Jobs]

VARIABLES
  host_open,    \* the window is drawn
  network_job, worker, msgs,
  session_id, running, flows_cache,   \* the capture shown, its copied state and flows
  pivots, alerts,               \* the capture each was read from
  dig_fields,             \* dig_path, dig_host and the others of the Dig page
  dig_plan, dig_result,   \* the fields each was made from
  picked        \* history: the path on the page and the host named when a dig
                \* was last picked, None where the field was rewritten since

job     == <<network_job, worker, msgs>>
capture == <<captureTable, session_id, running, flows_cache>>
dig     == <<dig_fields, dig_plan, dig_result, picked>>
vars    == <<host_open, job, capture, pivots, alerts, dig>>

TypeOK ==
  /\ host_open \in BOOLEAN /\ network_job \in BOOLEAN /\ running \in BOOLEAN
  /\ worker \in Jobs \cup {None}
  /\ msgs \in Seq(Msgs)
  /\ Len(sessions) <= MaxCaptures
  /\ {session_id, pivots, alerts} \subseteq (1 .. Len(sessions)) \cup {None}
  /\ {dig_fields, picked} \subseteq Fields /\ {dig_plan, dig_result} \subseteq Fields \cup {None}

Empty == [path |-> None, host |-> None]

Init ==
  /\ host_open = TRUE /\ network_job = FALSE /\ worker = None /\ msgs = << >>
  /\ CaptureInit /\ session_id = None /\ running = FALSE
  /\ flows_cache = << >> /\ pivots = None /\ alerts = None
  /\ dig_fields = Empty /\ dig_plan = None /\ dig_result = None /\ picked = Empty

----------------------------------------------------------------------------
(* the worker *)

\* BUG: without ensure_network_idle.
BeginAnyway(kind, subject) ==
  /\ network_job' = TRUE
  /\ worker' = [kind |-> kind, subject |-> subject]
  /\ msgs' = << [what |-> "started"] >>

\* begin_network_job: a job under way is never replaced.
Begin(kind, subject) ==
  IF network_job THEN UNCHANGED job
  ELSE /\ network_job' = TRUE
       /\ worker' = [kind |-> kind, subject |-> subject]
       /\ msgs' = << [what |-> "started"] >>

\* The work ends well or badly; a panic closes the channel without a word.
\* Detection and pivots read the capture's file, a dig the binary at its path.
WorkerEnds ==
  /\ worker # None
  /\ worker' = None
  /\ \/ /\ worker.kind \in {"detect", "pivots"} => worker.subject \in files
        /\ worker.kind \in Digs => worker.subject.path # None
        /\ msgs' = Append(msgs, [what |-> "done", job |-> worker])
     \/ msgs' = Append(msgs, [what |-> "failed"])
     \/ UNCHANGED msgs
  /\ UNCHANGED <<host_open, network_job, capture, pivots, alerts, dig>>

\* A field rewritten by something else than a pick.
Rewrite(part, value) ==
  /\ dig_fields' = [dig_fields EXCEPT ![part] = value]
  /\ picked' = [picked EXCEPT ![part] = None]

\* BUG: the plan is left to what was compiled since.
ApplyResultOnly(j) ==
  /\ alerts' = IF j.kind = "detect" THEN j.subject ELSE alerts
  /\ pivots' = IF j.kind = "pivots" THEN j.subject ELSE pivots
  /\ dig_result' = IF j.kind \in Digs THEN j.subject ELSE dig_result
  /\ UNCHANGED <<dig_fields, dig_plan, picked>>

\* The first name found by Pivots, if there is one, becomes the host of a dig.
Apply(j) ==
  /\ alerts' = IF j.kind = "detect" THEN j.subject ELSE alerts
  /\ pivots' = IF j.kind = "pivots" THEN j.subject ELSE pivots
  /\ IF j.kind \in Digs
     THEN dig_plan' = j.subject /\ dig_result' = j.subject
     ELSE UNCHANGED <<dig_plan, dig_result>>
  /\ \/ j.kind = "pivots" /\ \E h \in Hosts : Rewrite("host", h)
     \/ UNCHANGED <<dig_fields, picked>>

\* BUG: an ended channel counts as one that is empty for now.
PollMissesPanic ==
  LET last == IF msgs = << >> THEN [what |-> "none"] ELSE msgs[Len(msgs)]
  IN
  /\ host_open /\ network_job
  /\ msgs' = << >>
  /\ network_job' = (last.what \in {"none", "started"})
  /\ IF last.what = "done" THEN Apply(last.job) ELSE UNCHANGED <<pivots, alerts, dig>>
  /\ UNCHANGED <<host_open, worker, capture>>

\* poll_network_job reads all there is; only a last message ends a job, or the
\* channel of a worker that is gone.
PollNetworkJob ==
  LET last == IF msgs = << >> THEN [what |-> "none"] ELSE msgs[Len(msgs)]
  IN
  /\ host_open /\ network_job
  /\ msgs' = << >>
  /\ network_job' = (last.what \in {"none", "started"} /\ worker # None)
  /\ IF last.what = "done" THEN Apply(last.job) ELSE UNCHANGED <<pivots, alerts, dig>>
  /\ UNCHANGED <<host_open, worker, capture>>

----------------------------------------------------------------------------
(* the window *)

CloseWindow ==
  /\ host_open /\ host_open' = FALSE
  /\ UNCHANGED <<job, capture, pivots, alerts, dig>>

EnableTool ==
  /\ ~host_open /\ host_open' = TRUE
  /\ UNCHANGED <<job, capture, pivots, alerts, dig>>

\* From the menu, whatever is under way.
RefreshConnections ==
  /\ host_open' = TRUE
  /\ Begin("connections", None)
  /\ UNCHANGED <<capture, pivots, alerts, dig>>

Quiet == host_open /\ ~network_job    \* the buttons that start work

(* captures *)

\* refresh_capture_status and refresh_flows of what is shown.
Refreshed(id) == running' = sessions'[id].running /\ flows_cache' = sessions'[id].table

\* The flows and pivots of the last capture go; a replay may be over its limit
\* at once, which the status that is read next tells.
StartCapture ==
  /\ host_open /\ ~running
  /\ \E replay \in Replays, filter \in Filters : CaptureStart(replay, filter)
  /\ session_id' = Len(sessions')
  /\ Refreshed(session_id')
  /\ pivots' = None
  /\ UNCHANGED <<host_open, job, alerts, dig>>

\* Every 750 ms while the capture shown runs, and by its buttons.
PollCapture ==
  /\ host_open /\ session_id # None
  /\ UNCHANGED captureTable /\ Refreshed(session_id)
  /\ UNCHANGED <<host_open, job, session_id, pivots, alerts, dig>>

\* When the file is not written, what is shown stays.
StopCapture ==
  /\ host_open /\ session_id # None
  /\ \/ CaptureStop(session_id, TRUE) /\ Refreshed(session_id)
     \/ CaptureStop(session_id, FALSE) /\ UNCHANGED <<running, flows_cache>>
  /\ UNCHANGED <<host_open, job, session_id, pivots, alerts, dig>>

ExtractPivots ==
  /\ Quiet /\ session_id # None
  /\ pivots' = None
  /\ Begin("pivots", session_id)
  /\ UNCHANGED <<host_open, capture, alerts, dig>>

\* Detection on the session; a missing rule file ends it before it starts.
Detect ==
  /\ Quiet /\ session_id # None
  /\ alerts' = None
  /\ Begin("detect", session_id)
  /\ UNCHANGED <<host_open, capture, pivots, dig>>

(* digs *)

\* A hint overwrites the fields it has a value for.
Merged(hint) == [part \in DOMAIN dig_fields |-> IF hint[part] = None THEN dig_fields[part] ELSE hint[part]]

\* BUG: the plan and the result of the last dig stay.
HintKeepsOutputs(hint) ==
  /\ dig_fields' = Merged(hint)
  /\ picked' = [hint EXCEPT !.path = dig_fields'.path]
  /\ UNCHANGED <<dig_plan, dig_result>>

ApplyHint(hint) ==
  /\ dig_fields' = Merged(hint)
  /\ picked' = [hint EXCEPT !.path = dig_fields'.path]
  /\ dig_plan' = None /\ dig_result' = None

\* From a connection or a flow: its remote end, the path where the owner is known.
DigFrom(hint) ==
  /\ Quiet /\ hint.host # None
  /\ ApplyHint(hint)
  /\ UNCHANGED <<host_open, job, capture, pivots, alerts>>

\* From an alert: the path of its owner, or of the page, is dug into at once when
\* there is one, for the alert's own host or else the far end of its flow.
DigFromAlert(hint) ==
  /\ Quiet /\ alerts # None
  /\ ApplyHint(hint)
  /\ IF dig_fields'.path = None THEN UNCHANGED job
     ELSE \E host \in IF hint.host = None THEN Hosts \cup {None} ELSE {hint.host} :
            Begin("closed_loop", [dig_fields' EXCEPT !.host = host])
  /\ UNCHANGED <<host_open, capture, pivots, alerts>>

\* Typed, browsed for or, a host, clicked among the pivots.
TypeField ==
  /\ host_open
  /\ \/ \E path \in Paths \cup {None} : Rewrite("path", path)
     \/ \E host \in Hosts \cup {None} : Rewrite("host", host)
  /\ UNCHANGED <<host_open, job, capture, pivots, alerts, dig_plan, dig_result>>

\* compile_playbook wants a path, or the pid of a process whose path is to be found.
MayReject == dig_fields.path = None

CompileDig ==
  /\ Quiet
  /\ \/ dig_plan' = dig_fields
     \/ MayReject /\ dig_plan' = None
  /\ dig_result' = None
  /\ UNCHANGED <<host_open, job, capture, pivots, alerts, dig_fields, picked>>

\* What does not compile leaves the plan and the result there were.
ExecuteDig ==
  /\ Quiet
  /\ \/ /\ dig_plan' = dig_fields /\ dig_result' = None
        /\ Begin("dig", dig_fields)
     \/ MayReject /\ UNCHANGED <<dig_plan, dig_result, job>>
  /\ UNCHANGED <<host_open, capture, pivots, alerts, dig_fields, picked>>

Next ==
  \/ WorkerEnds \/ PollNetworkJob
  \/ CloseWindow \/ EnableTool \/ RefreshConnections
  \/ StartCapture \/ PollCapture \/ StopCapture \/ ExtractPivots \/ Detect
  \/ TypeField \/ CompileDig \/ ExecuteDig
  \/ \E hint \in Fields : DigFrom(hint) \/ DigFromAlert(hint)

Spec == Init /\ [][Next]_vars

(* The worker runs on; the window is drawn again and again while it is open. *)
FairSpec == Spec /\ WF_vars(WorkerEnds) /\ WF_vars(PollNetworkJob)

----------------------------------------------------------------------------
(* Properties *)

(* After a dig was picked from a connection, a flow or an alert, a result on  *)
(* the page was made for the path the page had with that pick and for the    *)
(* host the pick names, never for an earlier target's, whatever jobs end in   *)
(* between.  A field the user rewrote since is left out, and so is a host     *)
(* that Pivots overwrote.  A pick that names no path keeps the one there was: *)
(* apply_hint merges, and the binary dug into is then still the last one.     *)
Agrees(pick, f) == \A part \in {"path", "host"} : pick[part] # None => f[part] = pick[part]
ResultIsOfThePick == dig_result # None => Agrees(picked, dig_result)

(* The plan beside a result is the one that was executed.                    *)
PlanIsOfTheResult == dig_result # None => dig_plan = dig_result

(* The flows listed are the conversations of the capture shown: of the frames *)
(* it kept, the longest start of its replay within the limit, with the bytes  *)
(* each side sent and the first process seen.                                *)
FlowsAreOfTheSession ==
  flows_cache = IF session_id = None THEN << >>
                ELSE LET shown == sessions[session_id]
                     IN FlowsOf(shown.replay, Kept(shown.replay, shown.filter))

(* While the window is open every job comes to an end for the UI, also one   *)
(* whose worker panics.                                                      *)
JobEnds == network_job ~> (~network_job \/ ~host_open)

(* The pane implements the job channel: one worker at a time, whose messages  *)
(* wait in the order sent, leave the channel when they are read, and end the  *)
(* job with the last.                                                        *)
Channel == INSTANCE JobChannel WITH
  on <- network_job, working <- worker # None, queue <- msgs
ChannelKept == Channel!Spec
=============================================================================
