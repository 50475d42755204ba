-------------------------- MODULE NetworkPaneProofs --------------------------
(***************************************************************************)
(* What holds of NetworkPane for any captures, replays and dig targets: the  *)
(* flows shown are those of the frames the capture kept, the dig shown is of  *)
(* the target picked, its plan is the one executed, and the pane implements   *)
(* the job channel.                                                          *)
(***************************************************************************)
EXTENDS NetworkPane, SequenceTheorems, InductionLemmas

Dig(j) == j.kind \in Digs

\* The UI, the worker and the channel agree on whether there is a job, and the
\* worker's last word is its only one but "started".
JobSound ==
  /\ network_job \in BOOLEAN
  /\ worker \in Jobs \cup {None}
  /\ msgs \in Seq(Msgs)
  /\ ~network_job => worker = None /\ msgs = << >>
  /\ worker # None => \A i \in 1 .. Len(msgs) : msgs[i].what = "started"

\* What the page holds agrees with the pick, and so does a dig on its way.
DigSound ==
  /\ dig_fields \in Fields /\ picked \in Fields
  /\ Agrees(picked, dig_fields)
  /\ worker # None /\ Dig(worker) => Agrees(picked, worker.subject)
  /\ \A i \in 1 .. Len(msgs) :
       msgs[i].what = "done" /\ Dig(msgs[i].job) => Agrees(picked, msgs[i].job.subject)

\* The capture shown is one that was started.
CapturesSound ==
  /\ sessions \in Seq(Range(sessions)) /\ Len(sessions) <= MaxCaptures
  /\ session_id \in (1 .. Len(sessions)) \cup {None}

Inv == JobSound /\ DigSound /\ CapturesSound /\ ResultIsOfThePick

-----------------------------------------------------------------------------
(* Lemmas about the job *)

\* A job is a record, and none.
LEMMA JobRecord ==
  ASSUME NEW kind \in Kinds, NEW subject \in Subjects
  PROVE  [kind |-> kind, subject |-> subject] \in Jobs \ {None}
  BY JobAssumption DEF Jobs

\* Beginning a job leaves UI, worker and channel agreed.
LEMMA BeginSound ==
  ASSUME JobSound, NEW kind \in Kinds, NEW subject \in Subjects, Begin(kind, subject)
  PROVE  /\ JobSound'
         /\ network_job => UNCHANGED job
         /\ ~network_job => /\ worker' = [kind |-> kind, subject |-> subject] /\ worker' # None
                            /\ Len(msgs') = 1 /\ msgs'[1].what = "started"
<1>1. CASE network_job
  BY <1>1 DEF Begin, JobSound, job
<1>2. CASE ~network_job
  <2>1. /\ network_job' = TRUE
        /\ worker' = [kind |-> kind, subject |-> subject]
        /\ msgs' = << [what |-> "started"] >>
    BY <1>2 DEF Begin
  <2>2. worker' \in Jobs \ {None}
    BY <2>1, JobRecord
  <2>3. [what |-> "started"] \in Msgs
    BY DEF Msgs
  <2>4. msgs' \in Seq(Msgs) /\ Len(msgs') = 1 /\ msgs'[1].what = "started"
    BY <2>1, <2>3
  <2> QED
    BY <1>2, <2>1, <2>2, <2>4 DEF JobSound
<1> QED
  BY <1>1, <1>2 DEF JobSound

\* The worker's end is the last message, if there is one at all.
LEMMA WorkerEndsSound ==
  ASSUME JobSound, WorkerEnds
  PROVE  /\ JobSound' /\ network_job /\ worker' = None
         /\ \A i \in 1 .. Len(msgs') : msgs'[i].what = "done" => msgs'[i].job = worker
<1>1. /\ network_job /\ network_job' = network_job /\ worker' = None /\ worker \in Jobs
      /\ \A i \in 1 .. Len(msgs) : msgs[i].what = "started"
      /\ msgs \in Seq(Msgs)
  BY DEF JobSound, WorkerEnds
<1>2. ASSUME NEW m \in Msgs, msgs' = Append(msgs, m)
      PROVE  /\ msgs' \in Seq(Msgs) /\ Len(msgs') = Len(msgs) + 1
             /\ \A i \in 1 .. Len(msgs') : msgs'[i] = m \/ msgs'[i].what = "started"
  <2>1. /\ Append(msgs, m) \in Seq(Msgs) /\ Len(Append(msgs, m)) = Len(msgs) + 1
        /\ Append(msgs, m)[Len(msgs) + 1] = m
        /\ \A i \in 1 .. Len(msgs) : Append(msgs, m)[i] = msgs[i]
    BY <1>1, AppendProperties
  <2>2. ASSUME NEW i \in 1 .. Len(msgs')
        PROVE  i \in 1 .. Len(msgs) \/ i = Len(msgs) + 1
    BY <1>1, <1>2, <2>1
  <2> QED
    BY <1>1, <1>2, <2>1, <2>2
<1>3. [what |-> "done", job |-> worker] \in Msgs /\ [what |-> "failed"] \in Msgs
  BY <1>1 DEF Msgs
<1>4. CASE msgs' = Append(msgs, [what |-> "done", job |-> worker])
  BY <1>1, <1>2, <1>3, <1>4 DEF JobSound
<1>5. CASE msgs' = Append(msgs, [what |-> "failed"])
  BY <1>1, <1>2, <1>3, <1>5 DEF JobSound
<1>6. CASE msgs' = msgs
  BY <1>1, <1>6 DEF JobSound
<1> QED
  BY <1>4, <1>5, <1>6 DEF WorkerEnds

\* The poll takes every message; a job whose worker is gone is over with it.
LEMMA PollSound ==
  ASSUME JobSound, PollNetworkJob
  PROVE  /\ JobSound' /\ network_job' = (worker # None) /\ UNCHANGED worker /\ msgs' = << >>
         /\ \/ UNCHANGED dig
            \/ /\ Len(msgs) \in 1 .. Len(msgs)
               /\ msgs[Len(msgs)].what = "done" /\ Apply(msgs[Len(msgs)].job)
<1> DEFINE last == IF msgs = << >> THEN [what |-> "none"] ELSE msgs[Len(msgs)]
<1>1. /\ msgs' = << >> /\ UNCHANGED worker
      /\ network_job' = (last.what \in {"none", "started"} /\ worker # None)
      /\ IF last.what = "done" THEN Apply(last.job) ELSE UNCHANGED <<pivots, alerts, dig>>
  BY DEF PollNetworkJob
<1>2. msgs # << >> => Len(msgs) \in 1 .. Len(msgs) /\ last = msgs[Len(msgs)]
  BY EmptySeq, LenProperties DEF JobSound
<1>3. worker # None => last.what \in {"none", "started"}
  BY <1>2 DEF JobSound
<1>4. network_job' = (worker # None)
  BY <1>1, <1>3
<1>5. msgs' \in Seq(Msgs) /\ Len(msgs') = 0
  BY <1>1
<1>6. JobSound'
  BY <1>1, <1>4, <1>5 DEF JobSound
<1>7. last.what = "done" => msgs # << >>
  OBVIOUS
<1> QED
  BY <1>1, <1>2, <1>4, <1>6, <1>7

-----------------------------------------------------------------------------
(* The dig shown *)

\* A new subject is picked while no dig is on its way.
LEMMA QuietSound ==
  ASSUME JobSound, Quiet
  PROVE  ~network_job /\ worker = None /\ Len(msgs) = 0
  BY DEF JobSound, Quiet

\* A field rewritten is one the pick no longer speaks of.
LEMMA RewriteWeakens ==
  ASSUME DigSound, NEW part \in {"path", "host"}, NEW value,
         [dig_fields EXCEPT ![part] = value] \in Fields, Rewrite(part, value)
  PROVE  /\ dig_fields' \in Fields /\ picked' \in Fields /\ Agrees(picked', dig_fields')
         /\ \A f : Agrees(picked, f) => Agrees(picked', f)
<1>1. dig_fields' \in Fields /\ dig_fields'[part] = value
  BY DEF Rewrite, DigSound, Fields
<1>2. picked' = [picked EXCEPT ![part] = None]
  BY DEF Rewrite
<1>3. picked' \in Fields /\ picked'[part] = None
  BY <1>2 DEF DigSound, Fields
<1>4. \A other \in {"path", "host"} \ {part} :
        picked'[other] = picked[other] /\ dig_fields'[other] = dig_fields[other]
  BY <1>2 DEF Rewrite, DigSound, Fields
<1> QED
  BY <1>1, <1>3, <1>4 DEF Agrees, DigSound

\* A hint's fields are the page's, and the pick speaks of no other.
LEMMA HintAgrees ==
  ASSUME DigSound, NEW hint \in Fields, ApplyHint(hint)
  PROVE  /\ dig_fields' \in Fields /\ picked' \in Fields /\ Agrees(picked', dig_fields')
         /\ picked'["path"] = dig_fields'["path"] /\ picked'["host"] = hint["host"]
<1>1. DOMAIN dig_fields = {"path", "host"} /\ DOMAIN hint = {"path", "host"}
  BY DEF DigSound, Fields
<1>2. dig_fields' = Merged(hint) /\ picked' = [hint EXCEPT !.path = dig_fields'.path]
  BY DEF ApplyHint
<1>3. /\ DOMAIN dig_fields' = {"path", "host"}
      /\ dig_fields'["path"] = IF hint["path"] = None THEN dig_fields["path"] ELSE hint["path"]
      /\ dig_fields'["host"] = IF hint["host"] = None THEN dig_fields["host"] ELSE hint["host"]
  BY <1>1, <1>2 DEF Merged
<1>4. dig_fields' \in Fields
  BY <1>1, <1>2, <1>3 DEF Merged, DigSound, Fields
<1>5. picked' \in Fields /\ picked'["path"] = dig_fields'["path"] /\ picked'["host"] = hint["host"]
  BY <1>2, <1>4 DEF Fields
<1> QED
  BY <1>3, <1>4, <1>5 DEF Agrees

\* Beginning a job of another kind, or a dig into what the page holds.
LEMMA BeginKeepsDig ==
  ASSUME JobSound, DigSound, NEW kind \in Kinds, NEW subject \in Subjects,
         Begin(kind, subject), UNCHANGED <<dig_fields, picked>>,
         kind \in Digs => subject = dig_fields
  PROVE  DigSound'
<1>0. \A f : Agrees(picked', f) <=> Agrees(picked, f)
  BY DEF Agrees
<1>1. CASE network_job
  BY <1>0, <1>1, BeginSound DEF DigSound, job
<1>2. CASE ~network_job
  BY <1>0, <1>2, BeginSound DEF DigSound, Dig
<1> QED
  BY <1>1, <1>2 DEF JobSound

-----------------------------------------------------------------------------
(* The captures *)

\* A capture that starts is the last one of the table.
LEMMA CaptureStartSound ==
  ASSUME CapturesSound, NEW replay, NEW filter, CaptureStart(replay, filter),
         session_id' = Len(sessions')
  PROVE  CapturesSound'
<1> DEFINE s == Started(replay, filter)
           S == Range(sessions) \cup {s}
<1>1. sessions' = Append(sessions, s) /\ Len(sessions) < MaxCaptures
  BY DEF CaptureStart
<1>2. sessions \in Seq(S)
  BY SeqMonotonic DEF CapturesSound
<1> HIDE DEF s, S
<1>3. sessions' \in Seq(S) /\ Len(sessions') = Len(sessions) + 1
  BY <1>1, <1>2, AppendProperties DEF S
<1>4. sessions' \in Seq(Range(sessions'))
  BY <1>3, SeqOfRange
<1>5. Len(sessions) \in Nat /\ MaxCaptures \in Nat
  BY <1>2, LenProperties, CaptureAssumption
<1> QED
  BY <1>1, <1>3, <1>4, <1>5 DEF CapturesSound

\* One that is stopped stays where it is.
LEMMA CaptureStopSound ==
  ASSUME CapturesSound, session_id # None, NEW written, CaptureStop(session_id, written),
         UNCHANGED session_id
  PROVE  CapturesSound'
<1> DEFINE e == [sessions[session_id] EXCEPT !.running = FALSE]
           S == Range(sessions) \cup {e}
<1>1. sessions' = [sessions EXCEPT ![session_id] = e]
  BY DEF CaptureStop
<1>2. sessions \in Seq(S) /\ session_id \in 1 .. Len(sessions)
  BY SeqMonotonic DEF CapturesSound
<1> HIDE DEF e, S
<1>3. sessions' \in Seq(S) /\ Len(sessions') = Len(sessions)
  BY <1>1, <1>2, ExceptSeq DEF S
<1>4. sessions' \in Seq(Range(sessions'))
  BY <1>3, SeqOfRange
<1> QED
  BY <1>3, <1>4 DEF CapturesSound

LEMMA SubjectType ==
  ASSUME CapturesSound
  PROVE  session_id \in Subjects
<1>1. Len(sessions) \in Nat /\ MaxCaptures \in Nat
  BY LenProperties, CaptureAssumption DEF CapturesSound
<1> QED
  BY <1>1 DEF CapturesSound, Subjects, Captures

-----------------------------------------------------------------------------
(* The dig shown is that of the target picked, the plan beside it its own, and *)
(* a job is taken once.                                                      *)

LEMMA InitInv == Init => Inv
<1> SUFFICES ASSUME Init
             PROVE  Inv
  OBVIOUS
<1>1. \A S : << >> \in Seq(S) /\ Len(<< >>) = 0
  BY EmptySeq
<1>2. JobSound
  BY <1>1, JobAssumption DEF Init, JobSound
<1>4. DigSound
  BY <1>1 DEF Init, DigSound, Empty, Fields, Agrees
<1>3. CapturesSound
  BY <1>1, CaptureAssumption DEF Init, CaptureInit, CapturesSound
<1> QED
  BY <1>2, <1>3, <1>4 DEF Init, Inv, ResultIsOfThePick

\* Steps that leave the job and the dig alone.
LEMMA IdleInv ==
  ASSUME Inv, UNCHANGED job, UNCHANGED dig, CapturesSound'
  PROVE  Inv'
  BY DEF Inv, JobSound, DigSound, ResultIsOfThePick, Agrees, job, dig

\* Beginning a job that is no dig.
LEMMA OtherJobInv ==
  ASSUME Inv, NEW kind \in {"detect", "pivots", "connections"}, NEW subject \in Subjects,
         Begin(kind, subject), UNCHANGED dig, CapturesSound'
  PROVE  Inv'
<1>1. JobSound' /\ DigSound'
  BY BeginSound, BeginKeepsDig DEF Inv, Kinds, Digs, dig
<1> QED
  BY <1>1 DEF Inv, ResultIsOfThePick, Agrees, dig

\* A new pick clears what is shown, and no dig is on its way.
LEMMA PickInv ==
  ASSUME Inv, NEW hint \in Fields, DigFrom(hint), CapturesSound'
  PROVE  Inv'
<1>1. ~network_job /\ worker = None /\ Len(msgs) = 0
  BY QuietSound DEF Inv, DigFrom
<1>2. ApplyHint(hint) /\ dig_result' = None /\ UNCHANGED job
  BY DEF DigFrom, ApplyHint
<1>3. JobSound' /\ DigSound'
  BY <1>1, <1>2, HintAgrees DEF Inv, JobSound, DigSound, job
<1> QED
  BY <1>2, <1>3 DEF Inv, ResultIsOfThePick

LEMMA AlertInv ==
  ASSUME Inv, NEW hint \in Fields, DigFromAlert(hint), CapturesSound'
  PROVE  Inv'
<1>1. ~network_job /\ worker = None /\ Len(msgs) = 0
  BY QuietSound DEF Inv, DigFromAlert
<1>2. ApplyHint(hint) /\ dig_result' = None
  BY DEF DigFromAlert, ApplyHint
<1>3. CASE UNCHANGED job
  BY <1>1, <1>2, <1>3, HintAgrees DEF Inv, JobSound, DigSound, ResultIsOfThePick, job
<1>4. ASSUME NEW host \in IF hint.host = None THEN Hosts \cup {None} ELSE {hint.host},
             Begin("closed_loop", [dig_fields' EXCEPT !.host = host])
      PROVE  Inv'
  <2> DEFINE subject == [dig_fields' EXCEPT !.host = host]
  <2>1. dig_fields' \in Fields /\ picked'["path"] = dig_fields'["path"] /\ picked'["host"] = hint["host"]
    BY <1>2, HintAgrees DEF Inv
  <2>2. subject \in Fields /\ subject["path"] = dig_fields'["path"] /\ subject["host"] = host
    BY <1>4, <2>1 DEF Fields
  <2>3. Agrees(picked', subject)
    BY <1>4, <2>1, <2>2 DEF Agrees
  <2> HIDE DEF subject
  <2>4. Begin("closed_loop", subject) /\ subject \in Subjects
    BY <1>4, <2>2 DEF Subjects, subject
  <2>5. JobSound' /\ worker' = [kind |-> "closed_loop", subject |-> subject]
        /\ Len(msgs') = 1 /\ msgs'[1].what = "started"
    BY <1>1, <2>4, BeginSound DEF Inv, Kinds
  <2>6. DigSound'
    <3>1. worker'.subject = subject
      BY <2>5
    <3>2. Agrees(picked', worker'.subject)
      BY <2>3, <3>1 DEF Agrees
    <3> QED
      BY <1>2, <2>5, <3>2, HintAgrees DEF Inv, DigSound
  <2> QED
    BY <1>2, <2>5, <2>6 DEF Inv, ResultIsOfThePick
<1> QED
  BY <1>3, <1>4 DEF DigFromAlert

\* Executing a dig into what the page's fields hold.
LEMMA ExecuteInv ==
  ASSUME Inv, ExecuteDig, CapturesSound'
  PROVE  Inv'
<1>1. UNCHANGED <<dig_fields, picked>> /\ (dig_result' = None \/ UNCHANGED dig_result)
  BY DEF ExecuteDig
<1>2. CASE UNCHANGED job
  BY <1>1, <1>2 DEF Inv, JobSound, DigSound, ResultIsOfThePick, Agrees, job
<1>3. CASE Begin("dig", dig_fields)
  <2>1. JobSound' /\ DigSound'
    BY <1>1, <1>3, BeginSound, BeginKeepsDig DEF Inv, DigSound, Kinds, Subjects
  <2> QED
    BY <1>1, <2>1 DEF Inv, ResultIsOfThePick, Agrees
<1> QED
  BY <1>2, <1>3 DEF ExecuteDig, job

LEMMA TypeInv ==
  ASSUME Inv, TypeField, CapturesSound'
  PROVE  Inv'
<1>1. UNCHANGED <<job, dig_result>>
  BY DEF TypeField
<1>2. PICK part \in {"path", "host"}, value \in Paths \cup Hosts \cup {None} :
        [dig_fields EXCEPT ![part] = value] \in Fields /\ Rewrite(part, value)
  BY DEF TypeField, Inv, DigSound, Fields
<1>3. /\ dig_fields' \in Fields /\ picked' \in Fields /\ Agrees(picked', dig_fields')
      /\ \A f : Agrees(picked, f) => Agrees(picked', f)
  BY <1>2, RewriteWeakens DEF Inv
<1>4. DigSound'
  <2>1. worker # None /\ Dig(worker) => Agrees(picked', worker.subject)
    BY <1>1, <1>3 DEF Inv, DigSound
  <2> QED
    BY <1>1, <1>3, <2>1 DEF Inv, DigSound, job
<1> QED
  BY <1>1, <1>3, <1>4 DEF Inv, JobSound, ResultIsOfThePick, job

LEMMA PollInv ==
  ASSUME Inv, PollNetworkJob, CapturesSound'
  PROVE  Inv'
<1>1. JobSound' /\ worker' = worker /\ Len(msgs') = 0
  BY PollSound, EmptySeq DEF Inv
<1>2. CASE UNCHANGED dig
  BY <1>1, <1>2 DEF Inv, DigSound, ResultIsOfThePick, Agrees, dig
<1>3. CASE /\ Len(msgs) \in 1 .. Len(msgs)
           /\ msgs[Len(msgs)].what = "done" /\ Apply(msgs[Len(msgs)].job)
  <2> DEFINE j == msgs[Len(msgs)].job
  <2>1. dig_result' = IF Dig(j) THEN j.subject ELSE dig_result
    BY <1>3 DEF Apply, Dig
  <2>2. Dig(j) => Agrees(picked, j.subject)
    BY <1>3 DEF Inv, DigSound
  <2>3. /\ dig_fields' \in Fields /\ picked' \in Fields /\ Agrees(picked', dig_fields')
        /\ \A f : Agrees(picked, f) => Agrees(picked', f)
    <3>1. CASE UNCHANGED <<dig_fields, picked>>
      BY <3>1 DEF Inv, DigSound, Agrees
    <3>2. ASSUME NEW h \in Hosts, Rewrite("host", h)
          PROVE  /\ dig_fields' \in Fields /\ picked' \in Fields /\ Agrees(picked', dig_fields')
                 /\ \A f : Agrees(picked, f) => Agrees(picked', f)
      <4>1. [dig_fields EXCEPT !["host"] = h] \in Fields
        BY DEF Inv, DigSound, Fields
      <4> QED
        BY <3>2, <4>1, RewriteWeakens DEF Inv
    <3> QED
      BY <1>3, <3>1, <3>2 DEF Apply
  <2>7. dig_result' # None => Agrees(picked', dig_result')
    BY <2>1, <2>2, <2>3 DEF Inv, ResultIsOfThePick
  <2> HIDE DEF j
  <2>4. worker # None /\ Dig(worker) => Agrees(picked', worker.subject)
    BY <2>3 DEF Inv, DigSound
  <2>5. DigSound'
    BY <1>1, <2>3, <2>4 DEF DigSound, Agrees
  <2> QED
    BY <1>1, <2>5, <2>7 DEF Inv, ResultIsOfThePick
<1> QED
  BY <1>2, <1>3, PollSound DEF Inv

LEMMA WorkerInv ==
  ASSUME Inv, WorkerEnds, CapturesSound'
  PROVE  Inv'
<1>1. /\ JobSound' /\ UNCHANGED dig /\ worker' = None /\ worker # None
      /\ \A i \in 1 .. Len(msgs') : msgs'[i].what = "done" => msgs'[i].job = worker
  BY WorkerEndsSound DEF Inv, WorkerEnds
<1>2. DigSound'
  BY <1>1 DEF Inv, DigSound, Agrees, dig
<1> QED
  BY <1>1, <1>2 DEF Inv, ResultIsOfThePick, Agrees, dig

LEMMA StepInv == Inv /\ [Next]_vars => Inv'
<1> SUFFICES ASSUME Inv, [Next]_vars
             PROVE  Inv'
  OBVIOUS
<1>0. UNCHANGED <<sessions, session_id>> => CapturesSound'
  BY DEF Inv, CapturesSound
<1> DEFINE StaysOn == UNCHANGED <<sessions, session_id>>
<1>1. CASE WorkerEnds
  BY <1>0, <1>1, WorkerInv DEF WorkerEnds, capture, captureTable
<1>2. CASE PollNetworkJob
  BY <1>0, <1>2, PollInv DEF PollNetworkJob, capture, captureTable
<1>3. CASE CloseWindow \/ EnableTool \/ UNCHANGED vars
  <2>1. UNCHANGED <<job, dig>> /\ StaysOn
    BY <1>3 DEF CloseWindow, EnableTool, vars, capture, captureTable
  <2> QED
    BY <1>0, <2>1, IdleInv
<1>4. CASE StartCapture
  <2>1. UNCHANGED <<job, dig>> /\ session_id' = Len(sessions')
    BY <1>4 DEF StartCapture
  <2>2. PICK replay \in Replays, filter \in Filters : CaptureStart(replay, filter)
    BY <1>4 DEF StartCapture
  <2> QED
    BY <2>1, <2>2, CaptureStartSound, IdleInv DEF Inv
<1>5. CASE PollCapture
  <2>1. UNCHANGED <<job, dig>> /\ StaysOn
    BY <1>5 DEF PollCapture, captureTable
  <2> QED
    BY <1>0, <2>1, IdleInv
<1>6. CASE StopCapture
  <2>1. UNCHANGED <<job, dig>> /\ UNCHANGED session_id /\ session_id # None
    BY <1>6 DEF StopCapture
  <2>2. PICK written \in BOOLEAN : CaptureStop(session_id, written)
    BY <1>6 DEF StopCapture
  <2> QED
    BY <2>1, <2>2, CaptureStopSound, IdleInv DEF Inv
<1>7. CASE RefreshConnections
  <2>1. Begin("connections", None) /\ UNCHANGED dig /\ StaysOn
    BY <1>7 DEF RefreshConnections, capture, captureTable
  <2> QED
    BY <1>0, <2>1, OtherJobInv DEF Kinds, Subjects
<1>8. CASE ExtractPivots
  <2>1. Begin("pivots", session_id) /\ UNCHANGED dig /\ StaysOn
    BY <1>8 DEF ExtractPivots, capture, captureTable
  <2> QED
    BY <1>0, <2>1, OtherJobInv, SubjectType DEF Inv, Kinds
<1>9. CASE Detect
  <2>1. Begin("detect", session_id) /\ UNCHANGED dig /\ StaysOn
    BY <1>9 DEF Detect, capture, captureTable
  <2> QED
    BY <1>0, <2>1, OtherJobInv, SubjectType DEF Inv, Kinds
<1>10. CASE TypeField \/ CompileDig \/ ExecuteDig
  <2>1. StaysOn
    BY <1>10 DEF TypeField, CompileDig, ExecuteDig, capture, captureTable
  <2>2. CASE CompileDig
    <3>1. UNCHANGED job /\ UNCHANGED <<dig_fields, picked>> /\ dig_result' = None
      BY <2>2 DEF CompileDig
    <3> QED
      BY <1>0, <2>1, <3>1 DEF Inv, JobSound, DigSound, ResultIsOfThePick, Agrees, job
  <2> QED
    BY <1>0, <1>10, <2>1, <2>2, TypeInv, ExecuteInv
<1>11. ASSUME NEW hint \in Fields, DigFrom(hint) \/ DigFromAlert(hint)
       PROVE  Inv'
  <2>1. StaysOn
    BY <1>11 DEF DigFrom, DigFromAlert, capture, captureTable
  <2> QED
    BY <1>0, <1>11, <2>1, PickInv, AlertInv
<1> QED
  BY <1>1, <1>2, <1>3, <1>4, <1>5, <1>6, <1>7, <1>8, <1>9, <1>10, <1>11 DEF Next

(* After a dig was picked from a connection, a flow or an alert, the result    *)
(* on the page is never that of an earlier pick's fields: it was made for the   *)
(* path the page had with the pick and the host the pick names, where neither   *)
(* was rewritten since (apply_net_worker_msg, apply_hint).                    *)
THEOREM PickKept == Spec => []ResultIsOfThePick
<1>1. Inv => ResultIsOfThePick
  BY DEF Inv
<1> QED
  BY InitInv, StepInv, <1>1, PTL DEF Spec

(* The plan beside a result is the one that was executed.                    *)
THEOREM PlanKept == Spec => []PlanIsOfTheResult
<1>1. Init => PlanIsOfTheResult
  BY DEF Init, PlanIsOfTheResult
<1>2. PlanIsOfTheResult /\ [Next]_vars => PlanIsOfTheResult'
  <2> SUFFICES ASSUME PlanIsOfTheResult, [Next]_vars
               PROVE  PlanIsOfTheResult'
    OBVIOUS
  <2>1. \A j : Apply(j) => PlanIsOfTheResult'
    BY DEF Apply, PlanIsOfTheResult
  <2>2. CASE PollNetworkJob
    BY <2>1, <2>2 DEF PollNetworkJob, PlanIsOfTheResult, dig
  <2>3. CASE UNCHANGED dig
    BY <2>3 DEF PlanIsOfTheResult, dig
  <2>4. CASE TypeField \/ CompileDig \/ ExecuteDig
    BY <2>4 DEF TypeField, CompileDig, ExecuteDig, PlanIsOfTheResult
  <2>5. ASSUME NEW hint \in Fields, DigFrom(hint) \/ DigFromAlert(hint)
        PROVE  PlanIsOfTheResult'
    BY <2>5 DEF DigFrom, DigFromAlert, ApplyHint, PlanIsOfTheResult
  <2>6. CASE WorkerEnds \/ CloseWindow \/ EnableTool \/ RefreshConnections
             \/ StartCapture \/ PollCapture \/ StopCapture \/ ExtractPivots \/ Detect
             \/ UNCHANGED vars
    <3>1. UNCHANGED dig
      BY <2>6 DEF WorkerEnds, CloseWindow, EnableTool, RefreshConnections, StartCapture,
                  PollCapture, StopCapture, ExtractPivots, Detect, vars
    <3> QED
      BY <2>3, <3>1
  <2> QED
    BY <2>2, <2>4, <2>5, <2>6 DEF Next
<1> QED
  BY <1>1, <1>2, PTL DEF Spec

-----------------------------------------------------------------------------
(* The job channel *)

\* Beginning a job is its start, or nothing.
LEMMA BeginStarts ==
  ASSUME JobSound, NEW kind \in Kinds, NEW subject \in Subjects, Begin(kind, subject)
  PROVE  Channel!Start \/ UNCHANGED Channel!vars
<1>1. CASE network_job
  BY <1>1, BeginSound DEF Channel!vars, job
<1>2. CASE ~network_job
  <2>1. DOMAIN msgs' = {1} /\ network_job' = TRUE /\ worker' # None
    BY <1>2, BeginSound DEF Begin
  <2> QED
    BY <1>2, <2>1 DEF Channel!Start, JobSound
<1> QED
  BY <1>1, <1>2

\* The worker's end adds its last word to the channel, or nothing.
LEMMA WorkerEndsChannel ==
  ASSUME JobSound, WorkerEnds
  PROVE  Channel!End
<1>1. /\ network_job /\ worker # None /\ worker' = None /\ UNCHANGED network_job
      /\ msgs \in Seq(Msgs) /\ worker \in Jobs
  BY DEF JobSound, WorkerEnds
<1>2. ASSUME NEW m \in Msgs, msgs' = Append(msgs, m)
      PROVE  Channel!OneMore
  <2>1. DOMAIN msgs' = 1 .. Len(msgs) + 1 /\ Len(msgs) \in Nat /\ msgs'[Len(msgs) + 1] = m
    BY <1>1, <1>2, AppendProperties, LenProperties
  <2> QED
    BY <1>2, <2>1 DEF Channel!OneMore
<1>3. [what |-> "done", job |-> worker] \in Msgs /\ [what |-> "failed"] \in Msgs
  BY <1>1 DEF Msgs
<1>4. Channel!OneMore \/ UNCHANGED msgs
  BY <1>2, <1>3 DEF WorkerEnds
<1> QED
  BY <1>1, <1>4 DEF Channel!End

LEMMA StepOfChannel ==
  Inv /\ [Next]_vars => [Channel!Next]_(Channel!vars)
<1> SUFFICES ASSUME Inv, [Next]_vars
             PROVE  Channel!Next \/ UNCHANGED Channel!vars
  OBVIOUS
<1> USE DEF Channel!Next
<1>0. UNCHANGED job => UNCHANGED Channel!vars
  BY DEF job, Channel!vars
<1>1. CASE WorkerEnds
  BY <1>1, WorkerEndsChannel DEF Inv
<1>2. CASE PollNetworkJob
  <2>1. network_job /\ network_job' = (worker # None) /\ worker' = worker /\ msgs' = << >>
    BY <1>2, PollSound DEF Inv, PollNetworkJob
  <2> QED
    BY <2>1 DEF Channel!Take
<1>3. CASE CloseWindow \/ EnableTool \/ StartCapture \/ PollCapture \/ StopCapture
           \/ TypeField \/ CompileDig \/ UNCHANGED vars
  BY <1>0, <1>3 DEF CloseWindow, EnableTool, StartCapture, PollCapture, StopCapture,
                    TypeField, CompileDig, vars
<1>4. CASE RefreshConnections \/ ExtractPivots \/ Detect
  <2>1. PICK kind \in Kinds, subject \in Subjects : Begin(kind, subject)
    BY <1>4, SubjectType DEF Inv, RefreshConnections, ExtractPivots, Detect, Kinds, Subjects
  <2> QED
    BY <2>1, BeginStarts DEF Inv
<1>5. CASE ExecuteDig
  <2>1. UNCHANGED job \/ Begin("dig", dig_fields)
    BY <1>5 DEF ExecuteDig
  <2> QED
    BY <1>0, <2>1, BeginStarts DEF Inv, DigSound, Kinds, Subjects
<1>6. ASSUME NEW hint \in Fields, DigFrom(hint)
      PROVE  Channel!Next \/ UNCHANGED Channel!vars
  BY <1>0, <1>6 DEF DigFrom
<1>7. ASSUME NEW hint \in Fields, DigFromAlert(hint)
      PROVE  Channel!Next \/ UNCHANGED Channel!vars
  <2>1. CASE UNCHANGED job
    BY <1>0, <2>1
  <2>2. ASSUME NEW host \in IF hint.host = None THEN Hosts \cup {None} ELSE {hint.host},
               Begin("closed_loop", [dig_fields' EXCEPT !.host = host])
        PROVE  Channel!Start \/ UNCHANGED Channel!vars
    <3>1. dig_fields' \in Fields
      BY <1>7, HintAgrees DEF Inv, DigFromAlert
    <3>2. [dig_fields' EXCEPT !.host = host] \in Subjects
      BY <2>2, <3>1 DEF Fields, Subjects
    <3> QED
      BY <2>2, <3>2, BeginStarts DEF Inv, Kinds
  <2> QED
    BY <1>7, <2>1, <2>2 DEF DigFromAlert
<1> QED
  BY <1>1, <1>2, <1>3, <1>4, <1>5, <1>6, <1>7 DEF Next

(* The pane implements the job channel: no second worker, messages in the order *)
(* sent, taken out when read, and a job over once its worker has ended          *)
(* (begin_network_job, NetworkJob::spawn, poll_network_job).                    *)
THEOREM ImplementsChannel == Spec => ChannelKept
<1>1. Init => Channel!Init
  BY DEF Init, Channel!Init
<1> QED
  BY <1>1, InitInv, StepInv, StepOfChannel, PTL DEF Spec, ChannelKept, Channel!Spec

-----------------------------------------------------------------------------
(* The flow table as frames are ingested *)

IsReplay(replay) ==
  /\ DOMAIN replay = 1 .. Len(replay) /\ Len(replay) \in Nat
  /\ \A i \in DOMAIN replay :
       replay[i].src \in Nat /\ replay[i].dst \in Nat /\ replay[i].len \in Nat

LEMMA ReplaysAre ==
  ASSUME NEW replay \in Replays
  PROVE  IsReplay(replay)
<1>1. replay \in Seq(Range(replay))
  BY CaptureAssumption
<1>2. DOMAIN replay = 1 .. Len(replay) /\ Len(replay) \in Nat
  BY <1>1, LenProperties
<1>3. \A i \in DOMAIN replay : {replay[i].src, replay[i].dst, replay[i].len} \subseteq Nat
  BY CaptureAssumption
<1> QED
  BY <1>2, <1>3 DEF IsReplay

\* The positions up to n are finite in number.
LEMMA FiniteUpTo ==
  ASSUME NEW n \in Nat, NEW S \in SUBSET (1 .. n)
  PROVE  IsFiniteSet(S)
<1>1. 0 \in Int /\ 1 \in Int /\ n \in Int
  OBVIOUS
<1>2. IsFiniteSet(1 .. n)
  BY <1>1, FS_Interval
<1> QED
  BY <1>2, FS_Subset

\* Bytes sent, with one frame more.
LEMMA SentAdds ==
  ASSUME NEW replay, IsReplay(replay), NEW n \in Nat, n + 1 \in DOMAIN replay,
         NEW S \in SUBSET (1 .. n)
  PROVE  /\ Sent(replay, S \cup {n + 1}) = Sent(replay, S) + replay[n + 1].len
         /\ Sent(replay, S) \in Nat /\ Sent(replay, {}) = 0 /\ replay[n + 1].len \in Nat
<1> DEFINE f == [i \in DOMAIN replay |-> replay[i].len]
<1>1. f \in [DOMAIN replay -> Nat] /\ f[n + 1] = replay[n + 1].len
  BY DEF IsReplay
<1>2. S \in SUBSET DOMAIN replay /\ IsFiniteSet(S) /\ n + 1 \notin S
  <2>1. n + 1 <= Len(replay) /\ Len(replay) \in Nat /\ DOMAIN replay = 1 .. Len(replay)
    BY DEF IsReplay
  <2>2. 1 .. n \subseteq DOMAIN replay /\ n + 1 \notin 1 .. n
    BY <2>1
  <2> QED
    BY <2>2, FiniteUpTo
<1> HIDE DEF f
<1>3. /\ SumFunctionOnSet(f, S \cup {n + 1}) = f[n + 1] + SumFunctionOnSet(f, S)
      /\ SumFunctionOnSet(f, S) \in Nat /\ SumFunctionOnSet(f, {}) = 0
  BY <1>1, <1>2, SumAdds
<1>4. f[n + 1] \in Nat
  BY <1>1
<1> QED
  BY <1>1, <1>3, <1>4 DEF f, Sent

\* The cost of what matches, with one frame more.
LEMMA CostAdds ==
  ASSUME NEW replay, IsReplay(replay), NEW filter, NEW n \in Nat, n + 1 \in DOMAIN replay
  PROVE  /\ CostTo(replay, filter, n) \in Nat
         /\ CostTo(replay, filter, n + 1)
              = IF Matches(filter, replay[n + 1])
                THEN CostTo(replay, filter, n) + Cost(replay[n + 1])
                ELSE CostTo(replay, filter, n)
         /\ CostTo(replay, filter, 0) = 0
<1> DEFINE f == [i \in DOMAIN replay |-> Cost(replay[i])]
           S == Passed(replay, filter) \cap (1 .. n)
<1>1. f \in [DOMAIN replay -> Nat] /\ f[n + 1] = Cost(replay[n + 1])
  BY DEF IsReplay, Cost
<1>2. S \in SUBSET DOMAIN replay /\ IsFiniteSet(S) /\ n + 1 \notin S
  <2>1. S \in SUBSET DOMAIN replay /\ S \in SUBSET (1 .. n) /\ n + 1 \notin S
    BY DEF Passed
  <2> QED
    BY <2>1, FiniteUpTo
<1>3. Passed(replay, filter) \cap (1 .. n + 1)
        = IF Matches(filter, replay[n + 1]) THEN S \cup {n + 1} ELSE S
  BY DEF IsReplay, Passed
<1>4. Passed(replay, filter) \cap (1 .. 0) = {}
  OBVIOUS
<1> HIDE DEF f, S
<1>5. /\ SumFunctionOnSet(f, S \cup {n + 1}) = f[n + 1] + SumFunctionOnSet(f, S)
      /\ SumFunctionOnSet(f, S) \in Nat /\ SumFunctionOnSet(f, {}) = 0
  BY <1>1, <1>2, SumAdds
<1>6. f[n + 1] \in Nat
  BY <1>1
<1>7. /\ CostTo(replay, filter, n) = SumFunctionOnSet(f, S)
      /\ CostTo(replay, filter, 0) = SumFunctionOnSet(f, {})
      /\ CostTo(replay, filter, n + 1)
           = SumFunctionOnSet(f, IF Matches(filter, replay[n + 1]) THEN S \cup {n + 1} ELSE S)
  BY <1>3, <1>4 DEF CostTo, f, S
<1> QED
  BY <1>1, <1>5, <1>6, <1>7

\* One conversation, with one frame more.
LEMMA FlowAdds ==
  ASSUME NEW replay, IsReplay(replay), NEW n \in Nat, n + 1 \in DOMAIN replay,
         NEW S \in SUBSET (1 .. n), NEW key, key = Canonical(replay[n + 1])
  PROVE  LET f   == replay[n + 1]
             old == IF S = {} THEN [tx |-> 0, rx |-> 0, owner |-> f.owner] ELSE FlowOf(replay, S, key)
         IN FlowOf(replay, S \cup {n + 1}, key)
              = [tx |-> old.tx + (IF f.src <= f.dst THEN f.len ELSE 0),
                 rx |-> old.rx + (IF f.src <= f.dst THEN 0 ELSE f.len),
                 owner |-> IF old.owner = None THEN f.owner ELSE old.owner]
<1> DEFINE f == replay[n + 1]
           T == S \cup {n + 1}
           to(X) == {i \in X : replay[i].src = key[1]}
           from(X) == {i \in X : replay[i].src # key[1]}
           owned(X) == {i \in X : replay[i].owner # None}
<1>1. f.src \in Nat /\ f.dst \in Nat /\ f.len \in Nat
  BY DEF IsReplay
<1>2. f.src = key[1] <=> f.src <= f.dst
  BY <1>1 DEF Canonical
<1>3. /\ to(T) = IF f.src <= f.dst THEN to(S) \cup {n + 1} ELSE to(S)
      /\ from(T) = IF f.src <= f.dst THEN from(S) ELSE from(S) \cup {n + 1}
      /\ owned(T) = IF f.owner # None THEN owned(S) \cup {n + 1} ELSE owned(S)
      /\ to(S) \in SUBSET (1 .. n) /\ from(S) \in SUBSET (1 .. n) /\ owned(S) \in SUBSET (1 .. n)
      /\ S = {} => to(S) = {} /\ from(S) = {} /\ owned(S) = {}
  BY <1>2
<1>4. /\ FlowOf(replay, T, key) = [tx |-> Sent(replay, to(T)), rx |-> Sent(replay, from(T)),
                                    owner |-> IF owned(T) = {} THEN None ELSE replay[Min(owned(T))].owner]
      /\ FlowOf(replay, S, key) = [tx |-> Sent(replay, to(S)), rx |-> Sent(replay, from(S)),
                                    owner |-> IF owned(S) = {} THEN None ELSE replay[Min(owned(S))].owner]
  BY DEF FlowOf
<1>5. owned(S) # {} => Min(owned(S) \cup {n + 1}) = Min(owned(S)) /\ Min(owned(S)) \in owned(S)
  <2> HIDE DEF owned
  <2> QED
    BY <1>3, MinStays, MinOfNumbers
<1>6. Min({n + 1}) = n + 1
  BY MinOfOne
<1>7. /\ Sent(replay, to(T)) = Sent(replay, to(S)) + (IF f.src <= f.dst THEN f.len ELSE 0)
      /\ Sent(replay, from(T)) = Sent(replay, from(S)) + (IF f.src <= f.dst THEN 0 ELSE f.len)
      /\ Sent(replay, to(S)) \in Nat /\ Sent(replay, from(S)) \in Nat /\ Sent(replay, {}) = 0
  <2> HIDE DEF to, from, T
  <2>1. Sent(replay, to(S)) \in Nat /\ Sent(replay, from(S)) \in Nat /\ Sent(replay, {}) = 0
    BY <1>3, SentAdds
  <2>2. Sent(replay, to(S) \cup {n + 1}) = Sent(replay, to(S)) + f.len
    BY <1>3, SentAdds
  <2>3. Sent(replay, from(S) \cup {n + 1}) = Sent(replay, from(S)) + f.len
    BY <1>3, SentAdds
  <2>4. CASE f.src <= f.dst
    BY <1>1, <1>3, <2>1, <2>2, <2>4
  <2>5. CASE ~(f.src <= f.dst)
    BY <1>1, <1>3, <2>1, <2>3, <2>5
  <2> QED
    BY <2>1, <2>4, <2>5
<1> DEFINE who(X) == IF owned(X) = {} THEN None ELSE replay[Min(owned(X))].owner
<1>8. who(T) = IF who(S) = None THEN f.owner ELSE who(S)
  <2>1. CASE owned(S) = {}
    <3>1. CASE f.owner = None
      BY <1>3, <2>1, <3>1
    <3>2. CASE f.owner # None
      <4>1. owned(T) = {n + 1}
        BY <1>3, <2>1, <3>2
      <4>2. who(T) = f.owner
        BY <4>1, <1>6
      <4> QED
        BY <4>2, <2>1
    <3> QED
      BY <3>1, <3>2
  <2>2. CASE owned(S) # {}
    <3>1. replay[Min(owned(S))].owner # None
      BY <1>5, <2>2
    <3>2. who(S) = replay[Min(owned(S))].owner
      BY <2>2
    <3> HIDE DEF owned
    <3>3. owned(T) # {} /\ Min(owned(T)) = Min(owned(S))
      BY <1>3, <1>5, <2>2
    <3> QED
      BY <3>1, <3>2, <3>3
  <2> QED
    BY <2>1, <2>2
<1>9. S = {} => /\ Sent(replay, to(S)) = 0 /\ Sent(replay, from(S)) = 0 /\ who(S) = None
  BY <1>3, <1>7
<1> HIDE DEF to, from, owned
<1>10. CASE S = {}
  BY <1>4, <1>7, <1>8, <1>9, <1>10
<1>11. CASE S # {}
  BY <1>4, <1>7, <1>8, <1>11
<1> QED
  BY <1>10, <1>11

\* The table of some frames and one more is what ingesting it makes of theirs.
LEMMA IngestAdds ==
  ASSUME NEW replay, IsReplay(replay), NEW n \in Nat, n + 1 \in DOMAIN replay,
         NEW K \in SUBSET (1 .. n)
  PROVE  Ingest(FlowsOf(replay, K), replay[n + 1]) = FlowsOf(replay, K \cup {n + 1})
<1> DEFINE f == replay[n + 1]
           new == Canonical(f)
           T == K \cup {n + 1}
           Keys(X) == {Canonical(replay[i]) : i \in X}
           In(X, key) == {i \in X : Canonical(replay[i]) = key}
           table == FlowsOf(replay, K)
<1>1. /\ DOMAIN table = Keys(K)
      /\ \A key \in Keys(K) : table[key] = FlowOf(replay, In(K, key), key)
      /\ FlowsOf(replay, T) = [key \in Keys(T) |-> FlowOf(replay, In(T, key), key)]
  BY DEF FlowsOf
<1>2. /\ Keys(T) = Keys(K) \cup {new}
      /\ In(T, new) = In(K, new) \cup {n + 1} /\ In(K, new) \in SUBSET (1 .. n)
      /\ new \in Keys(K) <=> In(K, new) # {}
  OBVIOUS
<1>3. \A key : key # new => In(T, key) = In(K, key)
  OBVIOUS
<1> DEFINE old == IF new \in DOMAIN table THEN table[new] ELSE [tx |-> 0, rx |-> 0, owner |-> f.owner]
           entry == [tx |-> old.tx + (IF f.src <= f.dst THEN f.len ELSE 0),
                     rx |-> old.rx + (IF f.src <= f.dst THEN 0 ELSE f.len),
                     owner |-> IF old.owner = None THEN f.owner ELSE old.owner]
<1>4. Ingest(table, f) = [k \in DOMAIN table \cup {new} |-> IF k = new THEN entry ELSE table[k]]
  BY DEF Ingest
<1>5. old = IF In(K, new) = {} THEN [tx |-> 0, rx |-> 0, owner |-> f.owner] ELSE FlowOf(replay, In(K, new), new)
  <2> HIDE DEF table, Keys, In, new
  <2> QED
    BY <1>1, <1>2
<1>6. FlowOf(replay, In(T, new), new) = entry
  <2>1. FlowOf(replay, In(K, new) \cup {n + 1}, new) = entry
    <3> HIDE DEF In, old
    <3> QED
      BY <1>2, <1>5, FlowAdds
  <2> QED
    BY <1>2, <2>1
<1> HIDE DEF table, Keys, In, entry, new, T, f
<1>7. ASSUME NEW key \in Keys(T)
      PROVE  (IF key = new THEN entry ELSE table[key]) = FlowOf(replay, In(T, key), key)
  BY <1>1, <1>2, <1>3, <1>6, <1>7
<1>8. Ingest(table, f) = [key \in Keys(T) |-> FlowOf(replay, In(T, key), key)]
  BY <1>1, <1>2, <1>4, <1>7
<1> QED
  BY <1>1, <1>8 DEF table, T, f

-----------------------------------------------------------------------------
(* The pump: the frames of a replay taken one after the other *)

Opened(replay, filter) ==
  [replay |-> replay, filter |-> filter, running |-> TRUE,
   bytes_written |-> 0, table |-> << >>, frames |-> << >>]

\* A capture after any part of the first n frames, as FoldLeft computes it.
PumpsOf(replay, filter, P, g) ==
  g = [s \in SUBSET P |-> IF s = {} THEN Opened(replay, filter)
                          ELSE Take(g[s \ {Max(s)}], replay[Max(s)])]

LEMMA StartedIsTabled ==
  ASSUME NEW replay, NEW filter
  PROVE  Started(replay, filter)
           = (CHOOSE g : PumpsOf(replay, filter, DOMAIN replay, g))[DOMAIN replay]
  BY DEF Started, FoldLeft, MapThenFoldSet, PumpsOf, Opened

\* There is such a table for any number of frames.
LEMMA PumpExists ==
  ASSUME NEW replay, NEW filter
  PROVE  \A n \in Nat : \E g : PumpsOf(replay, filter, 1 .. n, g)
<1> DEFINE S == {n \in Nat : \E g : PumpsOf(replay, filter, 1 .. n, g)}
           none == Opened(replay, filter)
<1>1. 0 \in S
  <2> DEFINE g == [s \in SUBSET (1 .. 0) |-> none]
  <2>1. g = [s \in SUBSET (1 .. 0) |-> IF s = {} THEN none ELSE Take(g[s \ {Max(s)}], replay[Max(s)])]
    <3>1. \A s \in SUBSET (1 .. 0) : s = {}
      OBVIOUS
    <3> HIDE DEF none
    <3> QED
      BY <3>1
  <2>2. PumpsOf(replay, filter, 1 .. 0, g)
    BY <2>1 DEF PumpsOf
  <2> QED
    BY <2>2
<1>2. ASSUME NEW n \in Nat, n \in S
      PROVE  n + 1 \in S
  <2>1. PICK g : PumpsOf(replay, filter, 1 .. n, g)
    BY <1>2
  <2> DEFINE h == [s \in SUBSET (1 .. n + 1) |->
                     IF n + 1 \in s THEN Take(g[s \ {n + 1}], replay[n + 1]) ELSE g[s]]
             entry(s) == IF s = {} THEN none ELSE Take(h[s \ {Max(s)}], replay[Max(s)])
  <2>2. ASSUME NEW s \in SUBSET (1 .. n + 1)
        PROVE  h[s] = entry(s)
    <3>1. CASE n + 1 \in s
      <4>1. n + 1 \in Nat /\ s # {}
        BY <3>1
      <4>2. Max(s) = n + 1
        BY <3>1, <4>1, MaxIsLast
      <4>3. s \ {n + 1} \in SUBSET (1 .. n + 1) /\ n + 1 \notin s \ {n + 1}
        OBVIOUS
      <4>4. h[s \ {n + 1}] = g[s \ {n + 1}]
        BY <4>3
      <4>5. h[s] = Take(g[s \ {n + 1}], replay[n + 1])
        BY <3>1
      <4>6. s # {}
        BY <3>1
      <4> HIDE DEF h
      <4> QED
        BY <4>2, <4>4, <4>5, <4>6
    <3>2. CASE n + 1 \notin s
      <4>1. s \in SUBSET (1 .. n)
        BY <3>2
      <4>2. h[s] = g[s]
        BY <3>2
      <4>3. g[s] = IF s = {} THEN none ELSE Take(g[s \ {Max(s)}], replay[Max(s)])
        BY <2>1, <4>1 DEF PumpsOf
      <4>4. /\ s \ {Max(s)} \in SUBSET (1 .. n + 1) /\ n + 1 \notin s \ {Max(s)}
        BY <3>2
      <4>5. h[s \ {Max(s)}] = g[s \ {Max(s)}]
        BY <4>4
      <4> HIDE DEF h
      <4> QED
        BY <4>2, <4>3, <4>5
    <3> QED
      BY <3>1, <3>2
  <2>3. h = [s \in SUBSET (1 .. n + 1) |-> entry(s)]
    <3>1. h = [s \in SUBSET (1 .. n + 1) |-> h[s]]
      OBVIOUS
    <3>2. [s \in SUBSET (1 .. n + 1) |-> h[s]] = [s \in SUBSET (1 .. n + 1) |-> entry(s)]
      <4> HIDE DEF h, entry
      <4> QED
        BY <2>2
    <3> QED
      BY <3>1, <3>2
  <2>4. PumpsOf(replay, filter, 1 .. n + 1, h)
    <3> HIDE DEF h
    <3> QED
      BY <2>3 DEF PumpsOf
  <2> QED
    BY <2>4
<1>3. Nat \subseteq S
  <2> HIDE DEF S
  <2> QED
    BY <1>1, <1>2, NumbersInduct, Zenon
<1> QED
  BY <1>3

KeptTo(replay, filter, n) == Kept(replay, filter) \cap (1 .. n)

Parts == {"replay", "filter", "running", "bytes_written", "table", "frames"}

\* A capture after n frames of its replay: the table is that of what is kept of
\* them, the byte count that of all that match, unless the limit was met.
PumpedTo(replay, filter, n, s) ==
  /\ DOMAIN s = Parts /\ s.replay = replay /\ s.filter = filter
  /\ s.running \in BOOLEAN
  /\ s.table = FlowsOf(replay, KeptTo(replay, filter, n))
  /\ s.running => /\ s.bytes_written = CostTo(replay, filter, n)
                  /\ CostTo(replay, filter, n) <= MaxBytes
  /\ ~s.running => CostTo(replay, filter, n) > MaxBytes

LEMMA KeptAdds ==
  ASSUME NEW replay, IsReplay(replay), NEW filter, NEW n \in Nat, n + 1 \in DOMAIN replay
  PROVE  KeptTo(replay, filter, n + 1)
           = IF Matches(filter, replay[n + 1]) /\ CostTo(replay, filter, n + 1) <= MaxBytes
             THEN KeptTo(replay, filter, n) \cup {n + 1} ELSE KeptTo(replay, filter, n)
  BY DEF KeptTo, Kept, Passed

LEMMA TakeKeepsPumped ==
  ASSUME NEW replay, IsReplay(replay), NEW filter, NEW n \in Nat, n + 1 \in DOMAIN replay,
         NEW s, PumpedTo(replay, filter, n, s)
  PROVE  PumpedTo(replay, filter, n + 1, Take(s, replay[n + 1]))
<1> DEFINE f == replay[n + 1]
           K == KeptTo(replay, filter, n)
           t == Take(s, f)
<1> SUFFICES PumpedTo(replay, filter, n + 1, t)
  OBVIOUS
<1>1. /\ CostTo(replay, filter, n) \in Nat /\ MaxBytes \in Nat
      /\ CostTo(replay, filter, n + 1) = IF Matches(filter, f) THEN CostTo(replay, filter, n) + Cost(f)
                                         ELSE CostTo(replay, filter, n)
      /\ Cost(f) \in Nat
  <2>1. MaxBytes \in Nat
    BY CaptureAssumption
  <2>2. Cost(f) \in Nat
    BY DEF IsReplay, Cost
  <2> QED
    BY CostAdds, <2>1, <2>2
<1>2. KeptTo(replay, filter, n + 1)
        = IF Matches(filter, f) /\ CostTo(replay, filter, n + 1) <= MaxBytes THEN K \cup {n + 1} ELSE K
  BY KeptAdds
<1>3. s.filter = filter
  BY DEF PumpedTo
<1>4. CASE ~s.running \/ ~Matches(filter, f)
  <2>1. t = s
    BY <1>3, <1>4 DEF Take
  <2>2. KeptTo(replay, filter, n + 1) = K
    BY <1>1, <1>2, <1>4 DEF PumpedTo
  <2> HIDE DEF t
  <2>3. CostTo(replay, filter, n) > MaxBytes => CostTo(replay, filter, n + 1) > MaxBytes
    BY <1>1
  <2> QED
    BY <1>1, <1>4, <2>1, <2>2, <2>3 DEF PumpedTo
<1>5. CASE /\ s.running /\ Matches(filter, f)
           /\ s.bytes_written + Cost(f) > MaxBytes
  <2>1. t = [s EXCEPT !.running = FALSE]
    BY <1>3, <1>5 DEF Take
  <2>2. CostTo(replay, filter, n + 1) > MaxBytes
    BY <1>1, <1>5 DEF PumpedTo
  <2>3. KeptTo(replay, filter, n + 1) = K
    BY <1>1, <1>2, <2>2
  <2>4. /\ DOMAIN s = Parts /\ s.replay = replay /\ s.filter = filter
        /\ s.table = FlowsOf(replay, K)
    BY DEF PumpedTo
  <2>5. /\ DOMAIN t = Parts /\ t.replay = replay /\ t.filter = filter /\ t.running = FALSE
        /\ t.table = s.table
    BY <2>1, <2>4 DEF Parts
  <2> HIDE DEF t, K
  <2> QED
    BY <2>2, <2>3, <2>4, <2>5 DEF PumpedTo
<1>6. CASE /\ s.running /\ Matches(filter, f)
           /\ ~(s.bytes_written + Cost(f) > MaxBytes)
  <2>1. t = [s EXCEPT !.bytes_written = @ + Cost(f), !.table = Ingest(@, f), !.frames = Append(@, f)]
    BY <1>3, <1>6 DEF Take
  <2>2. s.bytes_written = CostTo(replay, filter, n)
    BY <1>6 DEF PumpedTo
  <2>3. CostTo(replay, filter, n + 1) = s.bytes_written + Cost(f) /\ CostTo(replay, filter, n + 1) <= MaxBytes
    BY <1>1, <1>6, <2>2
  <2>4. KeptTo(replay, filter, n + 1) = K \cup {n + 1}
    BY <1>2, <1>6, <2>3
  <2>5. Ingest(FlowsOf(replay, K), f) = FlowsOf(replay, K \cup {n + 1})
    <3>1. K \in SUBSET (1 .. n)
      BY DEF KeptTo
    <3> QED
      BY <3>1, IngestAdds
  <2>6. /\ DOMAIN s = Parts /\ s.replay = replay /\ s.filter = filter
        /\ s.table = FlowsOf(replay, K)
    BY DEF PumpedTo
  <2>7. /\ DOMAIN t = Parts /\ t.replay = replay /\ t.filter = filter /\ t.running = s.running
        /\ t.bytes_written = s.bytes_written + Cost(f) /\ t.table = Ingest(s.table, f)
    <3> HIDE DEF f, K
    <3> QED
      BY <2>1, <2>6 DEF Parts
  <2> HIDE DEF t, K
  <2> QED
    BY <1>6, <2>3, <2>4, <2>5, <2>6, <2>7 DEF PumpedTo
<1> QED
  BY <1>4, <1>5, <1>6 DEF PumpedTo

\* A capture in the table, whole, has the flows of what it is to keep.
ShowsItsFlows(s) ==
  /\ DOMAIN s = Parts
  /\ s.table = FlowsOf(s.replay, Kept(s.replay, s.filter))

\* A capture that was just started has the flows of what it is to keep.
LEMMA StartedSound ==
  ASSUME NEW replay \in Replays, NEW filter
  PROVE  ShowsItsFlows(Started(replay, filter))
<1>1. IsReplay(replay)
  BY ReplaysAre
<1> DEFINE N == Len(replay)
<1>2. N \in Nat /\ DOMAIN replay = 1 .. N
  BY <1>1 DEF IsReplay
<1>3. PICK g : PumpsOf(replay, filter, 1 .. N, g) /\ Started(replay, filter) = g[1 .. N]
  BY <1>2, PumpExists, StartedIsTabled
<1> DEFINE S == {n \in Nat : n <= N => PumpedTo(replay, filter, n, g[1 .. n])}
<1>4. 0 \in S
  <2>1. 1 .. 0 = {} /\ 1 .. 0 \in SUBSET (1 .. N)
    OBVIOUS
  <2>2. g[1 .. 0] = Opened(replay, filter)
    BY <1>3, <2>1 DEF PumpsOf
  <2>3. KeptTo(replay, filter, 0) = {}
    BY <2>1 DEF KeptTo
  <2>4. FlowsOf(replay, {}) = << >>
    BY DEF FlowsOf
  <2>5. CostTo(replay, filter, 0) = 0
    <3>1. Passed(replay, filter) \cap (1 .. 0) = {}
      BY <2>1
    <3>2. \A f : SumFunctionOnSet(f, {}) = 0
      BY FS_EmptySet, SumFirst
    <3> QED
      BY <3>1, <3>2 DEF CostTo
  <2>6. PumpedTo(replay, filter, 0, Opened(replay, filter))
    <3> DEFINE o == Opened(replay, filter)
    <3>1. /\ DOMAIN o = Parts /\ o.replay = replay /\ o.filter = filter
          /\ o.running = TRUE /\ o.bytes_written = 0 /\ o.table = << >>
      BY DEF Opened, Parts
    <3>2. 0 <= MaxBytes
      BY CaptureAssumption
    <3> HIDE DEF o
    <3>3. PumpedTo(replay, filter, 0, o)
      BY <2>3, <2>4, <2>5, <3>1, <3>2 DEF PumpedTo
    <3> QED
      BY <3>3 DEF o
  <2> QED
    BY <2>2, <2>6
<1>5. ASSUME NEW n \in Nat, n \in S
      PROVE  n + 1 \in S
  <2> SUFFICES ASSUME n + 1 <= N
               PROVE  PumpedTo(replay, filter, n + 1, g[1 .. n + 1])
    OBVIOUS
  <2>1. PumpedTo(replay, filter, n, g[1 .. n]) /\ n + 1 \in DOMAIN replay
    BY <1>2, <1>5
  <2>2. 1 .. n + 1 \in SUBSET (1 .. N) /\ n + 1 \in 1 .. n + 1 /\ (1 .. n + 1) \ {n + 1} = 1 .. n
    BY <1>2
  <2>3. Max(1 .. n + 1) = n + 1
    <3>1. n + 1 \in Nat /\ 1 .. n + 1 \in SUBSET (1 .. n + 1)
      OBVIOUS
    <3> QED
      BY <2>2, <3>1, MaxIsLast
  <2>4. g[1 .. n + 1] = Take(g[1 .. n], replay[n + 1])
    BY <1>3, <2>2, <2>3 DEF PumpsOf
  <2> QED
    BY <1>1, <2>1, <2>4, TakeKeepsPumped
<1>6. Nat \subseteq S
  <2> HIDE DEF S
  <2> QED
    BY <1>4, <1>5, NumbersInduct, Zenon
<1>7. PumpedTo(replay, filter, N, Started(replay, filter))
  BY <1>2, <1>3, <1>6
<1>8. KeptTo(replay, filter, N) = Kept(replay, filter)
  BY <1>2 DEF KeptTo, Kept, Passed
<1> HIDE DEF N
<1> QED
  BY <1>7, <1>8 DEF PumpedTo, ShowsItsFlows

-----------------------------------------------------------------------------
(* The flows shown *)

\* Every capture in the table has its flows, and those listed are a copy of the
\* table of the one shown.
FlowsSound ==
  /\ \A id \in 1 .. Len(sessions) : ShowsItsFlows(sessions[id])
  /\ flows_cache = IF session_id = None THEN << >> ELSE sessions[session_id].table

\* Steps that leave the captures and what is shown of them alone.
LEMMA FlowsIdle ==
  ASSUME FlowsSound, UNCHANGED <<sessions, session_id, flows_cache>>
  PROVE  FlowsSound'
  BY DEF FlowsSound

LEMMA StartFlows ==
  ASSUME CapturesSound, FlowsSound, StartCapture
  PROVE  FlowsSound'
<1>1. PICK replay \in Replays, filter \in Filters : CaptureStart(replay, filter)
  BY DEF StartCapture
<1> DEFINE s == Started(replay, filter)
           S == Range(sessions) \cup {s}
<1>2. sessions' = Append(sessions, s) /\ ShowsItsFlows(s)
  BY <1>1, StartedSound DEF CaptureStart
<1>3. sessions \in Seq(S) /\ s \in S
  BY SeqMonotonic DEF CapturesSound
<1> HIDE DEF s, S
<1>4. /\ Len(sessions') = Len(sessions) + 1 /\ Len(sessions) \in Nat
      /\ sessions'[Len(sessions) + 1] = s
      /\ \A id \in 1 .. Len(sessions) : sessions'[id] = sessions[id]
  BY <1>2, <1>3, AppendProperties, LenProperties
<1>5. session_id' = Len(sessions) + 1 /\ flows_cache' = sessions'[session_id'].table
  BY <1>4 DEF StartCapture, Refreshed
<1>6. session_id' # None
  BY <1>4, <1>5, CaptureAssumption
<1>7. ASSUME NEW id \in 1 .. Len(sessions')
      PROVE  ShowsItsFlows(sessions'[id])
  <2>1. id \in 1 .. Len(sessions) \/ id = Len(sessions) + 1
    BY <1>4, <1>7
  <2> QED
    BY <1>2, <1>4, <2>1 DEF FlowsSound
<1> QED
  BY <1>5, <1>6, <1>7 DEF FlowsSound

LEMMA StopFlows ==
  ASSUME CapturesSound, FlowsSound, StopCapture
  PROVE  FlowsSound'
<1>1. session_id # None /\ session_id' = session_id /\ session_id \in 1 .. Len(sessions)
  BY DEF StopCapture, CapturesSound
<1> DEFINE old == sessions[session_id]
           new == [old EXCEPT !.running = FALSE]
<1>2. PICK written \in BOOLEAN : CaptureStop(session_id, written)
  BY DEF StopCapture
<1>3. sessions' = [sessions EXCEPT ![session_id] = new]
  BY <1>2 DEF CaptureStop
<1>4. sessions \in Seq(Range(sessions)) /\ DOMAIN sessions = 1 .. Len(sessions) /\ Len(sessions) \in Nat
  BY LenProperties DEF CapturesSound
<1>5. ShowsItsFlows(old)
  BY <1>1 DEF FlowsSound
<1>6. /\ DOMAIN new = Parts /\ new.table = old.table
      /\ new.replay = old.replay /\ new.filter = old.filter
  BY <1>5 DEF ShowsItsFlows, Parts
<1>7. ShowsItsFlows(new)
  <2> HIDE DEF new, old
  <2> QED
    BY <1>5, <1>6 DEF ShowsItsFlows
<1> HIDE DEF new
<1>8. Len(sessions') = Len(sessions)
  <2>1. sessions' \in [1 .. Len(sessions) -> Range(sessions) \cup {new}]
    BY <1>3, <1>4 DEF Range
  <2> QED
    BY <1>4, <2>1
<1>9. /\ sessions'[session_id] = new
      /\ \A id \in 1 .. Len(sessions) : id # session_id => sessions'[id] = sessions[id]
  BY <1>1, <1>3, <1>4
<1>10. flows_cache' = old.table
  <2>1. flows_cache = old.table
    BY <1>1 DEF FlowsSound
  <2>2. flows_cache' = flows_cache \/ flows_cache' = sessions'[session_id].table
    BY DEF StopCapture, Refreshed
  <2> QED
    BY <1>6, <1>9, <2>1, <2>2
<1> QED
  BY <1>1, <1>6, <1>7, <1>8, <1>9, <1>10 DEF FlowsSound

LEMMA StepFlows == Inv /\ FlowsSound /\ [Next]_vars => FlowsSound'
<1> SUFFICES ASSUME Inv, FlowsSound, [Next]_vars
             PROVE  FlowsSound'
  OBVIOUS
<1> DEFINE StaysOn == UNCHANGED <<sessions, session_id, flows_cache>>
<1>1. CASE StartCapture
  BY <1>1, StartFlows DEF Inv
<1>2. CASE StopCapture
  BY <1>2, StopFlows DEF Inv
<1>3. CASE PollCapture
  BY <1>3 DEF PollCapture, Refreshed, captureTable, FlowsSound
<1>4. CASE WorkerEnds \/ PollNetworkJob \/ CloseWindow \/ EnableTool \/ RefreshConnections
           \/ ExtractPivots \/ Detect \/ TypeField \/ CompileDig \/ ExecuteDig \/ UNCHANGED vars
  <2>1. StaysOn
    BY <1>4 DEF WorkerEnds, PollNetworkJob, CloseWindow, EnableTool, RefreshConnections,
                ExtractPivots, Detect, TypeField, CompileDig, ExecuteDig, vars, capture, captureTable
  <2> QED
    BY <2>1, FlowsIdle
<1>5. ASSUME NEW hint \in Fields, DigFrom(hint) \/ DigFromAlert(hint)
      PROVE  FlowsSound'
  <2>1. StaysOn
    BY <1>5 DEF DigFrom, DigFromAlert, capture, captureTable
  <2> QED
    BY <2>1, FlowsIdle
<1> QED
  BY <1>1, <1>2, <1>3, <1>4, <1>5 DEF Next

(* The flows listed are the conversations of the capture shown, for any file    *)
(* replayed, filter and limit (capture_pump, FlowTable::ingest, refresh_flows).  *)
THEOREM FlowsShown == Spec => []FlowsAreOfTheSession
<1>1. Init => FlowsSound
  <2> SUFFICES ASSUME Init
               PROVE  FlowsSound
    OBVIOUS
  <2>1. 1 .. Len(sessions) = {}
    BY EmptySeq DEF Init, CaptureInit
  <2> QED
    BY <2>1 DEF Init, FlowsSound
<1>2. Inv /\ FlowsSound => FlowsAreOfTheSession
  BY DEF Inv, CapturesSound, FlowsSound, ShowsItsFlows, FlowsAreOfTheSession
<1> QED
  BY InitInv, StepInv, StepFlows, <1>1, <1>2, PTL DEF Spec
=============================================================================
