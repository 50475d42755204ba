--------------------------- MODULE CaptureSession ---------------------------
(***************************************************************************)
(* Network captures and their flows                                          *)
(* (crates/ghidrust-net-capture/src/session.rs, acq/mod.rs and file.rs,       *)
(* crates/ghidrust-net-flow/src/lib.rs).                                     *)
(*                                                                         *)
(* A capture replays a file of frames.  The pump that runs in every call      *)
(* keeps the frames that pass the filter, in order, until the next one would  *)
(* exceed the limit of the capture; the rest is gone.  A frame is told apart  *)
(* by its endpoints, its length and the process it is attributed to.         *)
(***************************************************************************)
EXTENDS Integers, Sequences, SequencesExt, FiniteSetsExt, Functions

CONSTANTS
  Replays,      \* the files replayed: sequences of frames
  MaxBytes,     \* the limit of a capture
  MaxCaptures,  \* bound: captures started
  None

ASSUME CaptureAssumption ==
  /\ MaxBytes \in Nat /\ MaxCaptures \in Nat
  /\ \A replay \in Replays :
       /\ replay \in Seq(Range(replay))
       /\ \A i \in DOMAIN replay : {replay[i].src, replay[i].dst, replay[i].len} \subseteq Nat
  /\ None \notin Nat

VARIABLES
  sessions,   \* the captures in the order they were started, finished ones too
  files       \* those that have a file, with all the frames kept or some of them

captureTable == <<sessions, files>>

Captures == 1 .. MaxCaptures

----------------------------------------------------------------------------
(* The flow table *)

\* canonicalize: both directions of a conversation are one flow.
Canonical(f) == IF f.src <= f.dst THEN <<f.src, f.dst>> ELSE <<f.dst, f.src>>

Ingest(table, f) ==
  LET key == Canonical(f)
      old == IF key \in DOMAIN table THEN table[key] ELSE [tx |-> 0, rx |-> 0, owner |-> f.owner]
      new == [tx |-> old.tx + (IF f.src <= f.dst THEN f.len ELSE 0),
              rx |-> old.rx + (IF f.src <= f.dst THEN 0 ELSE f.len),
              owner |-> IF old.owner = None THEN f.owner ELSE old.owner]
  IN [k \in DOMAIN table \cup {key} |-> IF k = key THEN new ELSE table[k]]

----------------------------------------------------------------------------
(* Captures *)

\* The filter on a process; a frame nobody owns does not pass it.
Matches(filter, f) == filter = None \/ f.owner = filter

Cost(f) == f.len + 1    \* and 64 bytes in the code

\* BUG: a frame over the limit does not end the capture.
TakeGoesOn(s, f) ==
  IF ~s.running \/ ~Matches(s.filter, f) \/ s.bytes_written + Cost(f) > MaxBytes THEN s
  ELSE [s EXCEPT !.bytes_written = @ + Cost(f), !.table = Ingest(@, f), !.frames = Append(@, f)]

Take(s, f) ==
  IF ~s.running \/ ~Matches(s.filter, f) THEN s
  ELSE IF s.bytes_written + Cost(f) > MaxBytes THEN [s EXCEPT !.running = FALSE]
  ELSE [s EXCEPT !.bytes_written = @ + Cost(f), !.table = Ingest(@, f), !.frames = Append(@, f)]

\* capture_start with the pump that runs in it; later pumps find nothing new.
Started(replay, filter) ==
  FoldLeft(Take,
           [replay |-> replay, filter |-> filter, running |-> TRUE,
            bytes_written |-> 0, table |-> << >>, frames |-> << >>],
           replay)

CaptureStart(replay, filter) ==
  /\ Len(sessions) < MaxCaptures
  /\ sessions' = Append(sessions, Started(replay, filter))
  /\ UNCHANGED files

\* capture_stop: it is over before the file is written, well or badly.
CaptureStop(id, written) ==
  /\ sessions' = [sessions EXCEPT ![id].running = FALSE]
  /\ \/ files' = files \cup {id}
     \/ ~written /\ UNCHANGED files

CaptureInit == sessions = << >> /\ files = {}

----------------------------------------------------------------------------
(* What a capture is to show, said without the pump *)

Passed(replay, filter) == {i \in DOMAIN replay : Matches(filter, replay[i])}

\* Bytes of the frames that match among the first n.
CostTo(replay, filter, n) ==
  SumFunctionOnSet([i \in DOMAIN replay |-> Cost(replay[i])], Passed(replay, filter) \cap (1 .. n))

\* What is kept of a replay: the frames that match for as long as they are,
\* with all that match before them, within the limit.
Kept(replay, filter) ==
  {i \in Passed(replay, filter) : CostTo(replay, filter, i) <= MaxBytes}

Sent(replay, S) == SumFunctionOnSet([i \in DOMAIN replay |-> replay[i].len], S)

\* A conversation: the bytes each way and the first process seen in it.
FlowOf(replay, frames, key) ==
  LET owned == {i \in frames : replay[i].owner # None}
  IN [tx    |-> Sent(replay, {i \in frames : replay[i].src = key[1]}),
      rx    |-> Sent(replay, {i \in frames : replay[i].src # key[1]}),
      owner |-> IF owned = {} THEN None ELSE replay[Min(owned)].owner]

\* The conversations of some frames of a replay.
FlowsOf(replay, kept) ==
  [key \in {Canonical(replay[i]) : i \in kept} |->
     FlowOf(replay, {i \in kept : Canonical(replay[i]) = key}, key)]
=============================================================================
