----------------------------- MODULE TermSession -----------------------------
(***************************************************************************)
(* The embedded terminal of the desktop application                          *)
(* (crates/ghidrust-gui/src/grok_term/session.rs, pty.rs and the session of   *)
(* agent_pane.rs).                                                           *)
(*                                                                         *)
(* Three threads share a session.  The UI resizes the grid at once and sends  *)
(* resizes and keys to the CONTROL thread, which owns the pseudo terminal and *)
(* kills the child when it ends; the READER feeds what the child prints to    *)
(* the grid and reports the end.  The pseudo terminal and the child are       *)
(* external, and the end of a child is not the end of its output: on Windows   *)
(* the output ends when the pseudo console is closed, elsewhere when no        *)
(* process is left that holds the terminal.                                   *)
(***************************************************************************)
EXTENDS TerminalGrid, Sequences

CONSTANTS
  StartSize,    \* the size a session is started with, before it is first drawn
  MaxCommands   \* bound: commands that wait for the control thread

ASSUME StartAssumption == StartSize \in Sizes /\ MaxCommands \in Nat

VARIABLES
  session,       \* the pane has one
  last_size,     \* the size it was drawn in last
  commands,      \* what the control thread has not received yet
  told,          \* the size the control thread asked for last
  pty_size,      \* the size of the pseudo terminal
  refused,       \* history: the system refused it that size
  child_exited,  \* the child has ended
  output_ended,  \* there is nothing to read any more, now or later
  child_alive,   \* what the reader has told of it
  dropped        \* the commands of a session that was stopped, while its child runs

pty   == <<told, pty_size, refused>>
child == <<child_exited, output_ended, child_alive>>
host  == <<session, last_size, commands, pty, child, dropped>>
vars  == <<grid, host>>

Command == {<<"write">>, <<"shutdown">>} \cup {<<"resize", sz>> : sz \in Sizes}

\* Shutdown is the last of what a session leaves behind.
EndsInShutdown(s) == s \in Seq(Command) /\ s # << >> /\ s[Len(s)] = <<"shutdown">>

TypeOK ==
  /\ GridTypeOK
  /\ session \in BOOLEAN /\ last_size \in Sizes /\ commands \in Seq(Command)
  /\ told \in Sizes /\ pty_size \in Sizes /\ refused \in BOOLEAN
  /\ child_exited \in BOOLEAN /\ output_ended \in BOOLEAN /\ child_alive \in BOOLEAN
  /\ dropped = None \/ EndsInShutdown(dropped)

Init ==
  /\ GridInit(StartSize)
  /\ session = FALSE /\ commands = << >>
  /\ last_size = StartSize /\ told = StartSize /\ pty_size = StartSize /\ refused = FALSE
  /\ child_exited = FALSE /\ output_ended = FALSE /\ child_alive = FALSE /\ dropped = None

----------------------------------------------------------------------------
(* the UI *)

\* A new grid, pseudo terminal and child.
Start ==
  /\ ~session
  /\ session' = TRUE /\ child_alive' = TRUE
  /\ UNCHANGED <<grid, last_size, commands, pty, child_exited, output_ended, dropped>>

\* The session is dropped: its sender's last command is Shutdown.  Nothing of
\* it is seen again, so that it may be forgotten.
Drop ==
  /\ dropped = None
  /\ dropped' = Append(commands, <<"shutdown">>)
  /\ session' = FALSE /\ commands' = << >>
  /\ GridRestart(StartSize) /\ last_size' = StartSize
  /\ told' = StartSize /\ pty_size' = StartSize /\ refused' = FALSE
  /\ child_exited' = FALSE /\ output_ended' = FALSE /\ child_alive' = FALSE

Stop == session /\ Drop

\* Every frame; the reader's word is all there is to go by.
Poll == session /\ ~child_alive /\ Drop

\* The window is drawn in another size: the grid now, the child's later.  The
\* lock of a stuck grid is poisoned, which is passed over (or held, where the
\* scroll runs on: then the UI stops here).
Resize(sz) ==
  /\ session /\ sz # last_size /\ Len(commands) < MaxCommands
  /\ last_size' = sz
  /\ IF stuck THEN UNCHANGED grid ELSE ResizeGrid(sz)
  /\ commands' = Append(commands, <<"resize", sz>>)
  /\ UNCHANGED <<session, pty, child, dropped>>

WriteBytes ==
  /\ session /\ Len(commands) < MaxCommands
  /\ commands' = Append(commands, <<"write">>)
  /\ UNCHANGED <<grid, session, last_size, pty, child, dropped>>

----------------------------------------------------------------------------
(* the control thread; a write to a child that is gone fails unheard *)

\* A size that is the one asked for last is passed over; the system may refuse
\* another, which is not looked at.
ResizePty(sz) ==
  IF sz = told THEN UNCHANGED pty
  ELSE /\ told' = sz
       /\ refused' \in BOOLEAN
       /\ pty_size' = IF refused' THEN pty_size ELSE sz

Executes(command) ==
  IF command[1] = "resize" THEN ResizePty(command[2]) ELSE UNCHANGED pty

\* BUG: of what waits the newest command is taken first.
ControlNewest ==
  /\ session /\ commands # << >>
  /\ commands' = SubSeq(commands, 1, Len(commands) - 1)
  /\ Executes(commands[Len(commands)])
  /\ UNCHANGED <<grid, session, last_size, child, dropped>>

Control ==
  /\ session /\ commands # << >>
  /\ commands' = Tail(commands)
  /\ Executes(Head(commands))
  /\ UNCHANGED <<grid, session, last_size, child, dropped>>

\* Shutdown ends it, and the end of it the child.
ControlDropped ==
  /\ dropped # None
  /\ dropped' = IF Head(dropped) = <<"shutdown">> THEN None ELSE Tail(dropped)
  /\ UNCHANGED <<grid, session, last_size, commands, pty, child>>

----------------------------------------------------------------------------
(* the reader and the child *)

\* On Unix a read that brings something also looks whether the child has ended,
\* and the reader reads on.
ReadLoop ==
  /\ session /\ ~output_ended /\ FeedBytes
  /\ child_alive' \in {child_alive, child_alive /\ ~child_exited}
  /\ UNCHANGED <<session, last_size, commands, pty, child_exited, output_ended, dropped>>

ChildExits ==
  /\ session /\ ~child_exited
  /\ child_exited' = TRUE
  /\ UNCHANGED <<grid, session, last_size, commands, pty, output_ended, child_alive, dropped>>

\* Before the child's end (it may close its output), with it, later or never.
OutputEnds ==
  /\ session /\ ~output_ended
  /\ output_ended' = TRUE
  /\ UNCHANGED <<grid, session, last_size, commands, pty, child_exited, child_alive, dropped>>

\* BUG: the reader ends without a word.
ReadEofUnheard ==
  /\ session /\ output_ended /\ child_alive /\ ~stuck
  /\ UNCHANGED vars

\* End of file or an error; a reader that is stuck reads no more.
ReadEof ==
  /\ session /\ output_ended /\ child_alive /\ ~stuck
  /\ child_alive' = FALSE
  /\ UNCHANGED <<grid, session, last_size, commands, pty, child_exited, output_ended, dropped>>

Next ==
  \/ Start \/ Stop \/ Poll \/ WriteBytes \/ \E sz \in Sizes : Resize(sz)
  \/ Control \/ ControlDropped
  \/ ReadLoop \/ ChildExits \/ OutputEnds \/ ReadEof

Spec == Init /\ [][Next]_vars

(* The control thread runs on as long as the child takes its input, a read of  *)
(* output that has ended returns, and the UI polls in every frame.  Neither    *)
(* the child nor its output has to end.                                       *)
FairSpec ==
  Spec /\ WF_vars(Control) /\ WF_vars(ControlDropped) /\ WF_vars(ReadEof) /\ WF_vars(Poll)

----------------------------------------------------------------------------
(* Properties *)

Whole(s) ==
  \A p \in DOMAIN s :
    /\ (s[p] = "wide" => At(s, p[1], p[2] + 1) = "wide_cont")
    /\ (s[p] = "wide_cont" => At(s, p[1], p[2] - 1) = "wide")

(* The two halves of a double-width glyph stay together, whatever is printed   *)
(* over them and however the screen scrolls or is switched: put_char and the   *)
(* scrolls never leave a half of one, as only the sequences that erase and     *)
(* shift single cells, and a narrower window, do.                             *)
GlyphsStayWhole ==
  [][Whole(primary) /\ Whole(alt) =>
       (Whole(primary) /\ Whole(alt))' \/ Edits \/ \E sz \in Sizes : Resize(sz)]_vars

(* The cursor is below the screen, or further right than the column past its   *)
(* last, only after a position saved before the window got smaller was         *)
(* restored, and never further out than the saved one.                         *)
OffScreenIsSaved ==
  /\ cursor_row >= Rows => saved_cursor # None /\ cursor_row <= saved_cursor[2]
  /\ cursor_col > Cols => saved_cursor # None /\ cursor_col <= saved_cursor[1]

(* Once the control thread has caught up, the pseudo terminal has been asked   *)
(* for the size of the grid its output is laid out on, and has it unless the    *)
(* system refused: sizes that wait together are not lost or overtaken.         *)
SizesAgree ==
  session /\ ~stuck /\ commands = << >> => told = size /\ (pty_size = size \/ refused)

(* The end of the OUTPUT ends the session, unless the terminal is stuck; so    *)
(* does the child's end where the reader was told of it.  The child's end alone *)
(* does not.                                                                  *)
ExitSeen == (session /\ (output_ended \/ ~child_alive)) ~> (~session \/ stuck)

(* read_loop takes in whatever the child prints: "Covers ... DECSTBM scroll     *)
(* region ... Enough for Grok Build's TUI" (ansi.rs:3-5).                      *)
NeverStuck == ~stuck
=============================================================================
