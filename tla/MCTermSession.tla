---------------------------- MODULE MCTermSession ----------------------------
(* Instances of TermSession for TLC. *)
EXTENDS TermSession

Flat == <<3, 2>>
TwoSizes == {Flat, <<2, 3>>}

(* The child saves the cursor at the start of a line only. *)
SavesAtLineStart == saved_cursor' \in {None, saved_cursor} \/ cursor_col = 0

(* The next session is not started before the last one has ended. *)
OneAtATime == dropped = None \/ ~session

(* A screen with half a glyph on it is looked at and not followed: what is     *)
(* printed there next is under no promise.                                    *)
GlyphsWhole == Whole(primary) /\ Whole(alt)

(* Two commands wait, the system refuses a size, and the child ends, while no   *)
(* glyph is on a screen: the session and the cells meet in the size alone.     *)
NoGlyph == WideCells(primary) = {} /\ WideCells(alt) = {}
SessionOrGlyphs ==
  NoGlyph \/ (Len(commands) <= 1 /\ ~refused /\ ~child_exited /\ ~output_ended /\ dropped = None)
=============================================================================
