---------------------------- MODULE TerminalGrid ----------------------------
(***************************************************************************)
(* The cell grid behind the embedded terminal                                *)
(* (crates/ghidrust-gui/src/grok_term/ansi.rs): one action per control        *)
(* sequence of the child, and the resize of the window.                      *)
(*                                                                         *)
(* A cell is one column WIDE, or the leading half of a double-width glyph,    *)
(* or its trailing half (wide_cont); which character it shows and how is left *)
(* out, and so are colours and the bytes a sequence is made of.               *)
(***************************************************************************)
EXTENDS Integers, FiniteSets

CONSTANTS
  Sizes,      \* the sizes the window has, as <<columns, rows>>
  MaxWide,    \* bound: cells of double-width glyphs on both screens
  None

ASSUME SizeAssumption  == Sizes \subseteq (Nat \ {0, 1}) \X (Nat \ {0}) /\ IsFiniteSet(Sizes)
ASSUME BoundAssumption == MaxWide \in Nat
ASSUME NoneAssumption  == None \notin Nat \X Nat

VARIABLES
  size,                        \* columns and rows
  primary, alt, use_alt,       \* the two screens and which is shown
  cursor_col, cursor_row, saved_cursor,
  scroll_top, scroll_bottom,   \* the margins, DECSTBM
  stuck                        \* scroll_up counts down from below zero: a panic
                               \* where overflow is checked, otherwise 2^64 rounds

cursor  == <<cursor_col, cursor_row>>
margins == <<scroll_top, scroll_bottom>>
screens == <<primary, alt, use_alt>>
grid    == <<size, screens, cursor, saved_cursor, margins, stuck>>

Cell == {"narrow", "wide", "wide_cont"}

Cols == size[1]
Rows == size[2]
ColsOf(sz) == 0 .. sz[1] - 1
RowsOf(sz) == 0 .. sz[2] - 1
Screen(sz) == [RowsOf(sz) \X ColsOf(sz) -> Cell]
Blank(sz)  == [p \in RowsOf(sz) \X ColsOf(sz) |-> "narrow"]
Least(a, b) == IF a <= b THEN a ELSE b

\* Numbers a sequence carries: none (its default), and up to one too many.
Counts == UNION {(1 .. sz[1] + 1) \cup (1 .. sz[2] + 1) : sz \in Sizes}

active == IF use_alt THEN alt ELSE primary

\* The screen shown becomes s.
Shows(s) ==
  /\ primary' = IF use_alt THEN primary ELSE s
  /\ alt' = IF use_alt THEN s ELSE alt
  /\ UNCHANGED use_alt

----------------------------------------------------------------------------
(* Buffer *)

\* A cell of the screen, or a blank one beyond it.
At(s, row, col) == IF <<row, col>> \in DOMAIN s THEN s[<<row, col>>] ELSE "narrow"

\* clear_cell_wide_safe: with the cell goes the other half of its glyph.
ClearCellWideSafe(s, row, col) ==
  [p \in DOMAIN s |->
     IF p = <<row, col>>
        \/ (s[<<row, col>>] = "wide_cont" /\ p = <<row, col - 1>>)
        \/ (s[<<row, col>>] = "wide" /\ p = <<row, col + 1>>)
     THEN "narrow" ELSE s[p]]

ClearLineRange(s, row, start, end) ==
  [p \in DOMAIN s |-> IF p[1] = row /\ start <= p[2] /\ p[2] < end THEN "narrow" ELSE s[p]]

\* scroll_up, of at most the whole region.
ScrolledUp(s, top, bottom, n) ==
  LET bot == Least(bottom, Rows - 1) IN
  IF top >= bottom \/ top >= Rows THEN s
  ELSE [p \in DOMAIN s |->
          IF p[1] \notin top .. bot THEN s[p]
          ELSE IF p[1] + n <= bot THEN s[<<p[1] + n, p[2]>>] ELSE "narrow"]

\* The loop of scroll_up ends at bot - n, in unsigned arithmetic: a scroll by
\* the whole region has no such row when the region starts at the first.
Underflows(top, bottom, n) ==
  top < bottom /\ top < Rows /\ Least(n, Least(bottom, Rows - 1) - top + 1) > Least(bottom, Rows - 1)

ScrolledDown(s, top, bottom, n) ==
  LET bot == Least(bottom, Rows - 1) IN
  IF top >= bottom \/ top >= Rows THEN s
  ELSE [p \in DOMAIN s |->
          IF p[1] \notin top .. bot THEN s[p]
          ELSE IF p[1] - n >= top THEN s[<<p[1] - n, p[2]>>] ELSE "narrow"]

Resized(s, sz) == [p \in RowsOf(sz) \X ColsOf(sz) |-> At(s, p[1], p[2])]

----------------------------------------------------------------------------
(* The cursor *)

\* Least(.., cols) and not cols - 1: the cursor may wait past the last column.
MoveTo(row, col) ==
  /\ cursor_row' = Least(row, Rows - 1)
  /\ cursor_col' = Least(col, Cols)

CursorPosition ==
  /\ \E row \in 0 .. Rows, col \in 0 .. Cols : MoveTo(row, col)
  /\ UNCHANGED <<size, screens, saved_cursor, margins, stuck>>

Monus(a, b) == IF a >= b THEN a - b ELSE 0

\* CUU, CUD, CUF, CUB, CHA and VPA; each is clamped at the end of dispatch_csi,
\* as the cursor is after any other sequence, one that sets colours.
CursorMoves ==
  /\ \E n \in Counts :
       \/ MoveTo(cursor_row, cursor_col)
       \/ MoveTo(Monus(cursor_row, n), cursor_col) \/ MoveTo(cursor_row + n, cursor_col)
       \/ MoveTo(cursor_row, cursor_col + n) \/ MoveTo(cursor_row, Monus(cursor_col, n))
       \/ MoveTo(cursor_row, n - 1) \/ MoveTo(n - 1, cursor_col)
  /\ UNCHANGED <<size, screens, saved_cursor, margins, stuck>>

\* CR, BS and HT.
ColumnMoves ==
  /\ cursor_col' \in {0, Monus(cursor_col, 1), Least(((cursor_col \div 8) + 1) * 8, Cols - 1)}
  /\ UNCHANGED <<size, screens, cursor_row, saved_cursor, margins, stuck>>

\* DECSC and SCOSC; only the latter clamps the cursor it has saved.
SaveCursor ==
  /\ saved_cursor' = <<cursor_col, cursor_row>>
  /\ UNCHANGED cursor \/ MoveTo(cursor_row, cursor_col)
  /\ UNCHANGED <<size, screens, margins, stuck>>

\* DECRC as saved, SCORC clamped.
RestoreCursor ==
  /\ saved_cursor # None
  /\ \/ cursor_col' = saved_cursor[1] /\ cursor_row' = saved_cursor[2]
     \/ MoveTo(saved_cursor[2], saved_cursor[1])
  /\ UNCHANGED <<size, screens, saved_cursor, margins, stuck>>

----------------------------------------------------------------------------
(* Printing and scrolling *)

\* The cursor and the screen one line down.
Fed(row) == IF row >= scroll_bottom THEN row ELSE row + 1
FedScreen(row) ==
  IF row >= scroll_bottom THEN ScrolledUp(active, scroll_top, scroll_bottom, 1) ELSE active

\* LF, IND, and NEL that goes to the first column before.
LineFeed ==
  /\ cursor_row' = Fed(cursor_row) /\ Shows(FedScreen(cursor_row))
  /\ cursor_col' \in {cursor_col, 0}
  /\ UNCHANGED <<size, saved_cursor, margins, stuck>>

ReverseIndex ==
  /\ IF cursor_row <= scroll_top
     THEN Shows(ScrolledDown(active, scroll_top, scroll_bottom, 1)) /\ UNCHANGED cursor_row
     ELSE cursor_row' = cursor_row - 1 /\ UNCHANGED screens
  /\ UNCHANGED <<size, cursor_col, saved_cursor, margins, stuck>>

WideCells(s) == {p \in DOMAIN s : s[p] # "narrow"}

\* BUG: a wide glyph clears the cell it starts in, and not the next.
PrintedOverHalf(s, row, col, width) ==
  LET one == ClearCellWideSafe(s, row, col) IN
  IF width = 1 THEN one ELSE [one EXCEPT ![<<row, col>>] = "wide", ![<<row, col + 1>>] = "wide_cont"]

Printed(s, row, col, width) ==
  LET one == ClearCellWideSafe(s, row, col) IN
  IF width = 1 THEN one
  ELSE [ClearCellWideSafe(one, row, col + 1) EXCEPT ![<<row, col>>] = "wide", ![<<row, col + 1>>] = "wide_cont"]

\* put_char: a full line, or one without room for both halves, wraps first.
PutChar(width) ==
  LET wraps == cursor_col + width > Cols
      col == IF wraps THEN 0 ELSE cursor_col
      fed == IF wraps THEN Fed(cursor_row) ELSE cursor_row
      s   == IF wraps THEN FedScreen(cursor_row) ELSE active
  IN
  /\ Shows(Printed(s, Least(fed, Rows - 1), col, width))
  /\ Cardinality(WideCells(primary')) + Cardinality(WideCells(alt')) <= MaxWide
  /\ cursor_row' = fed /\ cursor_col' = col + width
  /\ UNCHANGED <<size, saved_cursor, margins, stuck>>

SetMargins ==
  /\ \E top \in 0 .. Rows - 1, bottom \in 0 .. Rows - 1 :
       /\ scroll_top' = top
       /\ scroll_bottom' = IF bottom < top THEN top ELSE bottom
       /\ cursor_col' = 0 /\ cursor_row' = top
  /\ UNCHANGED <<size, screens, saved_cursor, stuck>>

\* SU from the top margin, DL from the cursor's line.
ScrollUpFrom(top, n) ==
  IF Underflows(top, scroll_bottom, n)
  THEN stuck' = TRUE /\ UNCHANGED <<screens, cursor>>
  ELSE /\ Shows(ScrolledUp(active, top, scroll_bottom, n))
       /\ MoveTo(cursor_row, cursor_col) /\ UNCHANGED stuck

ScrollUp ==
  /\ \E n \in Counts : ScrollUpFrom(scroll_top, n)
  /\ UNCHANGED <<size, saved_cursor, margins>>

DeleteLines ==
  /\ \E n \in Counts : ScrollUpFrom(cursor_row, n)
  /\ UNCHANGED <<size, saved_cursor, margins>>

ScrollDown ==
  /\ \E n \in Counts : Shows(ScrolledDown(active, scroll_top, scroll_bottom, n))
  /\ MoveTo(cursor_row, cursor_col)
  /\ UNCHANGED <<size, saved_cursor, margins, stuck>>

InsertLines ==
  /\ \E n \in Counts : Shows(ScrolledDown(active, cursor_row, scroll_bottom, n))
  /\ MoveTo(cursor_row, cursor_col)
  /\ UNCHANGED <<size, saved_cursor, margins, stuck>>

----------------------------------------------------------------------------
(* Erasing and shifting: whole cells, whatever glyph they are half of *)

\* From the cursor, up to it, or all of it.
EraseDisplay ==
  /\ \/ Shows([p \in DOMAIN active |->
                 IF p[1] > cursor_row THEN "narrow"
                 ELSE ClearLineRange(active, cursor_row, cursor_col, Cols)[p]])
     \/ Shows([p \in DOMAIN active |->
                 IF p[1] < cursor_row THEN "narrow"
                 ELSE ClearLineRange(active, cursor_row, 0, cursor_col + 1)[p]])
     \/ Shows(Blank(size))
  /\ MoveTo(cursor_row, cursor_col)
  /\ UNCHANGED <<size, saved_cursor, margins, stuck>>

Column == Least(cursor_col, Cols - 1)

EraseLine ==
  /\ \/ Shows(ClearLineRange(active, cursor_row, Column, Cols))
     \/ Shows(ClearLineRange(active, cursor_row, 0, Column + 1))
     \/ Shows(ClearLineRange(active, cursor_row, 0, Cols))
     \/ \E n \in Counts : Shows(ClearLineRange(active, cursor_row, cursor_col, cursor_col + n))
  /\ MoveTo(cursor_row, cursor_col)
  /\ UNCHANGED <<size, saved_cursor, margins, stuck>>

DeleteChars ==
  /\ \E n \in Counts :
       Shows([p \in DOMAIN active |->
                IF p[1] # cursor_row \/ p[2] < Column THEN active[p]
                ELSE At(active, p[1], p[2] + n)])
  /\ MoveTo(cursor_row, cursor_col)
  /\ UNCHANGED <<size, saved_cursor, margins, stuck>>

InsertChars ==
  /\ \E n \in Counts :
       Shows([p \in DOMAIN active |->
                IF p[1] # cursor_row \/ p[2] < Column THEN active[p]
                ELSE IF p[2] >= Column + n THEN active[<<p[1], p[2] - n>>] ELSE "narrow"])
  /\ MoveTo(cursor_row, cursor_col)
  /\ UNCHANGED <<size, saved_cursor, margins, stuck>>

----------------------------------------------------------------------------
(* Screens *)

\* RIS: the cells stay.
Reset ==
  /\ cursor_col' = 0 /\ cursor_row' = 0
  /\ scroll_top' = 0 /\ scroll_bottom' = Rows - 1
  /\ UNCHANGED <<size, screens, saved_cursor, stuck>>

\* DECSET and DECRST 1049: the cursor is not saved with the screen.
EnterAlt ==
  /\ ~use_alt
  /\ use_alt' = TRUE /\ alt' = Blank(size)
  /\ cursor_col' = 0 /\ cursor_row' = 0
  /\ UNCHANGED <<size, primary, saved_cursor, margins, stuck>>

\* What the alternate screen held is cleared when it is entered again.
LeaveAlt ==
  /\ use_alt /\ use_alt' = FALSE
  /\ alt' = Blank(size)
  /\ UNCHANGED <<size, primary, cursor, saved_cursor, margins, stuck>>

\* BUG: the cursor is left where it was.
ResizeKeepsCursor(sz) ==
  /\ sz \in Sizes /\ size' = sz
  /\ primary' = Resized(primary, sz) /\ alt' = Resized(alt, sz)
  /\ scroll_top' = 0 /\ scroll_bottom' = sz[2] - 1
  /\ UNCHANGED <<use_alt, cursor, saved_cursor, stuck>>

\* BUG: the margins stay.
ResizeKeepsMargins(sz) ==
  /\ sz \in Sizes /\ size' = sz
  /\ primary' = Resized(primary, sz) /\ alt' = Resized(alt, sz)
  /\ cursor_col' = Least(cursor_col, sz[1] - 1)
  /\ cursor_row' = Least(cursor_row, sz[2] - 1)
  /\ UNCHANGED <<use_alt, saved_cursor, margins, stuck>>

ResizeGrid(sz) ==
  /\ sz \in Sizes /\ size' = sz
  /\ primary' = Resized(primary, sz) /\ alt' = Resized(alt, sz)
  /\ cursor_col' = Least(cursor_col, sz[1] - 1)
  /\ cursor_row' = Least(cursor_row, sz[2] - 1)
  /\ scroll_top' = 0 /\ scroll_bottom' = sz[2] - 1
  /\ UNCHANGED <<use_alt, saved_cursor, stuck>>

----------------------------------------------------------------------------

GridInit(sz) ==
  /\ size = sz
  /\ primary = Blank(sz) /\ alt = Blank(sz) /\ use_alt = FALSE
  /\ cursor_col = 0 /\ cursor_row = 0 /\ saved_cursor = None
  /\ scroll_top = 0 /\ scroll_bottom = sz[2] - 1
  /\ stuck = FALSE

\* The grid of the next session.
GridRestart(sz) ==
  /\ size' = sz
  /\ primary' = Blank(sz) /\ alt' = Blank(sz) /\ use_alt' = FALSE
  /\ cursor_col' = 0 /\ cursor_row' = 0 /\ saved_cursor' = None
  /\ scroll_top' = 0 /\ scroll_bottom' = sz[2] - 1
  /\ stuck' = FALSE

\* What read_loop feeds, one sequence at a time.
Scrolls == LineFeed \/ ReverseIndex \/ ScrollUp \/ ScrollDown \/ InsertLines \/ DeleteLines
Edits   == EraseDisplay \/ EraseLine \/ DeleteChars \/ InsertChars
Moves   == CursorPosition \/ CursorMoves \/ ColumnMoves \/ SaveCursor \/ RestoreCursor
             \/ SetMargins \/ Reset \/ EnterAlt \/ LeaveAlt
FeedBytes ==
  /\ ~stuck
  /\ PutChar(1) \/ PutChar(2) \/ Scrolls \/ Edits \/ Moves

\* Where the cursor may be in a window of some size, or was before a resize.
AnyCol == UNION {0 .. sz[1] : sz \in Sizes}
AnyRow == UNION {RowsOf(sz) : sz \in Sizes}

GridTypeOK ==
  /\ size \in Sizes
  /\ primary \in Screen(size) /\ alt \in Screen(size) /\ use_alt \in BOOLEAN
  /\ cursor_col \in AnyCol /\ cursor_row \in AnyRow
  /\ saved_cursor \in (AnyCol \X AnyRow) \cup {None}
  /\ scroll_top \in 0 .. scroll_bottom /\ scroll_bottom \in 0 .. Rows - 1
  /\ stuck \in BOOLEAN
=============================================================================
