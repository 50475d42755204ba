-------------------------- MODULE TermSessionProofs --------------------------
(***************************************************************************)
(* What holds of TermSession for any window sizes and any output of the       *)
(* child: the cells, margins and cursor stay in range but for a cursor that   *)
(* was saved, and the child is told the size it is drawn in.                  *)
(***************************************************************************)
EXTENDS TermSession, SequenceTheorems, TLAPS

USE SizeAssumption, BoundAssumption, NoneAssumption, StartAssumption

ScreensOK == primary \in Screen(size) /\ alt \in Screen(size) /\ use_alt \in BOOLEAN
MarginsOK == scroll_top \in 0 .. scroll_bottom /\ scroll_bottom \in 0 .. Rows - 1
GridInv   == GridTypeOK /\ OffScreenIsSaved

\* The same in one piece: the cursor is on the screen or no further out than
\* the saved one, and that in the range of some window.
CursorOK ==
  /\ saved_cursor # None => saved_cursor \in AnyCol \X AnyRow
  /\ cursor_col \in Nat
  /\ cursor_col <= Cols \/ (saved_cursor # None /\ cursor_col <= saved_cursor[1])
  /\ cursor_row \in Nat
  /\ cursor_row <= Rows - 1 \/ (saved_cursor # None /\ cursor_row <= saved_cursor[2])
CellsOK == size \in Sizes /\ ScreensOK /\ MarginsOK /\ stuck \in BOOLEAN

-----------------------------------------------------------------------------
(* Lemmas about the operators of the grid *)

LEMMA SizeType ==
  ASSUME NEW sz \in Sizes
  PROVE  sz[1] \in Nat \ {0, 1} /\ sz[2] \in Nat \ {0}
  OBVIOUS

LEMMA CountType ==
  ASSUME NEW n \in Counts
  PROVE  n \in Nat \ {0}
<1>1. PICK sz \in Sizes : n \in 1 .. sz[1] + 1 \/ n \in 1 .. sz[2] + 1
  BY DEF Counts
<1> QED
  BY <1>1, SizeType

\* What is left of a column, or above a row, of some window is one too.
LEMMA AnyType ==
  /\ \A c \in AnyCol : c \in Nat /\ \A d \in Nat : d <= c => d \in AnyCol
  /\ \A c \in AnyRow : c \in Nat /\ \A d \in Nat : d <= c => d \in AnyRow
  /\ \A sz \in Sizes : \A d \in Nat :
       (d <= sz[1] => d \in AnyCol) /\ (d <= sz[2] - 1 => d \in AnyRow)
<1>1. ASSUME NEW c \in AnyCol PROVE c \in Nat /\ \A d \in Nat : d <= c => d \in AnyCol
  <2>1. PICK sz \in Sizes : c \in 0 .. sz[1]
    BY DEF AnyCol
  <2>2. \A d \in Nat : d <= c => d \in 0 .. sz[1]
    BY <2>1, SizeType
  <2> QED
    BY <2>1, <2>2, SizeType DEF AnyCol
<1>2. ASSUME NEW c \in AnyRow PROVE c \in Nat /\ \A d \in Nat : d <= c => d \in AnyRow
  <2>1. PICK sz \in Sizes : c \in 0 .. sz[2] - 1
    BY DEF AnyRow, RowsOf
  <2>2. \A d \in Nat : d <= c => d \in 0 .. sz[2] - 1
    BY <2>1, SizeType
  <2> QED
    BY <2>1, <2>2, SizeType DEF AnyRow, RowsOf
<1>3. ASSUME NEW sz \in Sizes, NEW d \in Nat
      PROVE  (d <= sz[1] => d \in AnyCol) /\ (d <= sz[2] - 1 => d \in AnyRow)
  BY SizeType DEF AnyCol, AnyRow, RowsOf
<1> QED
  BY <1>1, <1>2, <1>3

\* The two forms of the invariant.
LEMMA GridForm == GridInv <=> CellsOK /\ CursorOK
<1>1. ASSUME GridInv PROVE CellsOK /\ CursorOK
  <2>1. CellsOK
    BY <1>1 DEF GridInv, GridTypeOK, CellsOK, ScreensOK, MarginsOK
  <2>2. size \in Sizes /\ cursor_col \in AnyCol /\ cursor_row \in AnyRow
        /\ saved_cursor \in (AnyCol \X AnyRow) \cup {None}
    BY <1>1 DEF GridInv, GridTypeOK
  <2>3. cursor_col \in Nat /\ cursor_row \in Nat /\ Rows \in Nat /\ Cols \in Nat
    BY <2>2, AnyType, SizeType DEF Rows, Cols
  <2> QED
    BY <1>1, <2>1, <2>2, <2>3 DEF GridInv, OffScreenIsSaved, CursorOK
<1>2. ASSUME CellsOK, CursorOK PROVE GridInv
  <2>1. size \in Sizes /\ Rows \in Nat /\ Cols \in Nat /\ cursor_col \in Nat /\ cursor_row \in Nat
    BY <1>2, SizeType DEF CellsOK, CursorOK, Rows, Cols
  <2>2. saved_cursor # None => saved_cursor[1] \in AnyCol /\ saved_cursor[2] \in AnyRow
    BY <1>2 DEF CursorOK
  <2>3. cursor_col \in AnyCol
    BY <1>2, <2>1, <2>2, AnyType DEF CursorOK, Cols
  <2>4. cursor_row \in AnyRow
    BY <1>2, <2>1, <2>2, AnyType DEF CursorOK, Rows
  <2>5. GridTypeOK
    BY <1>2, <2>3, <2>4 DEF CellsOK, CursorOK, ScreensOK, MarginsOK, GridTypeOK
  <2>6. OffScreenIsSaved
    <3>1. cursor_row >= Rows => ~(cursor_row <= Rows - 1)
      BY <2>1
    <3>2. cursor_col > Cols => ~(cursor_col <= Cols)
      BY <2>1
    <3> QED
      BY <1>2, <3>1, <3>2 DEF CursorOK, OffScreenIsSaved
  <2> QED
    BY <2>5, <2>6 DEF GridInv
<1> QED
  BY <1>1, <1>2

LEMMA GridFormNext == GridInv' <=> CellsOK' /\ CursorOK'
BY GridForm, PTL

LEMMA BlankType == \A sz : Blank(sz) \in Screen(sz)
  BY DEF Blank, Screen, Cell

LEMMA ActiveType == ScreensOK => active \in Screen(size)
  BY DEF ScreensOK, active

\* The screen shown is replaced by one of its size.
LEMMA ShowsType ==
  ASSUME ScreensOK, NEW s \in Screen(size), Shows(s)
  PROVE  primary' \in Screen(size) /\ alt' \in Screen(size) /\ use_alt' \in BOOLEAN
  BY DEF ScreensOK, Shows

\* At reads any position.
LEMMA AtType ==
  ASSUME NEW sz, NEW s \in Screen(sz), NEW row, NEW col
  PROVE  At(s, row, col) \in Cell
  BY DEF At, Screen, Cell

LEMMA ScrolledUpType ==
  ASSUME size \in Sizes, NEW s \in Screen(size), NEW top \in Nat, NEW bottom \in Nat, NEW n \in Nat
  PROVE  ScrolledUp(s, top, bottom, n) \in Screen(size)
<1> DEFINE bot == Least(bottom, Rows - 1)
           f == [p \in DOMAIN s |-> IF p[1] \notin top .. bot THEN s[p]
                                    ELSE IF p[1] + n <= bot THEN s[<<p[1] + n, p[2]>>] ELSE "narrow"]
<1>1. bot \in Int /\ bot <= Rows - 1 /\ Rows \in Nat
  BY SizeType DEF Least, Rows
<1>2. DOMAIN s = RowsOf(size) \X ColsOf(size) /\ \A p \in DOMAIN s : s[p] \in Cell
  BY DEF Screen
<1>3. ScrolledUp(s, top, bottom, n) = IF top >= bottom \/ top >= Rows THEN s ELSE f
  BY DEF ScrolledUp
<1>4. ASSUME NEW p \in DOMAIN s PROVE f[p] \in Cell
  <2>1. p[1] \in 0 .. Rows - 1 /\ p[2] \in ColsOf(size)
    BY <1>2 DEF RowsOf, Rows
  <2>2. CASE p[1] \notin top .. bot
    <3>1. f[p] = s[p]
      BY <2>2
    <3> QED
      BY <1>2, <3>1
  <2>3. CASE p[1] \in top .. bot /\ p[1] + n <= bot
    <3>1. <<p[1] + n, p[2]>> \in DOMAIN s
      BY <1>1, <1>2, <2>1, <2>3 DEF RowsOf, Rows
    <3>2. f[p] = s[<<p[1] + n, p[2]>>]
      BY <2>3
    <3> QED
      BY <1>2, <3>1, <3>2
  <2>4. CASE p[1] \in top .. bot /\ ~(p[1] + n <= bot)
    BY <2>4 DEF Cell
  <2> QED
    BY <2>2, <2>3, <2>4
<1> HIDE DEF f
<1>5. f \in Screen(size)
  BY <1>2, <1>4 DEF f, Screen
<1> QED
  BY <1>3, <1>5

LEMMA ScrolledDownType ==
  ASSUME size \in Sizes, NEW s \in Screen(size), NEW top \in Nat, NEW bottom \in Nat, NEW n \in Nat
  PROVE  ScrolledDown(s, top, bottom, n) \in Screen(size)
<1> DEFINE bot == Least(bottom, Rows - 1)
           f == [p \in DOMAIN s |-> IF p[1] \notin top .. bot THEN s[p]
                                    ELSE IF p[1] - n >= top THEN s[<<p[1] - n, p[2]>>] ELSE "narrow"]
<1>1. bot \in Int /\ bot <= Rows - 1 /\ Rows \in Nat
  BY SizeType DEF Least, Rows
<1>2. DOMAIN s = RowsOf(size) \X ColsOf(size) /\ \A p \in DOMAIN s : s[p] \in Cell
  BY DEF Screen
<1>3. ScrolledDown(s, top, bottom, n) = IF top >= bottom \/ top >= Rows THEN s ELSE f
  BY DEF ScrolledDown
<1>4. ASSUME NEW p \in DOMAIN s PROVE f[p] \in Cell
  <2>1. p[1] \in 0 .. Rows - 1 /\ p[2] \in ColsOf(size)
    BY <1>2 DEF RowsOf, Rows
  <2>2. CASE p[1] \notin top .. bot
    <3>1. f[p] = s[p]
      BY <2>2
    <3> QED
      BY <1>2, <3>1
  <2>3. CASE p[1] \in top .. bot /\ p[1] - n >= top
    <3>1. <<p[1] - n, p[2]>> \in DOMAIN s
      BY <1>1, <1>2, <2>1, <2>3 DEF RowsOf, Rows
    <3>2. f[p] = s[<<p[1] - n, p[2]>>]
      BY <2>3
    <3> QED
      BY <1>2, <3>1, <3>2
  <2>4. CASE p[1] \in top .. bot /\ ~(p[1] - n >= top)
    BY <2>4 DEF Cell
  <2> QED
    BY <2>2, <2>3, <2>4
<1> HIDE DEF f
<1>5. f \in Screen(size)
  BY <1>2, <1>4 DEF f, Screen
<1> QED
  BY <1>3, <1>5

LEMMA ClearLineType ==
  ASSUME NEW s \in Screen(size), NEW row, NEW start, NEW end
  PROVE  ClearLineRange(s, row, start, end) \in Screen(size)
  BY DEF ClearLineRange, Screen, Cell

LEMMA ClearCellType ==
  ASSUME NEW s \in Screen(size), NEW row, NEW col
  PROVE  ClearCellWideSafe(s, row, col) \in Screen(size)
  BY DEF ClearCellWideSafe, Screen, Cell

\* Whatever is printed, it is printed on the screen.
LEMMA PrintedType ==
  ASSUME NEW s \in Screen(size), NEW row, NEW col, NEW width
  PROVE  Printed(s, row, col, width) \in Screen(size)
<1> DEFINE one == ClearCellWideSafe(s, row, col)
           two == ClearCellWideSafe(one, row, col + 1)
<1>1. one \in Screen(size) /\ two \in Screen(size)
  BY ClearCellType
<1>2. CASE width = 1
  BY <1>1, <1>2 DEF Printed
<1>3. CASE width # 1
  <2>1. Printed(s, row, col, width) = [two EXCEPT ![<<row, col>>] = "wide", ![<<row, col + 1>>] = "wide_cont"]
    BY <1>3 DEF Printed
  <2> HIDE DEF one, two
  <2> QED
    BY <1>1, <2>1 DEF Screen, Cell
<1> QED
  BY <1>2, <1>3

LEMMA ResizedType ==
  ASSUME NEW old, NEW s \in Screen(old), NEW sz
  PROVE  Resized(s, sz) \in Screen(sz)
<1>1. \A p \in RowsOf(sz) \X ColsOf(sz) : At(s, p[1], p[2]) \in Cell
  BY AtType
<1> QED
  BY <1>1 DEF Resized, Screen

\* Where the cursor goes when it is clamped.
LEMMA MoveToType ==
  ASSUME size \in Sizes, NEW row \in Nat, NEW col \in Nat, MoveTo(row, col)
  PROVE  cursor_row' \in 0 .. Rows - 1 /\ cursor_col' \in 0 .. Cols
  BY SizeType DEF MoveTo, Least, Rows, Cols

\* One line down is on the screen, or no line down at all.
LEMMA FedType ==
  ASSUME GridTypeOK, NEW row \in Nat
  PROVE  /\ Fed(row) \in Nat /\ (Fed(row) = row \/ Fed(row) <= Rows - 1)
         /\ FedScreen(row) \in Screen(size)
<1>1. Fed(row) \in Nat /\ (Fed(row) = row \/ Fed(row) <= Rows - 1)
  BY SizeType DEF Fed, GridTypeOK, Rows
<1>2. FedScreen(row) \in Screen(size)
  BY ActiveType, ScrolledUpType DEF FedScreen, GridTypeOK, ScreensOK
<1> QED
  BY <1>1, <1>2

-----------------------------------------------------------------------------
(* The actions of the grid *)

\* Most steps: the cursor ends on the screen, or no further out than it was.
LEMMA KeepsGrid ==
  ASSUME GridInv, UNCHANGED <<size, saved_cursor, margins>>,
         primary' \in Screen(size), alt' \in Screen(size), use_alt' \in BOOLEAN,
         cursor_col' \in Nat, cursor_col' <= Cols \/ cursor_col' <= cursor_col,
         cursor_row' \in Nat, cursor_row' <= Rows - 1 \/ cursor_row' <= cursor_row,
         stuck' \in BOOLEAN
  PROVE  GridInv'
<1>1. Rows' = Rows /\ Cols' = Cols /\ UNCHANGED <<scroll_top, scroll_bottom>>
  BY DEF Rows, Cols, margins
<1>2. CellsOK'
  BY <1>1, GridForm DEF CellsOK, ScreensOK, MarginsOK
<1>3. /\ cursor_col \in Nat /\ cursor_row \in Nat /\ Cols \in Nat /\ Rows \in Nat
      /\ saved_cursor # None => saved_cursor[1] \in Nat /\ saved_cursor[2] \in Nat
      /\ CursorOK
  BY GridForm, AnyType, SizeType DEF CellsOK, CursorOK, Rows, Cols
<1>4. cursor_col' <= Cols \/ (saved_cursor # None /\ cursor_col' <= saved_cursor[1])
  BY <1>3 DEF CursorOK
<1>5. cursor_row' <= Rows - 1 \/ (saved_cursor # None /\ cursor_row' <= saved_cursor[2])
  BY <1>3 DEF CursorOK
<1>6. CursorOK'
  BY <1>1, <1>3, <1>4, <1>5 DEF CursorOK
<1> QED
  BY <1>2, <1>6, GridFormNext

LEMMA GridFacts ==
  ASSUME GridInv
  PROVE  /\ ScreensOK /\ MarginsOK /\ size \in Sizes /\ active \in Screen(size)
         /\ cursor_col \in Nat /\ cursor_row \in Nat /\ stuck \in BOOLEAN
         /\ scroll_top \in Nat /\ scroll_bottom \in Nat /\ Rows \in Nat \ {0} /\ Cols \in Nat \ {0, 1}
<1>1. CellsOK /\ CursorOK
  BY GridForm
<1> QED
  BY <1>1, ActiveType, SizeType DEF CellsOK, CursorOK, MarginsOK, Rows, Cols

\* A step that shows another screen and clamps the cursor.
LEMMA ShowsInv ==
  ASSUME GridInv, NEW s \in Screen(size), Shows(s), MoveTo(cursor_row, cursor_col),
         UNCHANGED <<size, saved_cursor, margins, stuck>>
  PROVE  GridInv'
<1>1. cursor_row' \in 0 .. Rows - 1 /\ cursor_col' \in 0 .. Cols
  BY GridFacts, MoveToType
<1>2. primary' \in Screen(size) /\ alt' \in Screen(size) /\ use_alt' \in BOOLEAN
  BY GridFacts, ShowsType
<1> QED
  BY <1>1, <1>2, GridFacts, KeepsGrid

\* A step that moves the cursor.
LEMMA MoveInv ==
  ASSUME GridInv, NEW row \in Nat, NEW col \in Nat, MoveTo(row, col),
         UNCHANGED <<size, screens, saved_cursor, margins, stuck>>
  PROVE  GridInv'
<1>1. cursor_row' \in 0 .. Rows - 1 /\ cursor_col' \in 0 .. Cols
  BY GridFacts, MoveToType
<1> QED
  BY <1>1, GridFacts, KeepsGrid DEF screens, ScreensOK

LEMMA CursorMovesInv ==
  ASSUME GridInv, CursorPosition \/ CursorMoves
  PROVE  GridInv'
<1>1. CASE CursorPosition
  <2>1. PICK row \in 0 .. Rows, col \in 0 .. Cols : MoveTo(row, col)
    BY <1>1 DEF CursorPosition
  <2> QED
    BY <1>1, <2>1, GridFacts, MoveInv DEF CursorPosition
<1>2. CASE CursorMoves
  <2>1. PICK n \in Counts :
          \/ MoveTo(cursor_row, cursor_col)
          \/ MoveTo(Monus(cursor_row, n), cursor_col) \/ MoveTo(cursor_row + n, cursor_col)
          \/ MoveTo(cursor_row, cursor_col + n) \/ MoveTo(cursor_row, Monus(cursor_col, n))
          \/ MoveTo(cursor_row, n - 1) \/ MoveTo(n - 1, cursor_col)
    BY <1>2 DEF CursorMoves
  <2>2. n \in Nat \ {0} /\ cursor_row \in Nat /\ cursor_col \in Nat
    BY CountType, GridFacts
  <2>3. /\ Monus(cursor_row, n) \in Nat /\ Monus(cursor_col, n) \in Nat /\ n - 1 \in Nat
        /\ cursor_row + n \in Nat /\ cursor_col + n \in Nat
    BY <2>2 DEF Monus
  <2> QED
    BY <1>2, <2>1, <2>2, <2>3, MoveInv DEF CursorMoves
<1> QED
  BY <1>1, <1>2

LEMMA ColumnMovesInv ==
  ASSUME GridInv, ColumnMoves
  PROVE  GridInv'
<1>1. cursor_col' \in Nat /\ (cursor_col' <= Cols \/ cursor_col' <= cursor_col)
  <2>1. /\ Least(((cursor_col \div 8) + 1) * 8, Cols - 1) \in Nat
        /\ Least(((cursor_col \div 8) + 1) * 8, Cols - 1) <= Cols
    BY GridFacts DEF Least
  <2>2. Monus(cursor_col, 1) \in Nat /\ Monus(cursor_col, 1) <= cursor_col
    BY GridFacts DEF Monus
  <2> QED
    BY <2>1, <2>2, GridFacts DEF ColumnMoves
<1> QED
  BY <1>1, GridFacts, KeepsGrid DEF ColumnMoves, screens, ScreensOK

\* The cursor saved is where it is.
LEMMA SaveInv ==
  ASSUME GridInv, SaveCursor
  PROVE  GridInv'
<1>1. saved_cursor' = <<cursor_col, cursor_row>> /\ saved_cursor' \in AnyCol \X AnyRow
  BY DEF SaveCursor, GridInv, GridTypeOK
<1>2. UNCHANGED cursor \/ MoveTo(cursor_row, cursor_col)
  BY DEF SaveCursor
<1>3. /\ cursor_col' \in Nat /\ (cursor_col' <= Cols \/ cursor_col' = cursor_col)
      /\ cursor_row' \in Nat /\ (cursor_row' <= Rows - 1 \/ cursor_row' = cursor_row)
  BY <1>2, GridFacts, MoveToType DEF cursor
<1>4. UNCHANGED <<size, primary, alt, use_alt, scroll_top, scroll_bottom, stuck>>
      /\ Rows' = Rows /\ Cols' = Cols
  BY DEF SaveCursor, screens, margins, Rows, Cols
<1>5. CellsOK'
  BY <1>4, GridForm DEF CellsOK, ScreensOK, MarginsOK
<1>6. saved_cursor' # None /\ saved_cursor'[1] = cursor_col /\ saved_cursor'[2] = cursor_row
  BY <1>1, GridFacts
<1>7. CursorOK'
  BY <1>1, <1>3, <1>4, <1>6, GridFacts DEF CursorOK
<1> QED
  BY <1>5, <1>7, GridFormNext

\* The cursor restored may be beyond the screen, and is the one saved.
LEMMA RestoreInv ==
  ASSUME GridInv, RestoreCursor
  PROVE  GridInv'
<1>1. saved_cursor # None /\ saved_cursor \in AnyCol \X AnyRow
      /\ UNCHANGED <<size, primary, alt, use_alt, saved_cursor, scroll_top, scroll_bottom, stuck>>
  BY DEF RestoreCursor, screens, margins, GridInv, GridTypeOK
<1>2. saved_cursor[1] \in Nat /\ saved_cursor[2] \in Nat
  BY <1>1, AnyType
<1>3. CASE cursor_col' = saved_cursor[1] /\ cursor_row' = saved_cursor[2]
  <2>1. CellsOK'
    BY <1>1, GridForm DEF CellsOK, ScreensOK, MarginsOK, Rows
  <2>2. CursorOK'
    BY <1>1, <1>2, <1>3 DEF CursorOK
  <2> QED
    BY <2>1, <2>2, GridFormNext
<1>4. CASE MoveTo(saved_cursor[2], saved_cursor[1])
  <2>1. UNCHANGED <<size, screens, saved_cursor, margins, stuck>>
    BY DEF RestoreCursor
  <2> QED
    BY <1>2, <1>4, <2>1, MoveInv
<1> QED
  BY <1>3, <1>4 DEF RestoreCursor

LEMMA ScrollsInv ==
  ASSUME GridInv, Scrolls
  PROVE  GridInv'
<1>0. GridTypeOK /\ size \in Sizes /\ active \in Screen(size)
      /\ cursor_row \in Nat /\ cursor_col \in Nat /\ scroll_top \in Nat /\ scroll_bottom \in Nat
  BY GridFacts DEF GridInv
<1>1. CASE LineFeed
  <2>1. /\ FedScreen(cursor_row) \in Screen(size)
        /\ Fed(cursor_row) \in Nat /\ (Fed(cursor_row) = cursor_row \/ Fed(cursor_row) <= Rows - 1)
    BY <1>0, FedType
  <2>2. primary' \in Screen(size) /\ alt' \in Screen(size) /\ use_alt' \in BOOLEAN
    BY <1>1, <2>1, GridFacts, ShowsType DEF LineFeed
  <2>3. /\ cursor_col' \in Nat /\ cursor_col' <= cursor_col
        /\ cursor_row' \in Nat /\ (cursor_row' <= Rows - 1 \/ cursor_row' <= cursor_row)
    BY <1>0, <1>1, <2>1, GridFacts DEF LineFeed
  <2>4. UNCHANGED <<size, saved_cursor, margins>> /\ stuck' \in BOOLEAN
    BY <1>1, GridFacts DEF LineFeed
  <2> QED
    BY <2>2, <2>3, <2>4, KeepsGrid
<1>2. CASE ReverseIndex
  <2>1. ScrolledDown(active, scroll_top, scroll_bottom, 1) \in Screen(size)
    BY <1>0, ScrolledDownType
  <2>2. primary' \in Screen(size) /\ alt' \in Screen(size) /\ use_alt' \in BOOLEAN
    BY <1>2, <2>1, GridFacts, ShowsType DEF ReverseIndex, screens, ScreensOK
  <2>3. cursor_row' \in Nat /\ cursor_row' <= cursor_row
    BY <1>0, <1>2 DEF ReverseIndex
  <2> QED
    BY <1>0, <1>2, <2>2, <2>3, GridFacts, KeepsGrid DEF ReverseIndex
<1>3. ASSUME NEW top \in Nat, NEW n \in Counts, ScrollUpFrom(top, n),
             UNCHANGED <<size, saved_cursor, margins>>
      PROVE  GridInv'
  <2>1. ScrolledUp(active, top, scroll_bottom, n) \in Screen(size)
    BY <1>0, CountType, ScrolledUpType
  <2>2. CASE Underflows(top, scroll_bottom, n)
    BY <1>0, <1>3, <2>2, GridFacts, KeepsGrid DEF ScrollUpFrom, screens, ScreensOK, cursor
  <2>3. CASE ~Underflows(top, scroll_bottom, n)
    BY <1>3, <2>1, <2>3, ShowsInv DEF ScrollUpFrom
  <2> QED
    BY <2>2, <2>3
<1>4. CASE ScrollUp \/ DeleteLines
  BY <1>0, <1>3, <1>4 DEF ScrollUp, DeleteLines
<1>5. CASE ScrollDown
  <2>1. PICK n \in Counts : Shows(ScrolledDown(active, scroll_top, scroll_bottom, n))
    BY <1>5 DEF ScrollDown
  <2> QED
    BY <1>0, <1>5, <2>1, CountType, ScrolledDownType, ShowsInv DEF ScrollDown
<1>6. CASE InsertLines
  <2>1. PICK n \in Counts : Shows(ScrolledDown(active, cursor_row, scroll_bottom, n))
    BY <1>6 DEF InsertLines
  <2> QED
    BY <1>0, <1>6, <2>1, CountType, ScrolledDownType, ShowsInv DEF InsertLines
<1> QED
  BY <1>1, <1>2, <1>4, <1>5, <1>6 DEF Scrolls

LEMMA PutCharInv ==
  ASSUME GridInv, NEW width \in {1, 2}, PutChar(width)
  PROVE  GridInv'
<1> DEFINE wraps == cursor_col + width > Cols
           col == IF wraps THEN 0 ELSE cursor_col
           fed == IF wraps THEN Fed(cursor_row) ELSE cursor_row
           s   == IF wraps THEN FedScreen(cursor_row) ELSE active
<1>1. /\ Shows(Printed(s, Least(fed, Rows - 1), col, width))
      /\ cursor_row' = fed /\ cursor_col' = col + width
      /\ UNCHANGED <<size, saved_cursor, margins, stuck>>
  BY DEF PutChar
<1>2. s \in Screen(size) /\ fed \in Nat /\ (fed = cursor_row \/ fed <= Rows - 1) /\ col \in Nat
  BY GridFacts, FedType DEF GridInv
<1>c. col + width <= Cols
  BY GridFacts
<1> HIDE DEF s, fed, col
<1>3. primary' \in Screen(size) /\ alt' \in Screen(size) /\ use_alt' \in BOOLEAN
  BY <1>1, <1>2, PrintedType, GridFacts, ShowsType
<1>4. /\ cursor_col' \in Nat /\ cursor_col' <= Cols
      /\ cursor_row' \in Nat /\ (cursor_row' <= Rows - 1 \/ cursor_row' <= cursor_row)
  BY <1>1, <1>2, <1>c, GridFacts
<1> QED
  BY <1>1, <1>3, <1>4, GridFacts, KeepsGrid

LEMMA EditsInv ==
  ASSUME GridInv, Edits
  PROVE  GridInv'
<1>0. active \in Screen(size) /\ size \in Sizes /\ cursor_col \in Nat /\ Cols \in Nat \ {0, 1}
  BY GridFacts
<1>a. DOMAIN active = RowsOf(size) \X ColsOf(size) /\ \A p \in DOMAIN active : active[p] \in Cell
  BY <1>0 DEF Screen
<1>1. CASE EraseDisplay
  <2>1. ASSUME NEW s, Shows(s),
               \/ s = [p \in DOMAIN active |->
                         IF p[1] > cursor_row THEN "narrow"
                         ELSE ClearLineRange(active, cursor_row, cursor_col, Cols)[p]]
               \/ s = [p \in DOMAIN active |->
                         IF p[1] < cursor_row THEN "narrow"
                         ELSE ClearLineRange(active, cursor_row, 0, cursor_col + 1)[p]]
               \/ s = Blank(size)
        PROVE  s \in Screen(size)
    <3>1. /\ ClearLineRange(active, cursor_row, cursor_col, Cols) \in Screen(size)
          /\ ClearLineRange(active, cursor_row, 0, cursor_col + 1) \in Screen(size)
      BY <1>0, ClearLineType
    <3> QED
      BY <1>a, <2>1, <3>1, BlankType DEF Screen, Cell
  <2>2. UNCHANGED <<size, saved_cursor, margins, stuck>> /\ MoveTo(cursor_row, cursor_col)
    BY <1>1 DEF EraseDisplay
  <2> QED
    BY <1>1, <2>1, <2>2, ShowsInv DEF EraseDisplay
<1>2. CASE EraseLine
  <2>1. UNCHANGED <<size, saved_cursor, margins, stuck>> /\ MoveTo(cursor_row, cursor_col)
    BY <1>2 DEF EraseLine
  <2> QED
    BY <1>0, <1>2, <2>1, ClearLineType, ShowsInv DEF EraseLine
<1>3. CASE DeleteChars
  <2>1. PICK n \in Counts :
          Shows([p \in DOMAIN active |->
                   IF p[1] # cursor_row \/ p[2] < Column THEN active[p]
                   ELSE At(active, p[1], p[2] + n)])
    BY <1>3 DEF DeleteChars
  <2> DEFINE s == [p \in DOMAIN active |->
                     IF p[1] # cursor_row \/ p[2] < Column THEN active[p]
                     ELSE At(active, p[1], p[2] + n)]
  <2>2. \A p \in DOMAIN active : At(active, p[1], p[2] + n) \in Cell
    BY <1>0, AtType
  <2>3. s \in Screen(size)
    BY <1>a, <2>2 DEF Screen
  <2> HIDE DEF s
  <2>4. Shows(s) /\ UNCHANGED <<size, saved_cursor, margins, stuck>> /\ MoveTo(cursor_row, cursor_col)
    BY <1>3, <2>1 DEF s, DeleteChars
  <2> QED
    BY <2>3, <2>4, ShowsInv
<1>4. CASE InsertChars
  <2>1. PICK n \in Counts :
          Shows([p \in DOMAIN active |->
                   IF p[1] # cursor_row \/ p[2] < Column THEN active[p]
                   ELSE IF p[2] >= Column + n THEN active[<<p[1], p[2] - n>>] ELSE "narrow"])
    BY <1>4 DEF InsertChars
  <2> DEFINE s == [p \in DOMAIN active |->
                     IF p[1] # cursor_row \/ p[2] < Column THEN active[p]
                     ELSE IF p[2] >= Column + n THEN active[<<p[1], p[2] - n>>] ELSE "narrow"]
  <2>2. n \in Nat \ {0} /\ Column \in Nat
    BY <1>0, CountType DEF Column, Least
  <2>3. ASSUME NEW p \in DOMAIN active PROVE s[p] \in Cell
    <3>1. p[1] \in RowsOf(size) /\ p[2] \in 0 .. size[1] - 1 /\ size[1] \in Nat
      BY <1>0, <1>a, SizeType DEF ColsOf
    <3>2. CASE p[1] # cursor_row \/ p[2] < Column
      <4>1. s[p] = active[p]
        BY <3>2
      <4> QED
        BY <1>a, <4>1
    <3>3. CASE ~(p[1] # cursor_row \/ p[2] < Column) /\ p[2] >= Column + n
      <4>1. s[p] = active[<<p[1], p[2] - n>>]
        BY <3>3
      <4>2. <<p[1], p[2] - n>> \in DOMAIN active
        BY <1>a, <2>2, <3>1, <3>3 DEF ColsOf
      <4> QED
        BY <1>a, <4>1, <4>2
    <3>4. CASE ~(p[1] # cursor_row \/ p[2] < Column) /\ ~(p[2] >= Column + n)
      <4>1. s[p] = "narrow"
        BY <3>4
      <4> QED
        BY <4>1 DEF Cell
    <3> QED
      BY <3>2, <3>3, <3>4
  <2>4. s \in [DOMAIN active -> Cell]
    BY <2>3
  <2>5. Shows(s)
    BY <2>1
  <2> HIDE DEF s
  <2>6. s \in Screen(size)
    BY <1>a, <2>4 DEF Screen
  <2>7. UNCHANGED <<size, saved_cursor, margins, stuck>> /\ MoveTo(cursor_row, cursor_col)
    BY <1>4 DEF InsertChars
  <2> QED
    BY <2>5, <2>6, <2>7, ShowsInv
<1> QED
  BY <1>1, <1>2, <1>3, <1>4 DEF Edits

LEMMA MarginsInv ==
  ASSUME GridInv, SetMargins
  PROVE  GridInv'
<1>1. PICK top \in 0 .. Rows - 1, bottom \in 0 .. Rows - 1 :
        /\ scroll_top' = top
        /\ scroll_bottom' = IF bottom < top THEN top ELSE bottom
        /\ cursor_col' = 0 /\ cursor_row' = top
  BY DEF SetMargins
<1>2. UNCHANGED <<size, primary, alt, use_alt, saved_cursor, stuck>> /\ Rows' = Rows
  BY DEF SetMargins, screens, Rows
<1>3. scroll_top' \in 0 .. scroll_bottom' /\ scroll_bottom' \in 0 .. Rows - 1
      /\ cursor_row' \in Nat /\ cursor_row' <= Rows - 1 /\ cursor_col' <= Cols
  BY <1>1, GridFacts
<1>4. CellsOK'
  BY <1>2, <1>3, GridForm DEF CellsOK, ScreensOK, MarginsOK
<1>5. CursorOK'
  BY <1>1, <1>2, <1>3, GridForm DEF CursorOK, Cols
<1> QED
  BY <1>4, <1>5, GridFormNext

LEMMA ScreensInv ==
  ASSUME GridInv, Reset \/ EnterAlt \/ LeaveAlt
  PROVE  GridInv'
<1>1. CASE Reset
  <2>1. UNCHANGED <<size, primary, alt, use_alt, saved_cursor, stuck>> /\ Rows' = Rows
    BY <1>1 DEF Reset, screens, Rows
  <2>2. cursor_col' = 0 /\ cursor_row' = 0 /\ scroll_top' = 0 /\ scroll_bottom' = Rows - 1
    BY <1>1 DEF Reset
  <2>3. CellsOK'
    BY <2>1, <2>2, GridFacts DEF CellsOK, ScreensOK, MarginsOK
  <2>4. CursorOK'
    BY <2>1, <2>2, GridFacts, GridForm DEF CursorOK, Cols
  <2> QED
    BY <2>3, <2>4, GridFormNext
<1>2. CASE EnterAlt
  <2>1. cursor_row' \in 0 .. Rows - 1 /\ cursor_col' \in 0 .. Cols
    BY <1>2, GridFacts DEF EnterAlt
  <2>2. primary' \in Screen(size) /\ alt' \in Screen(size) /\ use_alt' \in BOOLEAN
    BY <1>2, BlankType, GridFacts DEF EnterAlt, ScreensOK
  <2> QED
    BY <1>2, <2>1, <2>2, GridFacts, KeepsGrid DEF EnterAlt
<1>3. CASE LeaveAlt
  <2>1. primary' \in Screen(size) /\ alt' \in Screen(size) /\ use_alt' \in BOOLEAN
    BY <1>3, BlankType, GridFacts DEF LeaveAlt, ScreensOK
  <2> QED
    BY <1>3, <2>1, GridFacts, KeepsGrid DEF LeaveAlt, cursor
<1> QED
  BY <1>1, <1>2, <1>3

LEMMA FeedInv ==
  ASSUME GridInv, FeedBytes
  PROVE  GridInv'
<1>1. CASE Moves
  BY <1>1, CursorMovesInv, ColumnMovesInv, SaveInv, RestoreInv, MarginsInv, ScreensInv DEF Moves
<1> QED
  BY <1>1, PutCharInv, ScrollsInv, EditsInv DEF FeedBytes

\* A resize leaves nothing off the screen but what was saved there.
LEMMA ResizeInv ==
  ASSUME GridInv, NEW sz \in Sizes, ResizeGrid(sz)
  PROVE  GridInv'
<1>1. /\ size' = sz /\ Rows' = sz[2] /\ sz[1] \in Nat \ {0, 1} /\ sz[2] \in Nat \ {0}
      /\ UNCHANGED <<use_alt, saved_cursor, stuck>>
  BY SizeType DEF ResizeGrid, Rows
<1>2. primary' \in Screen(sz) /\ alt' \in Screen(sz)
  BY GridFacts, ResizedType DEF ResizeGrid, ScreensOK
<1>3. cursor_col' \in 0 .. sz[1] - 1 /\ cursor_row' \in 0 .. sz[2] - 1 /\ Cols' = sz[1]
  BY <1>1, GridFacts DEF ResizeGrid, Least, Cols
<1>4. scroll_top' = 0 /\ scroll_bottom' = sz[2] - 1
  BY DEF ResizeGrid
<1>5. CellsOK'
  BY <1>1, <1>2, <1>4, GridForm DEF CellsOK, ScreensOK, MarginsOK
<1>6. CursorOK'
  BY <1>1, <1>3, GridForm DEF CursorOK
<1> QED
  BY <1>5, <1>6, GridFormNext

\* The grid of a new session.
LEMMA GridInitInv ==
  ASSUME NEW sz \in Sizes, GridInit(sz)
  PROVE  GridInv
<1>1. size = sz /\ Rows = sz[2] /\ sz[2] \in Nat \ {0}
  BY SizeType DEF GridInit, Rows
<1>2. primary \in Screen(size) /\ alt \in Screen(size) /\ use_alt \in BOOLEAN
  BY <1>1, BlankType DEF GridInit
<1>3. scroll_top \in 0 .. scroll_bottom /\ scroll_bottom \in 0 .. Rows - 1
      /\ cursor_col \in Nat /\ cursor_col <= Cols /\ cursor_row \in Nat /\ cursor_row <= Rows - 1
  BY <1>1, SizeType DEF GridInit, Cols
<1>4. CellsOK
  BY <1>1, <1>2, <1>3 DEF GridInit, CellsOK, ScreensOK, MarginsOK
<1>5. CursorOK
  BY <1>3 DEF GridInit, CursorOK
<1> QED
  BY <1>4, <1>5, GridForm

LEMMA GridRestartInv ==
  ASSUME NEW sz \in Sizes, GridRestart(sz)
  PROVE  GridInv'
<1>1. size' = sz /\ Rows' = sz[2] /\ sz[2] \in Nat \ {0}
  BY SizeType DEF GridRestart, Rows
<1>2. primary' \in Screen(size') /\ alt' \in Screen(size') /\ use_alt' \in BOOLEAN
  BY <1>1, BlankType DEF GridRestart
<1>3. scroll_top' \in 0 .. scroll_bottom' /\ scroll_bottom' \in 0 .. Rows' - 1
      /\ cursor_col' \in Nat /\ cursor_col' <= Cols' /\ cursor_row' \in Nat /\ cursor_row' <= Rows' - 1
  BY <1>1, SizeType DEF GridRestart, Cols
<1>4. CellsOK'
  BY <1>1, <1>2, <1>3 DEF GridRestart, CellsOK, ScreensOK, MarginsOK
<1>5. CursorOK'
  BY <1>3 DEF GridRestart, CursorOK
<1> QED
  BY <1>4, <1>5, GridFormNext

-----------------------------------------------------------------------------
(* The session: what the child is told *)

\* The last resize that waits is the size drawn in; where none waits, it was
\* asked for last.
IsResize(c) == c[1] = "resize"
LastTold ==
  \/ \E i \in 1 .. Len(commands) :
       /\ commands[i] = <<"resize", last_size>>
       /\ \A j \in i + 1 .. Len(commands) : ~IsResize(commands[j])
  \/ /\ \A j \in 1 .. Len(commands) : ~IsResize(commands[j])
     /\ told = last_size

TellsSize ==
  /\ commands \in Seq(Command)
  /\ last_size \in Sizes
  /\ session /\ ~stuck => last_size = size
  /\ ~session => told = last_size /\ size = last_size /\ commands = << >> /\ ~stuck
  /\ LastTold
  /\ pty_size = told \/ refused

SessionInv == GridInv /\ TellsSize

LEMMA FeedKeepsSize ==
  ASSUME FeedBytes
  PROVE  UNCHANGED size
  BY DEF FeedBytes, PutChar, Scrolls, Edits, Moves, CursorPosition, CursorMoves, ColumnMoves,
         SaveCursor, RestoreCursor, SetMargins, Reset, EnterAlt, LeaveAlt, LineFeed, ReverseIndex,
         ScrollUp, ScrollDown, InsertLines, DeleteLines, EraseDisplay, EraseLine, DeleteChars,
         InsertChars

\* A command more.
LEMMA Appended ==
  ASSUME NEW s \in Seq(Command), NEW c \in Command
  PROVE  /\ Append(s, c) \in Seq(Command) /\ Len(Append(s, c)) = Len(s) + 1 /\ Len(s) \in Nat
         /\ Append(s, c)[Len(s) + 1] = c
         /\ \A i \in 1 .. Len(s) : Append(s, c)[i] = s[i]
  OBVIOUS

\* The first command less.
LEMMA Received ==
  ASSUME NEW s \in Seq(Command), s # << >>
  PROVE  /\ Tail(s) \in Seq(Command) /\ Len(s) \in Nat \ {0} /\ Len(Tail(s)) = Len(s) - 1
         /\ Head(s) = s[1]
         /\ \A i \in 1 .. Len(s) - 1 : Tail(s)[i] = s[i + 1]
  OBVIOUS

LEMMA LastStays ==
  ASSUME NEW s \in Seq(Command), Len(s) > 1
  PROVE  Tail(s) # << >> /\ Tail(s)[Len(Tail(s))] = s[Len(s)]
<1>1. Len(s) \in Nat /\ Len(Tail(s)) = Len(s) - 1 /\ s # << >>
  OBVIOUS
<1>2. \A k \in 1 .. Len(s) - 1 : Tail(s)[k] = s[k + 1]
  BY <1>1, Received
<1>3. (Len(s) - 1) \in 1 .. Len(s) - 1 /\ (Len(s) - 1) + 1 = Len(s)
  BY <1>1
<1>4. Tail(s)[Len(s) - 1] = s[(Len(s) - 1) + 1]
  BY <1>2, <1>3
<1>5. Tail(s) # << >>
  <2>1. Len(<< >>) = 0
    BY EmptySeq, Zenon
  <2>2. Len(Tail(s)) # 0
    BY <1>1
  <2> QED
    BY <2>1, <2>2, Zenon
<1> QED
  BY <1>1, <1>3, <1>4, <1>5

LEMMA DropTells ==
  ASSUME Drop
  PROVE  SessionInv'
<1>1. GridRestart(StartSize) /\ StartSize \in Sizes
  BY DEF Drop
<1>2. GridInv'
  BY <1>1, GridRestartInv
<1>3. size' = StartSize /\ stuck' = FALSE /\ session' = FALSE /\ commands' = << >>
      /\ last_size' = StartSize /\ told' = StartSize /\ pty_size' = StartSize
  BY DEF Drop, GridRestart
<1>4. commands' \in Seq(Command) /\ Len(commands') = 0
  BY <1>3
<1>5. LastTold'
  BY <1>3, <1>4 DEF LastTold
<1>6. TellsSize'
  BY <1>1, <1>3, <1>4, <1>5 DEF TellsSize
<1> QED
  BY <1>2, <1>6 DEF SessionInv

LEMMA ResizeTells ==
  ASSUME SessionInv, NEW sz \in Sizes, Resize(sz)
  PROVE  SessionInv'
<1>1. /\ session /\ last_size' = sz /\ commands' = Append(commands, <<"resize", sz>>)
      /\ UNCHANGED <<session, told, pty_size, refused>>
  BY DEF Resize, pty
<1>2. <<"resize", sz>> \in Command /\ commands \in Seq(Command)
  BY DEF Command, SessionInv, TellsSize
<1>3. GridInv' /\ (~stuck' => size' = sz)
  <2>1. CASE stuck
    BY <2>1 DEF Resize, SessionInv, GridInv, GridTypeOK, OffScreenIsSaved, grid, cursor, margins, screens, Rows, Cols
  <2>2. CASE ~stuck
    <3>1. ResizeGrid(sz)
      BY <2>2 DEF Resize
    <3> QED
      BY <3>1, ResizeInv DEF SessionInv, ResizeGrid
  <2> QED
    BY <2>1, <2>2
<1>4. LastTold'
  <2> DEFINE n == Len(commands) + 1
  <2>1. n \in Nat \ {0} /\ Len(commands') = n /\ commands'[n] = <<"resize", last_size'>>
    BY <1>1, <1>2, Appended
  <2> HIDE DEF n
  <2>2. \A j \in n + 1 .. Len(commands') : ~IsResize(commands'[j])
    BY <2>1
  <2> QED
    BY <2>1, <2>2 DEF LastTold
<1>5. TellsSize'
  BY <1>1, <1>2, <1>3, <1>4, Appended DEF TellsSize, SessionInv
<1> QED
  BY <1>3, <1>5 DEF SessionInv

LEMMA WriteTells ==
  ASSUME SessionInv, WriteBytes
  PROVE  SessionInv'
<1>1. /\ session /\ commands' = Append(commands, <<"write">>)
      /\ UNCHANGED <<grid, session, last_size, told, pty_size, refused>>
  BY DEF WriteBytes, pty
<1>2. <<"write">> \in Command /\ commands \in Seq(Command) /\ ~IsResize(<<"write">>)
  BY DEF Command, SessionInv, TellsSize, IsResize
<1>3. GridInv' /\ UNCHANGED <<size, stuck>>
  BY <1>1 DEF SessionInv, GridInv, GridTypeOK, OffScreenIsSaved, grid, cursor, margins, screens, Rows, Cols
<1>4. /\ Len(commands) \in Nat /\ Len(commands') = Len(commands) + 1
      /\ commands' \in Seq(Command) /\ commands'[Len(commands) + 1] = <<"write">>
      /\ \A i \in 1 .. Len(commands) : commands'[i] = commands[i]
  BY <1>1, <1>2, Appended
<1>5. LastTold'
  <2>1. CASE \E i \in 1 .. Len(commands) :
               /\ commands[i] = <<"resize", last_size>>
               /\ \A j \in i + 1 .. Len(commands) : ~IsResize(commands[j])
    <3>1. PICK i \in 1 .. Len(commands) :
            /\ commands[i] = <<"resize", last_size>>
            /\ \A j \in i + 1 .. Len(commands) : ~IsResize(commands[j])
      BY <2>1
    <3>2. i \in 1 .. Len(commands') /\ commands'[i] = <<"resize", last_size'>>
      BY <1>1, <1>4, <3>1
    <3>3. ASSUME NEW j \in i + 1 .. Len(commands') PROVE ~IsResize(commands'[j])
      <4>1. CASE j = Len(commands) + 1
        BY <1>2, <1>4, <4>1
      <4>2. CASE j # Len(commands) + 1
        <5>1. j \in i + 1 .. Len(commands) /\ commands'[j] = commands[j]
          BY <1>4, <3>1, <4>2
        <5> QED
          BY <3>1, <5>1
      <4> QED
        BY <4>1, <4>2
    <3> QED
      BY <3>2, <3>3 DEF LastTold
  <2>2. CASE (\A j \in 1 .. Len(commands) : ~IsResize(commands[j])) /\ told = last_size
    <3>1. ASSUME NEW j \in 1 .. Len(commands') PROVE ~IsResize(commands'[j])
      <4>1. CASE j = Len(commands) + 1
        BY <1>2, <1>4, <4>1
      <4>2. CASE j # Len(commands) + 1
        <5>1. j \in 1 .. Len(commands) /\ commands'[j] = commands[j]
          BY <1>4, <4>2
        <5> QED
          BY <2>2, <5>1
      <4> QED
        BY <4>1, <4>2
    <3> QED
      BY <1>1, <2>2, <3>1 DEF LastTold
  <2> QED
    BY <2>1, <2>2 DEF SessionInv, TellsSize, LastTold
<1>6. TellsSize'
  BY <1>1, <1>3, <1>4, <1>5 DEF TellsSize, SessionInv
<1> QED
  BY <1>3, <1>6 DEF SessionInv

LEMMA ControlTells ==
  ASSUME SessionInv, Control
  PROVE  SessionInv'
<1>1. /\ session /\ commands # << >> /\ commands' = Tail(commands)
      /\ told' = IF IsResize(Head(commands)) THEN Head(commands)[2] ELSE told
      /\ (pty_size = told \/ refused) => (pty_size' = told' \/ refused')
      /\ UNCHANGED <<grid, session, last_size>>
  BY DEF Control, Executes, ResizePty, IsResize, pty
<1>2. GridInv' /\ UNCHANGED <<size, stuck>>
  BY <1>1 DEF SessionInv, GridInv, GridTypeOK, OffScreenIsSaved, grid, cursor, margins, screens, Rows, Cols
<1>3. commands \in Seq(Command)
  BY DEF SessionInv, TellsSize
<1>4. /\ Len(commands) \in Nat \ {0} /\ Len(commands') = Len(commands) - 1
      /\ commands' \in Seq(Command) /\ Head(commands) = commands[1]
      /\ \A i \in 1 .. Len(commands) - 1 : commands'[i] = commands[i + 1]
  BY <1>1, <1>3, Received
<1>5. LastTold'
  <2>1. ASSUME NEW i \in 1 .. Len(commands), commands[i] = <<"resize", last_size>>,
               \A j \in i + 1 .. Len(commands) : ~IsResize(commands[j])
        PROVE  LastTold'
    <3>1. CASE i = 1
      <4>1. Head(commands) = <<"resize", last_size>>
        BY <1>4, <2>1, <3>1
      <4>2. told' = last_size
        BY <1>1, <4>1 DEF IsResize
      <4>3. ASSUME NEW j \in 1 .. Len(commands') PROVE ~IsResize(commands'[j])
        <5>1. j + 1 \in i + 1 .. Len(commands) /\ commands'[j] = commands[j + 1]
          BY <1>4, <3>1
        <5> QED
          BY <2>1, <5>1
      <4> QED
        BY <1>1, <4>2, <4>3 DEF LastTold
    <3>2. CASE i # 1
      <4>1. i - 1 \in 1 .. Len(commands') /\ commands'[i - 1] = commands[i]
        BY <1>4, <3>2
      <4>2. ASSUME NEW j \in (i - 1) + 1 .. Len(commands') PROVE ~IsResize(commands'[j])
        <5>1. j + 1 \in i + 1 .. Len(commands) /\ commands'[j] = commands[j + 1]
          BY <1>4
        <5> QED
          BY <2>1, <5>1
      <4> QED
        BY <1>1, <2>1, <4>1, <4>2 DEF LastTold
    <3> QED
      BY <3>1, <3>2
  <2>2. CASE (\A j \in 1 .. Len(commands) : ~IsResize(commands[j])) /\ told = last_size
    <3>1. ~IsResize(Head(commands))
      BY <1>4, <2>2
    <3>2. ASSUME NEW j \in 1 .. Len(commands') PROVE ~IsResize(commands'[j])
      <4>1. j + 1 \in 1 .. Len(commands) /\ commands'[j] = commands[j + 1]
        BY <1>4
      <4> QED
        BY <2>2, <4>1
    <3> QED
      BY <1>1, <2>2, <3>1, <3>2 DEF LastTold
  <2> QED
    BY <2>1, <2>2 DEF SessionInv, TellsSize, LastTold
<1>6. TellsSize'
  BY <1>1, <1>2, <1>4, <1>5 DEF TellsSize, SessionInv
<1> QED
  BY <1>2, <1>6 DEF SessionInv

\* Steps that leave the grid and what the child is told alone.
LEMMA RestTells ==
  ASSUME SessionInv, UNCHANGED <<grid, last_size, commands, pty>>, Start \/ UNCHANGED session
  PROVE  SessionInv'
<1>1. GridInv' /\ UNCHANGED <<size, stuck>>
  BY DEF SessionInv, GridInv, GridTypeOK, OffScreenIsSaved, grid, cursor, margins, screens, Rows, Cols
<1>2. LastTold'
  BY DEF SessionInv, TellsSize, LastTold, pty
<1>3. TellsSize'
  <2>1. CASE Start
    BY <1>1, <1>2, <2>1 DEF Start, SessionInv, TellsSize, pty
  <2>2. CASE UNCHANGED session
    BY <1>1, <1>2, <2>2 DEF SessionInv, TellsSize, pty
  <2> QED
    BY <2>1, <2>2
<1> QED
  BY <1>1, <1>3 DEF SessionInv

LEMMA ReadTells ==
  ASSUME SessionInv, ReadLoop
  PROVE  SessionInv'
<1>1. session /\ ~stuck /\ UNCHANGED <<session, last_size, commands, told, pty_size, refused>> /\ FeedBytes
  BY DEF ReadLoop, FeedBytes, pty
<1>2. GridInv' /\ size' = size
  BY <1>1, FeedInv, FeedKeepsSize DEF SessionInv
<1>3. LastTold'
  BY <1>1 DEF SessionInv, TellsSize, LastTold
<1>4. TellsSize'
  BY <1>1, <1>2, <1>3 DEF SessionInv, TellsSize
<1> QED
  BY <1>2, <1>4 DEF SessionInv

LEMMA NextTells ==
  ASSUME SessionInv, [Next]_vars
  PROVE  SessionInv'
<1>1. CASE Start
  BY <1>1, RestTells DEF Start
<1>2. CASE Stop \/ Poll
  BY <1>2, DropTells DEF Stop, Poll
<1>3. CASE WriteBytes
  BY <1>3, WriteTells
<1>4. CASE \E sz \in Sizes : Resize(sz)
  BY <1>4, ResizeTells
<1>5. CASE Control
  BY <1>5, ControlTells
<1>6. CASE ControlDropped \/ ChildExits \/ OutputEnds \/ ReadEof
  BY <1>6, RestTells DEF ControlDropped, ChildExits, OutputEnds, ReadEof
<1>7. CASE ReadLoop
  BY <1>7, ReadTells
<1>8. CASE UNCHANGED vars
  BY <1>8, RestTells DEF vars, host
<1> QED
  BY <1>1, <1>2, <1>3, <1>4, <1>5, <1>6, <1>7, <1>8 DEF Next

LEMMA InitTells ==
  ASSUME Init
  PROVE  SessionInv
<1>1. GridInit(StartSize) /\ StartSize \in Sizes
  BY DEF Init
<1>2. commands = << >> /\ commands \in Seq(Command) /\ Len(commands) = 0
  BY DEF Init
<1>3. size = StartSize /\ stuck = FALSE /\ session = FALSE /\ last_size = StartSize
      /\ told = StartSize /\ pty_size = StartSize
  BY DEF Init, GridInit
<1>4. LastTold
  BY <1>2, <1>3 DEF LastTold
<1>5. TellsSize
  BY <1>1, <1>2, <1>3, <1>4 DEF TellsSize
<1> QED
  BY <1>1, <1>5, GridInitInv DEF SessionInv

-----------------------------------------------------------------------------
(* Types *)

\* A session that was dropped ends: Shutdown waits in what it left.
TypeInv == SessionInv /\ TypeOK

LEMMA DropTypes ==
  ASSUME TypeInv, Drop
  PROVE  /\ last_size' \in Sizes /\ told' \in Sizes /\ pty_size' \in Sizes
         /\ session' \in BOOLEAN /\ refused' \in BOOLEAN
         /\ child_exited' \in BOOLEAN /\ output_ended' \in BOOLEAN /\ child_alive' \in BOOLEAN
         /\ EndsInShutdown(dropped')
<1>1. commands \in Seq(Command) /\ <<"shutdown">> \in Command
  BY DEF TypeInv, TypeOK, Command
<1>2. dropped' = Append(commands, <<"shutdown">>)
  BY DEF Drop
<1>3. dropped' \in Seq(Command) /\ Len(dropped') \in Nat \ {0} /\ dropped'[Len(dropped')] = <<"shutdown">>
  BY <1>1, <1>2, Appended
<1>4. EndsInShutdown(dropped')
  BY <1>3 DEF EndsInShutdown
<1> QED
  BY <1>4 DEF Drop

LEMMA ControlDroppedTypes ==
  ASSUME TypeInv, ControlDropped
  PROVE  dropped' = None \/ EndsInShutdown(dropped')
<1>1. dropped # None /\ dropped' = IF Head(dropped) = <<"shutdown">> THEN None ELSE Tail(dropped)
  BY DEF ControlDropped
<1>2. dropped \in Seq(Command) /\ dropped # << >> /\ dropped[Len(dropped)] = <<"shutdown">>
  BY <1>1 DEF TypeInv, TypeOK, EndsInShutdown
<1>3. /\ Tail(dropped) \in Seq(Command) /\ Len(dropped) \in Nat \ {0}
      /\ Len(Tail(dropped)) = Len(dropped) - 1 /\ Head(dropped) = dropped[1]
      /\ \A k \in 1 .. Len(dropped) - 1 : Tail(dropped)[k] = dropped[k + 1]
  BY <1>2, Received
<1>4. CASE Head(dropped) = <<"shutdown">>
  BY <1>1, <1>4
<1>5. CASE Head(dropped) # <<"shutdown">>
  <2>1. Len(dropped) - 1 \in 1 .. Len(dropped) - 1
    BY <1>2, <1>3, <1>5
  <2>2. Len(dropped) > 1
    BY <1>3, <2>1
  <2>3. Tail(dropped)[Len(Tail(dropped))] = <<"shutdown">> /\ Tail(dropped) # << >>
    BY <1>2, <2>2, LastStays
  <2> QED
    BY <1>1, <1>3, <1>5, <2>3 DEF EndsInShutdown
<1> QED
  BY <1>4, <1>5

LEMMA ControlTypes ==
  ASSUME TypeInv, Control
  PROVE  told' \in Sizes /\ pty_size' \in Sizes /\ refused' \in BOOLEAN
<1>1. /\ commands \in Seq(Command) /\ commands # << >>
      /\ told \in Sizes /\ pty_size \in Sizes /\ refused \in BOOLEAN
  BY DEF TypeInv, TypeOK, Control
<1>2. Head(commands) \in Command
  BY <1>1
<1>3. Head(commands)[1] = "resize" => Head(commands)[2] \in Sizes
  BY <1>2 DEF Command
<1> QED
  BY <1>1, <1>3 DEF Control, Executes, ResizePty, pty

\* The rest of TypeOK follows from the invariant above.
LEMMA SessionTypes ==
  ASSUME SessionInv', session' \in BOOLEAN, child_exited' \in BOOLEAN, output_ended' \in BOOLEAN,
         child_alive' \in BOOLEAN, told' \in Sizes, pty_size' \in Sizes, refused' \in BOOLEAN,
         dropped' = None \/ EndsInShutdown(dropped')
  PROVE  TypeInv'
<1>1. TypeOK'
  BY DEF TypeOK, SessionInv, GridInv, TellsSize
<1> QED
  BY <1>1 DEF TypeInv

LEMMA NextTypes ==
  ASSUME TypeInv, [Next]_vars
  PROVE  TypeInv'
<1>1. SessionInv'
  BY NextTells DEF TypeInv
<1>2. /\ session \in BOOLEAN /\ child_exited \in BOOLEAN /\ output_ended \in BOOLEAN
      /\ child_alive \in BOOLEAN /\ told \in Sizes /\ pty_size \in Sizes /\ refused \in BOOLEAN
      /\ dropped = None \/ EndsInShutdown(dropped)
  BY DEF TypeInv, TypeOK
<1>3. CASE Stop \/ Poll
  BY <1>1, <1>3, DropTypes, SessionTypes DEF Stop, Poll
<1>4. CASE Control
  <2>1. UNCHANGED <<session, child_exited, output_ended, child_alive, dropped>>
    BY <1>4 DEF Control, child
  <2> QED
    BY <1>1, <1>2, <1>4, <2>1, ControlTypes, SessionTypes
<1>5. CASE ControlDropped
  <2>1. UNCHANGED <<session, child_exited, output_ended, child_alive, told, pty_size, refused>>
    BY <1>5 DEF ControlDropped, child, pty
  <2> QED
    BY <1>1, <1>2, <1>5, <2>1, ControlDroppedTypes, SessionTypes
<1>6. CASE Start \/ WriteBytes \/ (\E sz \in Sizes : Resize(sz)) \/ ReadLoop \/ ChildExits
           \/ OutputEnds \/ ReadEof \/ UNCHANGED vars
  <2>1. UNCHANGED <<told, pty_size, refused, dropped>>
    BY <1>6 DEF Start, WriteBytes, Resize, ReadLoop, ChildExits, OutputEnds, ReadEof, vars, host, pty
  <2>2. session' \in BOOLEAN /\ child_exited' \in BOOLEAN /\ output_ended' \in BOOLEAN /\ child_alive' \in BOOLEAN
    BY <1>2, <1>6 DEF Start, WriteBytes, Resize, ReadLoop, ChildExits, OutputEnds, ReadEof, vars, host, child
  <2> QED
    BY <1>1, <1>2, <2>1, <2>2, SessionTypes
<1> QED
  BY <1>3, <1>4, <1>5, <1>6 DEF Next

-----------------------------------------------------------------------------
(* Double-width glyphs *)

\* Whole, for a screen of a known size.
Joined(s, sz) ==
  \A r \in RowsOf(sz), c \in ColsOf(sz) :
    /\ s[<<r, c>>] = "wide" => c + 1 \in ColsOf(sz) /\ s[<<r, c + 1>>] = "wide_cont"
    /\ s[<<r, c>>] = "wide_cont" => c - 1 \in ColsOf(sz) /\ s[<<r, c - 1>>] = "wide"

LEMMA WholeIsJoined ==
  ASSUME NEW sz \in Sizes, NEW s \in Screen(sz)
  PROVE  Whole(s) <=> Joined(s, sz)
<1>1. DOMAIN s = RowsOf(sz) \X ColsOf(sz)
  BY DEF Screen
<1>2. \A r \in RowsOf(sz) : \A c : <<r, c>> \in DOMAIN s <=> c \in ColsOf(sz)
  BY <1>1
<1>3. ASSUME Whole(s), NEW r \in RowsOf(sz), NEW c \in ColsOf(sz)
      PROVE  /\ s[<<r, c>>] = "wide" => c + 1 \in ColsOf(sz) /\ s[<<r, c + 1>>] = "wide_cont"
             /\ s[<<r, c>>] = "wide_cont" => c - 1 \in ColsOf(sz) /\ s[<<r, c - 1>>] = "wide"
  <2>1. <<r, c>> \in DOMAIN s
    BY <1>2
  <2>2. /\ s[<<r, c>>] = "wide" => At(s, r, c + 1) = "wide_cont"
        /\ s[<<r, c>>] = "wide_cont" => At(s, r, c - 1) = "wide"
    BY <1>3, <2>1 DEF Whole
  <2> QED
    BY <1>2, <2>2 DEF At
<1>4. ASSUME Joined(s, sz), NEW p \in DOMAIN s
      PROVE  /\ s[p] = "wide" => At(s, p[1], p[2] + 1) = "wide_cont"
             /\ s[p] = "wide_cont" => At(s, p[1], p[2] - 1) = "wide"
  <2>1. p[1] \in RowsOf(sz) /\ p[2] \in ColsOf(sz) /\ p = <<p[1], p[2]>>
    BY <1>1
  <2> QED
    BY <1>2, <1>4, <2>1 DEF At, Joined
<1> QED
  BY <1>3, <1>4 DEF Whole, Joined

\* Either half of a glyph has the other.
LEMMA Leading ==
  ASSUME NEW s, NEW sz, Joined(s, sz), NEW r \in RowsOf(sz), NEW c \in ColsOf(sz),
         s[<<r, c>>] = "wide"
  PROVE  c + 1 \in ColsOf(sz) /\ s[<<r, c + 1>>] = "wide_cont"
  BY DEF Joined

LEMMA Trailing ==
  ASSUME NEW s, NEW sz, Joined(s, sz), NEW r \in RowsOf(sz), NEW c \in ColsOf(sz),
         s[<<r, c>>] = "wide_cont"
  PROVE  c - 1 \in ColsOf(sz) /\ s[<<r, c - 1>>] = "wide"
  BY DEF Joined

LEMMA BlankIsJoined == \A sz : Joined(Blank(sz), sz)
  BY DEF Joined, Blank

\* Rows move as they are.
LEMMA ScrolledUpJoined ==
  ASSUME size \in Sizes, NEW s \in Screen(size), Joined(s, size),
         NEW top \in Nat, NEW bottom \in Nat, NEW n \in Nat
  PROVE  Joined(ScrolledUp(s, top, bottom, n), size)
<1> DEFINE bot == Least(bottom, Rows - 1)
           f == [p \in DOMAIN s |-> IF p[1] \notin top .. bot THEN s[p]
                                    ELSE IF p[1] + n <= bot THEN s[<<p[1] + n, p[2]>>] ELSE "narrow"]
<1>1. bot \in Int /\ bot <= Rows - 1 /\ Rows \in Nat /\ RowsOf(size) = 0 .. Rows - 1
  BY SizeType DEF Least, Rows, RowsOf
<1>2. DOMAIN s = RowsOf(size) \X ColsOf(size)
  BY DEF Screen
<1>3. ScrolledUp(s, top, bottom, n) = IF top >= bottom \/ top >= Rows THEN s ELSE f
  BY DEF ScrolledUp
<1>4. ASSUME NEW r \in RowsOf(size)
      PROVE  \/ \A c \in ColsOf(size) : f[<<r, c>>] = s[<<r, c>>]
             \/ r + n \in RowsOf(size) /\ \A c \in ColsOf(size) : f[<<r, c>>] = s[<<r + n, c>>]
             \/ \A c \in ColsOf(size) : f[<<r, c>>] = "narrow"
  <2>1. \A c \in ColsOf(size) :
          f[<<r, c>>] = IF r \notin top .. bot THEN s[<<r, c>>]
                        ELSE IF r + n <= bot THEN s[<<r + n, c>>] ELSE "narrow"
    BY <1>2
  <2> HIDE DEF f
  <2>2. r + n <= bot => r + n \in RowsOf(size)
    BY <1>1
  <2> QED
    BY <2>1, <2>2
<1> HIDE DEF f
<1>5. Joined(f, size)
  <2> SUFFICES ASSUME NEW r \in RowsOf(size)
               PROVE  \A c \in ColsOf(size) :
                        /\ f[<<r, c>>] = "wide" => c + 1 \in ColsOf(size) /\ f[<<r, c + 1>>] = "wide_cont"
                        /\ f[<<r, c>>] = "wide_cont" => c - 1 \in ColsOf(size) /\ f[<<r, c - 1>>] = "wide"
    BY DEF Joined
  <2>1. CASE \A c \in ColsOf(size) : f[<<r, c>>] = s[<<r, c>>]
    BY <2>1 DEF Joined
  <2>2. ASSUME NEW q \in RowsOf(size), \A c \in ColsOf(size) : f[<<r, c>>] = s[<<q, c>>],
               NEW c \in ColsOf(size)
        PROVE  /\ f[<<r, c>>] = "wide" => c + 1 \in ColsOf(size) /\ f[<<r, c + 1>>] = "wide_cont"
               /\ f[<<r, c>>] = "wide_cont" => c - 1 \in ColsOf(size) /\ f[<<r, c - 1>>] = "wide"
    <3>1. ASSUME f[<<r, c>>] = "wide" PROVE c + 1 \in ColsOf(size) /\ f[<<r, c + 1>>] = "wide_cont"
      <4>1. s[<<q, c>>] = "wide"
        BY <2>2, <3>1
      <4>2. c + 1 \in ColsOf(size) /\ s[<<q, c + 1>>] = "wide_cont"
        BY <4>1, Leading
      <4> QED
        BY <2>2, <4>2
    <3>2. ASSUME f[<<r, c>>] = "wide_cont" PROVE c - 1 \in ColsOf(size) /\ f[<<r, c - 1>>] = "wide"
      <4>1. s[<<q, c>>] = "wide_cont"
        BY <2>2, <3>2
      <4>2. c - 1 \in ColsOf(size) /\ s[<<q, c - 1>>] = "wide"
        BY <4>1, Trailing
      <4> QED
        BY <2>2, <4>2
    <3> QED
      BY <3>1, <3>2
  <2>3. CASE \A c \in ColsOf(size) : f[<<r, c>>] = "narrow"
    BY <2>3
  <2> QED
    BY <1>4, <2>1, <2>2, <2>3
<1> QED
  BY <1>3, <1>5

LEMMA ScrolledDownJoined ==
  ASSUME size \in Sizes, NEW s \in Screen(size), Joined(s, size),
         NEW top \in Nat, NEW bottom \in Nat, NEW n \in Nat
  PROVE  Joined(ScrolledDown(s, top, bottom, n), size)
<1> DEFINE bot == Least(bottom, Rows - 1)
           f == [p \in DOMAIN s |-> IF p[1] \notin top .. bot THEN s[p]
                                    ELSE IF p[1] - n >= top THEN s[<<p[1] - n, p[2]>>] ELSE "narrow"]
<1>1. bot \in Int /\ bot <= Rows - 1 /\ Rows \in Nat /\ RowsOf(size) = 0 .. Rows - 1
  BY SizeType DEF Least, Rows, RowsOf
<1>2. DOMAIN s = RowsOf(size) \X ColsOf(size)
  BY DEF Screen
<1>3. ScrolledDown(s, top, bottom, n) = IF top >= bottom \/ top >= Rows THEN s ELSE f
  BY DEF ScrolledDown
<1>4. ASSUME NEW r \in RowsOf(size)
      PROVE  \/ \A c \in ColsOf(size) : f[<<r, c>>] = s[<<r, c>>]
             \/ r - n \in RowsOf(size) /\ \A c \in ColsOf(size) : f[<<r, c>>] = s[<<r - n, c>>]
             \/ \A c \in ColsOf(size) : f[<<r, c>>] = "narrow"
  <2>1. \A c \in ColsOf(size) :
          f[<<r, c>>] = IF r \notin top .. bot THEN s[<<r, c>>]
                        ELSE IF r - n >= top THEN s[<<r - n, c>>] ELSE "narrow"
    BY <1>2
  <2> HIDE DEF f
  <2>2. r - n >= top => r - n \in RowsOf(size)
    BY <1>1
  <2> QED
    BY <2>1, <2>2
<1> HIDE DEF f
<1>5. Joined(f, size)
  <2> SUFFICES ASSUME NEW r \in RowsOf(size)
               PROVE  \A c \in ColsOf(size) :
                        /\ f[<<r, c>>] = "wide" => c + 1 \in ColsOf(size) /\ f[<<r, c + 1>>] = "wide_cont"
                        /\ f[<<r, c>>] = "wide_cont" => c - 1 \in ColsOf(size) /\ f[<<r, c - 1>>] = "wide"
    BY DEF Joined
  <2>1. CASE \A c \in ColsOf(size) : f[<<r, c>>] = s[<<r, c>>]
    BY <2>1 DEF Joined
  <2>2. ASSUME NEW q \in RowsOf(size), \A c \in ColsOf(size) : f[<<r, c>>] = s[<<q, c>>],
               NEW c \in ColsOf(size)
        PROVE  /\ f[<<r, c>>] = "wide" => c + 1 \in ColsOf(size) /\ f[<<r, c + 1>>] = "wide_cont"
               /\ f[<<r, c>>] = "wide_cont" => c - 1 \in ColsOf(size) /\ f[<<r, c - 1>>] = "wide"
    <3>1. ASSUME f[<<r, c>>] = "wide" PROVE c + 1 \in ColsOf(size) /\ f[<<r, c + 1>>] = "wide_cont"
      <4>1. s[<<q, c>>] = "wide"
        BY <2>2, <3>1
      <4>2. c + 1 \in ColsOf(size) /\ s[<<q, c + 1>>] = "wide_cont"
        BY <4>1, Leading
      <4> QED
        BY <2>2, <4>2
    <3>2. ASSUME f[<<r, c>>] = "wide_cont" PROVE c - 1 \in ColsOf(size) /\ f[<<r, c - 1>>] = "wide"
      <4>1. s[<<q, c>>] = "wide_cont"
        BY <2>2, <3>2
      <4>2. c - 1 \in ColsOf(size) /\ s[<<q, c - 1>>] = "wide"
        BY <4>1, Trailing
      <4> QED
        BY <2>2, <4>2
    <3> QED
      BY <3>1, <3>2
  <2>3. CASE \A c \in ColsOf(size) : f[<<r, c>>] = "narrow"
    BY <2>3
  <2> QED
    BY <1>4, <2>1, <2>2, <2>3
<1> QED
  BY <1>3, <1>5

\* Clearing a cell clears the glyph.
LEMMA ClearCellJoined ==
  ASSUME size \in Sizes, NEW s \in Screen(size), Joined(s, size),
         NEW row \in RowsOf(size), NEW col \in ColsOf(size)
  PROVE  /\ Joined(ClearCellWideSafe(s, row, col), size)
         /\ ClearCellWideSafe(s, row, col)[<<row, col>>] = "narrow"
         /\ \A c \in ColsOf(size) :
              s[<<row, c>>] = "narrow" => ClearCellWideSafe(s, row, col)[<<row, c>>] = "narrow"
<1> DEFINE f == ClearCellWideSafe(s, row, col)
<1>1. DOMAIN s = RowsOf(size) \X ColsOf(size)
  BY DEF Screen
<1>2. \A r \in RowsOf(size), c \in ColsOf(size) :
        f[<<r, c>>] =
          IF r = row /\ (c = col \/ (s[<<row, col>>] = "wide_cont" /\ c = col - 1)
                           \/ (s[<<row, col>>] = "wide" /\ c = col + 1))
          THEN "narrow" ELSE s[<<r, c>>]
  BY <1>1 DEF ClearCellWideSafe
<1> HIDE DEF f
<1>3. \A c \in ColsOf(size) : c \in Int
  BY SizeType DEF ColsOf
<1>4. ASSUME NEW r \in RowsOf(size), NEW c \in ColsOf(size), f[<<r, c>>] = "wide"
      PROVE  c + 1 \in ColsOf(size) /\ f[<<r, c + 1>>] = "wide_cont"
  <2>1. s[<<r, c>>] = "wide" /\ c + 1 \in ColsOf(size) /\ s[<<r, c + 1>>] = "wide_cont"
    <3>1. s[<<r, c>>] = "wide"
      BY <1>2, <1>4
    <3> QED
      BY <3>1, Leading
  <2>2. ~(r = row /\ c + 1 = col)
    BY <1>2, <1>3, <1>4, <2>1
  <2>3. ~(r = row /\ c = col)
    BY <1>2, <1>4
  <2>4. ~(r = row /\ s[<<row, col>>] = "wide_cont" /\ c + 1 = col - 1)
    <3>1. s[<<row, col>>] = "wide_cont" => s[<<row, col - 1>>] = "wide"
      BY DEF Joined
    <3> QED
      BY <2>1, <3>1
  <2>5. ~(r = row /\ s[<<row, col>>] = "wide" /\ c + 1 = col + 1)
    BY <1>3, <2>3
  <2> QED
    BY <1>2, <2>1, <2>2, <2>4, <2>5
<1>5. ASSUME NEW r \in RowsOf(size), NEW c \in ColsOf(size), f[<<r, c>>] = "wide_cont"
      PROVE  c - 1 \in ColsOf(size) /\ f[<<r, c - 1>>] = "wide"
  <2>1. s[<<r, c>>] = "wide_cont" /\ c - 1 \in ColsOf(size) /\ s[<<r, c - 1>>] = "wide"
    <3>1. s[<<r, c>>] = "wide_cont"
      BY <1>2, <1>5
    <3> QED
      BY <3>1, Trailing
  <2>2. ~(r = row /\ c - 1 = col)
    BY <1>2, <1>3, <1>5, <2>1
  <2>3. ~(r = row /\ c = col)
    BY <1>2, <1>5
  <2>4. ~(r = row /\ s[<<row, col>>] = "wide" /\ c - 1 = col + 1)
    <3>1. s[<<row, col>>] = "wide" => s[<<row, col + 1>>] = "wide_cont"
      BY DEF Joined
    <3> QED
      BY <2>1, <3>1
  <2>5. ~(r = row /\ s[<<row, col>>] = "wide_cont" /\ c - 1 = col - 1)
    BY <1>3, <2>3
  <2> QED
    BY <1>2, <2>1, <2>2, <2>4, <2>5
<1>6. Joined(f, size)
  BY <1>4, <1>5 DEF Joined
<1> QED
  BY <1>2, <1>6 DEF f

\* A glyph is printed where there is room for it.
LEMMA PrintedJoined ==
  ASSUME size \in Sizes, NEW s \in Screen(size), Joined(s, size), NEW width \in {1, 2},
         NEW row \in RowsOf(size), NEW col \in ColsOf(size), col + width <= Cols
  PROVE  Joined(Printed(s, row, col, width), size)
<1> DEFINE one == ClearCellWideSafe(s, row, col)
           two == ClearCellWideSafe(one, row, col + 1)
<1>1. one \in Screen(size) /\ Joined(one, size) /\ one[<<row, col>>] = "narrow"
  BY ClearCellType, ClearCellJoined
<1>2. CASE width = 1
  BY <1>1, <1>2 DEF Printed
<1>3. CASE width = 2
  <2>1. col + 1 \in ColsOf(size) /\ col \in Int
    BY <1>3, SizeType DEF ColsOf, Cols
  <2> HIDE DEF one
  <2>2. /\ two \in Screen(size) /\ Joined(two, size)
        /\ two[<<row, col>>] = "narrow" /\ two[<<row, col + 1>>] = "narrow"
    BY <1>1, <2>1, ClearCellType, ClearCellJoined
  <2> DEFINE f == [two EXCEPT ![<<row, col>>] = "wide", ![<<row, col + 1>>] = "wide_cont"]
  <2>3. Printed(s, row, col, width) = f
    BY <1>3 DEF Printed, one
  <2> HIDE DEF two
  <2>4. \A r \in RowsOf(size), c \in ColsOf(size) :
          f[<<r, c>>] = IF r = row /\ c = col + 1 THEN "wide_cont"
                        ELSE IF r = row /\ c = col THEN "wide" ELSE two[<<r, c>>]
    <3>1. DOMAIN two = RowsOf(size) \X ColsOf(size)
      BY <2>2 DEF Screen
    <3> QED
      BY <2>1, <3>1
  <2> HIDE DEF f
  <2>5. ASSUME NEW r \in RowsOf(size), NEW c \in ColsOf(size), f[<<r, c>>] = "wide"
        PROVE  c + 1 \in ColsOf(size) /\ f[<<r, c + 1>>] = "wide_cont"
    <3>1. CASE r = row /\ c = col
      BY <2>1, <2>4, <3>1
    <3>2. CASE ~(r = row /\ c = col)
      <4>1. two[<<r, c>>] = "wide"
        BY <2>4, <2>5, <3>2
      <4>2. c + 1 \in ColsOf(size) /\ two[<<r, c + 1>>] = "wide_cont"
        BY <2>2, <4>1, Leading
      <4>i. c \in Int
        BY SizeType DEF ColsOf
      <4>3. ~(r = row /\ c + 1 = col) /\ ~(r = row /\ c + 1 = col + 1)
        BY <2>2, <4>2, <4>i
      <4> QED
        BY <2>4, <4>2, <4>3
    <3> QED
      BY <3>1, <3>2
  <2>6. ASSUME NEW r \in RowsOf(size), NEW c \in ColsOf(size), f[<<r, c>>] = "wide_cont"
        PROVE  c - 1 \in ColsOf(size) /\ f[<<r, c - 1>>] = "wide"
    <3>1. CASE r = row /\ c = col + 1
      <4>1. c - 1 = col /\ col # col + 1
        BY <2>1, <3>1
      <4> QED
        BY <2>4, <3>1, <4>1
    <3>2. CASE ~(r = row /\ c = col + 1)
      <4>1. two[<<r, c>>] = "wide_cont"
        BY <2>4, <2>6, <3>2
      <4>2. c - 1 \in ColsOf(size) /\ two[<<r, c - 1>>] = "wide"
        BY <2>2, <4>1, Trailing
      <4>i. c \in Int
        BY SizeType DEF ColsOf
      <4>3. ~(r = row /\ c - 1 = col + 1) /\ ~(r = row /\ c - 1 = col)
        BY <2>2, <4>2, <4>i
      <4> QED
        BY <2>4, <4>2, <4>3
    <3> QED
      BY <3>1, <3>2
  <2>7. Joined(f, size)
    BY <2>5, <2>6 DEF Joined
  <2> QED
    BY <2>3, <2>7
<1> QED
  BY <1>2, <1>3

\* The screen shown is replaced by one with whole glyphs.
BothJoined == Joined(primary, size) /\ Joined(alt, size)

LEMMA ShowsJoined ==
  ASSUME BothJoined, NEW s, Joined(s, size), Shows(s), UNCHANGED size
  PROVE  BothJoined'
<1>1. primary' \in {primary, s} /\ alt' \in {alt, s}
  BY DEF Shows
<1> QED
  BY <1>1 DEF BothJoined

LEMMA PutCharJoined ==
  ASSUME GridInv, BothJoined, NEW width \in {1, 2}, PutChar(width)
  PROVE  BothJoined'
<1> DEFINE wraps == cursor_col + width > Cols
           col == IF wraps THEN 0 ELSE cursor_col
           fed == IF wraps THEN Fed(cursor_row) ELSE cursor_row
           s   == IF wraps THEN FedScreen(cursor_row) ELSE active
<1>1. Shows(Printed(s, Least(fed, Rows - 1), col, width)) /\ UNCHANGED size
  BY DEF PutChar
<1>2. GridTypeOK /\ cursor_row \in Nat /\ cursor_col \in Nat /\ size \in Sizes
      /\ Rows \in Nat \ {0} /\ Cols \in Nat \ {0, 1} /\ active \in Screen(size)
      /\ scroll_top \in Nat /\ scroll_bottom \in Nat
  BY GridFacts DEF GridInv
<1>3. FedScreen(cursor_row) \in Screen(size) /\ Fed(cursor_row) \in Nat
  BY <1>2, FedType
<1>4. Joined(active, size)
  BY DEF BothJoined, active
<1>5. Joined(FedScreen(cursor_row), size)
  BY <1>2, <1>4, ScrolledUpJoined DEF FedScreen
<1>6. s \in Screen(size) /\ Joined(s, size) /\ fed \in Nat
  BY <1>2, <1>3, <1>4, <1>5
<1>7. col \in ColsOf(size) /\ col + width <= Cols
  BY <1>2 DEF ColsOf, Cols
<1> HIDE DEF s, fed, col
<1>8. Least(fed, Rows - 1) \in RowsOf(size)
  BY <1>2, <1>6 DEF Least, RowsOf, Rows
<1>9. Joined(Printed(s, Least(fed, Rows - 1), col, width), size)
  BY <1>2, <1>6, <1>7, <1>8, PrintedJoined
<1> QED
  BY <1>1, <1>9, ShowsJoined

LEMMA ScrollsJoined ==
  ASSUME GridInv, BothJoined, Scrolls
  PROVE  BothJoined'
<1>0. /\ size \in Sizes /\ active \in Screen(size) /\ Joined(active, size) /\ cursor_row \in Nat
      /\ scroll_top \in Nat /\ scroll_bottom \in Nat
  BY GridFacts DEF BothJoined, active
<1>1. CASE LineFeed
  <2>1. Joined(FedScreen(cursor_row), size)
    BY <1>0, ScrolledUpJoined DEF FedScreen
  <2> QED
    BY <1>1, <2>1, ShowsJoined DEF LineFeed
<1>2. CASE ReverseIndex
  <2>1. Joined(ScrolledDown(active, scroll_top, scroll_bottom, 1), size)
    BY <1>0, ScrolledDownJoined
  <2>2. CASE UNCHANGED <<size, screens>>
    BY <2>2 DEF BothJoined, screens
  <2> QED
    BY <1>2, <2>1, <2>2, ShowsJoined DEF ReverseIndex
<1>3. ASSUME NEW top \in Nat, NEW n \in Counts, ScrollUpFrom(top, n), UNCHANGED size
      PROVE  BothJoined'
  <2>1. Joined(ScrolledUp(active, top, scroll_bottom, n), size)
    BY <1>0, CountType, ScrolledUpJoined
  <2>2. CASE UNCHANGED <<size, screens>>
    BY <2>2 DEF BothJoined, screens
  <2> QED
    BY <1>3, <2>1, <2>2, ShowsJoined DEF ScrollUpFrom
<1>4. CASE ScrollUp \/ DeleteLines
  BY <1>0, <1>3, <1>4 DEF ScrollUp, DeleteLines
<1>5. CASE ScrollDown
  <2>1. PICK n \in Counts : Shows(ScrolledDown(active, scroll_top, scroll_bottom, n))
    BY <1>5 DEF ScrollDown
  <2> QED
    BY <1>0, <1>5, <2>1, CountType, ScrolledDownJoined, ShowsJoined DEF ScrollDown
<1>6. CASE InsertLines
  <2>1. PICK n \in Counts : Shows(ScrolledDown(active, cursor_row, scroll_bottom, n))
    BY <1>6 DEF InsertLines
  <2> QED
    BY <1>0, <1>6, <2>1, CountType, ScrolledDownJoined, ShowsJoined DEF InsertLines
<1> QED
  BY <1>1, <1>2, <1>4, <1>5, <1>6 DEF Scrolls

LEMMA MovesJoined ==
  ASSUME BothJoined, Moves
  PROVE  BothJoined'
<1>1. CASE EnterAlt \/ LeaveAlt
  <2>1. UNCHANGED <<size, primary>> /\ alt' = Blank(size)
    BY <1>1 DEF EnterAlt, LeaveAlt
  <2> QED
    BY <2>1, BlankIsJoined DEF BothJoined
<1>2. CASE ~(EnterAlt \/ LeaveAlt)
  <2>1. UNCHANGED <<size, screens>>
    BY <1>2 DEF Moves, CursorPosition, CursorMoves, ColumnMoves, SaveCursor, RestoreCursor,
                SetMargins, Reset
  <2> QED
    BY <2>1 DEF BothJoined, screens
<1> QED
  BY <1>1, <1>2

\* What no step but an erasure, a shift of cells or a resize undoes.
LEMMA StepsJoined ==
  ASSUME SessionInv, BothJoined, [Next]_vars
  PROVE  BothJoined' \/ Edits \/ \E sz \in Sizes : Resize(sz)
<1>1. CASE Stop \/ Poll
  <2>1. size' = StartSize /\ primary' = Blank(StartSize) /\ alt' = Blank(StartSize)
    BY <1>1 DEF Stop, Poll, Drop, GridRestart
  <2> QED
    BY <2>1, BlankIsJoined DEF BothJoined
<1>2. CASE ReadLoop
  <2>1. PutChar(1) \/ PutChar(2) \/ Scrolls \/ Edits \/ Moves
    BY <1>2 DEF ReadLoop, FeedBytes
  <2> QED
    BY <2>1, PutCharJoined, ScrollsJoined, MovesJoined DEF SessionInv
<1>3. CASE Start \/ WriteBytes \/ Control \/ ControlDropped \/ ChildExits \/ OutputEnds \/ ReadEof
           \/ UNCHANGED vars
  <2>1. UNCHANGED <<size, screens>>
    BY <1>3 DEF Start, WriteBytes, Control, ControlDropped, ChildExits, OutputEnds, ReadEof, vars, grid
  <2> QED
    BY <2>1 DEF BothJoined, screens
<1> QED
  BY <1>1, <1>2, <1>3 DEF Next

LEMMA BothWhole ==
  ASSUME SessionInv
  PROVE  Whole(primary) /\ Whole(alt) <=> BothJoined
<1>1. size \in Sizes /\ primary \in Screen(size) /\ alt \in Screen(size)
  BY GridFacts DEF SessionInv, ScreensOK
<1> QED
  BY <1>1, WholeIsJoined DEF BothJoined

LEMMA BothWholeNext ==
  ASSUME SessionInv'
  PROVE  (Whole(primary) /\ Whole(alt))' <=> BothJoined'
<1>1. size' \in Sizes /\ primary' \in Screen(size') /\ alt' \in Screen(size')
  BY DEF SessionInv, GridInv, GridTypeOK
<1>2. /\ Whole(primary') <=> Joined(primary', size')
      /\ Whole(alt') <=> Joined(alt', size')
  BY <1>1, WholeIsJoined
<1> QED
  BY <1>2 DEF BothJoined

-----------------------------------------------------------------------------
(* The theorems *)

\* Cells and margins are in the range of the window's size, the cursor and the
\* saved one in that of some size the window may have, and what a dropped
\* session leaves its control thread ends in Shutdown (TerminalGrid of ansi.rs,
\* GrokTermSession of session.rs).
THEOREM TermTypes == Spec => []TypeOK
<1>1. Init => TypeInv
  <2> SUFFICES ASSUME Init PROVE TypeInv
    OBVIOUS
  <2>1. SessionInv
    BY InitTells
  <2>2. TypeOK
    BY <2>1 DEF Init, TypeOK, SessionInv, GridInv, TellsSize
  <2> QED
    BY <2>1, <2>2 DEF TypeInv
<1>2. TypeInv /\ [Next]_vars => TypeInv'
  BY NextTypes
<1>3. TypeInv => TypeOK
  BY DEF TypeInv
<1> QED
  BY <1>1, <1>2, <1>3, PTL DEF Spec

\* Whatever the child prints and however the window is resized, a cursor below
\* the screen, or further right than just past its last column, is no further
\* out than the one saved (resize, DECSC and DECRC of ansi.rs).
THEOREM SavedCursorOnly == Spec => []OffScreenIsSaved
<1>1. Init => SessionInv
  BY InitTells
<1>2. SessionInv /\ [Next]_vars => SessionInv'
  BY NextTells
<1>3. SessionInv => OffScreenIsSaved
  BY DEF SessionInv, GridInv
<1> QED
  BY <1>1, <1>2, <1>3, PTL DEF Spec

\* When every command is received, the pseudo terminal has been asked for the
\* size of the grid, and has it unless the system refused: the last resize asked
\* for is the last one drawn (GrokTermSession::resize and control_loop of
\* session.rs, PtySession::resize of pty.rs).
THEOREM ChildIsToldSize == Spec => []SizesAgree
<1>1. Init => SessionInv
  BY InitTells
<1>2. SessionInv /\ [Next]_vars => SessionInv'
  BY NextTells
<1>3. SessionInv => SizesAgree
  <2> SUFFICES ASSUME SessionInv, session, ~stuck, commands = << >>
               PROVE  told = size /\ (pty_size = size \/ refused)
    BY DEF SizesAgree
  <2>1. Len(commands) = 0
    OBVIOUS
  <2>2. told = last_size
    BY <2>1 DEF SessionInv, TellsSize, LastTold
  <2> QED
    BY <2>2 DEF SessionInv, TellsSize
<1> QED
  BY <1>1, <1>2, <1>3, PTL DEF Spec

\* No character printed and no scroll leaves half of a double-width glyph, nor
\* does a change of screens (put_char, clear_cell_wide_safe, scroll_up and
\* scroll_down of ansi.rs).
THEOREM WholeGlyphs == Spec => GlyphsStayWhole
<1>1. Init => SessionInv
  BY InitTells
<1>2. SessionInv /\ [Next]_vars => SessionInv'
  BY NextTells
<1>3. SessionInv /\ SessionInv' /\ [Next]_vars =>
        [Whole(primary) /\ Whole(alt) =>
           (Whole(primary) /\ Whole(alt))' \/ Edits \/ \E sz \in Sizes : Resize(sz)]_vars
  BY StepsJoined, BothWhole, BothWholeNext
<1> QED
  BY <1>1, <1>2, <1>3, PTL DEF Spec, GlyphsStayWhole
=============================================================================
