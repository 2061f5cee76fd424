--------------------------- MODULE TerminalProofs ----------------------------
(*****************************************************************************)
(* Proofs about Terminal for screens of every size, integers of every width  *)
(* and any amount of output: the shape of the screen, the absence of panics  *)
(* on tame panes, and that the screen is the end of the roll of paper a      *)
(* printer would have left.                                                  *)
(*****************************************************************************)
EXTENDS Terminal, TLAPS

(* The cells of a screen.                                                    *)
Screen == [Row -> [Col -> Cell]]

(* Below 2^14 the size of the pane is in range for i16, which is what keeps  *)
(* move_cursor from panicking.                                               *)
SizeTame == ~wild => ~IsWild(cols) /\ ~IsWild(rows)

(* The type of the state.                                                    *)
TermTypeOK ==
  /\ cols \in 1 .. 2 * Half - 1 /\ rows \in 1 .. 2 * Half - 1
  /\ saved_cursor \in Nat \X Nat
  /\ checked \in BOOLEAN /\ use_alternate \in BOOLEAN
  /\ alive \in BOOLEAN /\ wild \in BOOLEAN

(* The inductive invariant of the shape.                                     *)
TermInv == TermTypeOK /\ ScreenShape /\ SizeTame /\ PanicOnlyWild

-------------------------------------------------------------------------------
(* The initial screen is blank, with the cursor at home.                     *)
LEMMA TermInitInv == TermInit => TermInv
<1> SUFFICES ASSUME TermInit PROVE TermInv
  OBVIOUS
<1>1. TermTypeOK
  <2>1. cols \in 1 .. 2 * Half - 1 /\ rows \in 1 .. 2 * Half - 1
    BY TerminalBounds DEF TermInit
  <2>2. wild \in BOOLEAN /\ alive \in BOOLEAN /\ use_alternate \in BOOLEAN
    BY Zenon DEF TermInit
  <2> QED BY <2>1, <2>2 DEF TermInit, TermTypeOK
<1>2. cursor_row \in Row /\ cursor_col \in 0 .. cols
  BY <1>1 DEF TermInit, TermTypeOK, Row
<1>3. BlankRow \in [Col -> Cell]
  BY DEF BlankRow, Cell, Blank
<1>4. buffer \in [BOOLEAN -> [Row -> [Col -> Cell]]]
  BY <1>3 DEF TermInit
<1>5. SizeTame /\ PanicOnlyWild
  BY DEF TermInit, SizeTame, PanicOnlyWild
<1> QED BY <1>1, <1>2, <1>4, <1>5 DEF TermInv, ScreenShape

(* A step that replaces the active buffer by one of the same shape keeps     *)
(* both in shape.                                                            *)
LEMMA SetActiveShape ==
  ASSUME TermInv, NEW b \in Screen, SetActive(b)
  PROVE  buffer' \in [BOOLEAN -> Screen]
BY DEF TermInv, TermTypeOK, ScreenShape, SetActive, Screen

(* The buffer in use has the shape of the screen, and so do a blank one, one *)
(* scrolled by a line and the one new_line leaves.                           *)
LEMMA BufferShapes ==
  ASSUME TermInv
  PROVE  /\ BlankRow \in [Col -> Cell]
         /\ [r \in Row |-> BlankRow] \in Screen
         /\ Active \in Screen
         /\ LineBuffer \in Screen
         /\ LineRow \in Row
<1>1. BlankRow \in [Col -> Cell]
  BY DEF BlankRow, Cell, Blank
<1>2. Active \in Screen
  BY DEF TermInv, TermTypeOK, ScreenShape, Active, Screen
<1>3. Scrolled(Active) \in Screen
  <2> SUFFICES ASSUME NEW r \in Row
               PROVE  (IF r < rows - 1 THEN Active[r + 1] ELSE BlankRow) \in [Col -> Cell]
    BY DEF Scrolled, Screen
  <2>1. CASE r < rows - 1
    <3>1. r + 1 \in Row
      BY <2>1 DEF Row, TermInv, TermTypeOK
    <3> QED BY <2>1, <3>1, <1>2 DEF Screen
  <2>2. CASE ~(r < rows - 1)
    BY <2>2, <1>1
  <2> QED BY <2>1, <2>2
<1>4. LineRow \in Row
  BY DEF LineRow, AtBottom, Row, TermInv, TermTypeOK, ScreenShape
<1> QED BY <1>1, <1>2, <1>3, <1>4 DEF LineBuffer, Screen

(* What a step has to establish when the size stays.                         *)
LEMMA SameSizeInv ==
  ASSUME TermInv, UNCHANGED <<checked, cols, rows>>,
         use_alternate' \in BOOLEAN, saved_cursor' \in Nat \X Nat,
         cursor_row' \in Row, cursor_col' \in 0 .. cols,
         buffer' \in [BOOLEAN -> Screen],
         alive' \in BOOLEAN, wild' \in BOOLEAN, wild => wild', ~alive' => wild'
  PROVE  TermInv'
<1>1. Row' = Row /\ Col' = Col /\ Cell' = Cell
  BY DEF Row, Col, Cell, Blank
<1>2. TermTypeOK'
  BY DEF TermInv, TermTypeOK
<1>3. ScreenShape'
  BY <1>1 DEF ScreenShape, Screen
<1>4. SizeTame'
  BY DEF TermInv, SizeTame, IsWild
<1>5. PanicOnlyWild'
  BY DEF PanicOnlyWild
<1> QED BY <1>2, <1>3, <1>4, <1>5 DEF TermInv

-------------------------------------------------------------------------------
(* put_char and new_line, which may scroll.                                  *)
LEMMA WriteInv ==
  ASSUME TermInv, alive, UNCHANGED wild,
         new_line \/ \E c \in Char : put_char(c)
  PROVE  TermInv'
<1> USE BufferShapes
<1>1. CASE new_line
  <2>1. buffer' \in [BOOLEAN -> Screen]
    BY <1>1, SetActiveShape DEF new_line
  <2>2. cursor_row' \in Row /\ cursor_col' \in 0 .. cols
    BY <1>1 DEF new_line, TermInv, TermTypeOK
  <2> QED BY <1>1, <2>1, <2>2, SameSizeInv DEF new_line, Same, TermInv, TermTypeOK
<1>2. ASSUME NEW c \in Char, put_char(c) PROVE TermInv'
  <2> DEFINE wraps == cursor_col >= cols
             b == IF wraps THEN LineBuffer ELSE Active
             r == IF wraps THEN LineRow ELSE cursor_row
             k == IF wraps THEN 0 ELSE cursor_col
  <2>1. b \in Screen /\ r \in Row
    BY DEF TermInv, ScreenShape
  <2>2. k \in Col /\ Least(k + 1, cols) \in 0 .. cols
    BY DEF TermInv, TermTypeOK, ScreenShape, Col, Least
  <2>3. c \in Cell
    BY DEF Cell
  <2>4. SetActive(Written(b, r, k, c)) /\ cursor_row' = r /\ cursor_col' = Least(k + 1, cols)
    BY <1>2 DEF put_char
  <2>5. Written(b, r, k, c) \in Screen
    <3> HIDE DEF b, r, k
    <3> QED BY <2>1, <2>2, <2>3 DEF Written, Screen
  <2>6. buffer' \in [BOOLEAN -> Screen]
    <3> HIDE DEF b, r, k
    <3> QED BY <2>4, <2>5, SetActiveShape
  <2>7. cursor_row' \in Row /\ cursor_col' \in 0 .. cols
    BY <2>1, <2>2, <2>4
  <2> QED BY <1>2, <2>6, <2>7, SameSizeInv DEF put_char, Same, TermInv, TermTypeOK
<1> QED BY <1>1, <1>2

(* The steps that move the cursor by a few columns, or put it somewhere.     *)
LEMMA CursorInv ==
  ASSUME TermInv, alive, UNCHANGED wild,
         \/ carriage_return \/ backspace \/ save_cursor \/ restore_cursor
         \/ \E m, n \in Args : CursorPosition(m, n)
  PROVE  TermInv'
<1>1. buffer' \in [BOOLEAN -> Screen] /\ UNCHANGED <<checked, cols, rows, use_alternate, alive>>
  BY DEF carriage_return, backspace, save_cursor, restore_cursor, CursorPosition, SetCursor,
     Same, TermInv, ScreenShape, Screen
<1>2. saved_cursor' \in Nat \X Nat
  BY DEF carriage_return, backspace, save_cursor, restore_cursor, CursorPosition, SetCursor,
     cursor, TermInv, TermTypeOK, ScreenShape, Row
<1>3. ASSUME NEW r \in Nat, NEW k \in Nat, SetCursor(r, k)
      PROVE  cursor_row' \in Row /\ cursor_col' \in 0 .. cols
  BY <1>3 DEF SetCursor, Least, Pred, Row, TermInv, TermTypeOK
<1>4. cursor_row' \in Row /\ cursor_col' \in 0 .. cols
  <2>1. CASE carriage_return \/ backspace \/ save_cursor
    BY <2>1 DEF carriage_return, backspace, save_cursor, cursor, Pred, TermInv, TermTypeOK,
       ScreenShape
  <2>2. CASE restore_cursor
    BY <2>2, <1>3 DEF restore_cursor, TermInv, TermTypeOK
  <2>3. ASSUME NEW m \in Args, NEW n \in Args, CursorPosition(m, n)
        PROVE  cursor_row' \in Row /\ cursor_col' \in 0 .. cols
    <3>1. Pred(m) \in Nat /\ Pred(n) \in Nat
      BY TerminalBounds DEF Pred
    <3> QED BY <2>3, <3>1, <1>3 DEF CursorPosition
  <2> QED BY <2>1, <2>2, <2>3
<1> QED BY <1>1, <1>2, <1>4, SameSizeInv DEF TermInv, TermTypeOK

(* A step that panics is allowed when the invariant of panics is.            *)
LEMMA PanicInv ==
  ASSUME TermInv, Panic, wild' \in BOOLEAN, wild => wild', wild'
  PROVE  TermInv'
BY SameSizeInv DEF Panic, cursor, TermInv, TermTypeOK, ScreenShape, Screen

(* tab, whose next stop may overflow on a pane of almost 2^16 columns.       *)
LEMMA TabInv == ASSUME TermInv, alive, UNCHANGED wild, tab PROVE TermInv'
<1> DEFINE stop == (cursor_col \div 8 + 1) * 8
<1>1. stop \in Nat /\ stop =< cursor_col + 8 /\ cursor_col \in 0 .. cols
  BY DEF TermInv, TermTypeOK, ScreenShape
<1> HIDE DEF stop
<1>2. CASE checked /\ stop >= 2 * Half
  <2>1. Panic
    BY <1>2 DEF tab, stop
  <2>2. wild
    BY <1>1, <1>2, TerminalBounds DEF TermInv, TermTypeOK, SizeTame, IsWild
  <2> QED BY <2>1, <2>2, PanicInv DEF TermInv, TermTypeOK
<1>3. CASE ~(checked /\ stop >= 2 * Half)
  <2>1. /\ cursor_col' = Least(AsU16(stop), Pred(cols))
        /\ Same /\ UNCHANGED <<cursor_row, buffer>> /\ UNCHANGED saved_cursor
    BY <1>3 DEF tab, stop
  <2>2. AsU16(stop) \in Nat
    BY <1>1, TerminalBounds DEF AsU16
  <2>3. cursor_col' \in 0 .. cols
    BY <2>1, <2>2 DEF Least, Pred, TermInv, TermTypeOK
  <2> QED BY <2>1, <2>3, SameSizeInv DEF Same, TermInv, TermTypeOK, ScreenShape, Screen
<1> QED BY <1>2, <1>3

(* Erasing cells leaves a screen.                                            *)
LEMMA ErasedShape == ASSUME TermInv, NEW cells PROVE Erased(cells) \in Screen
<1>1. Blank \in Cell /\ \A r \in Row, k \in Col : Active[r][k] \in Cell
  BY BufferShapes DEF Screen, Cell
<1> QED BY <1>1 DEF Erased, Screen

(* The steps that erase, and the switches between the two screens.           *)
LEMMA EraseInv ==
  ASSUME TermInv, alive, UNCHANGED wild,
         \/ clear_screen \/ EnterAlternate \/ LeaveAlternate
         \/ \E n \in Args : clear_display(n % 256) \/ clear_line(n % 256)
  PROVE  TermInv'
<1> USE BufferShapes
<1>1. CASE clear_screen
  <2>1. buffer' \in [BOOLEAN -> Screen]
    BY <1>1, SetActiveShape DEF clear_screen
  <2>2. cursor_row' \in Row /\ cursor_col' \in 0 .. cols
    BY <1>1 DEF clear_screen, Row, TermInv, TermTypeOK
  <2> QED BY <1>1, <2>1, <2>2, SameSizeInv DEF clear_screen, Same, TermInv, TermTypeOK
<1>2. CASE EnterAlternate
  <2>1. buffer' \in [BOOLEAN -> Screen]
    BY <1>2 DEF EnterAlternate, TermInv, ScreenShape, Screen
  <2>2. cursor_row' \in Row /\ cursor_col' \in 0 .. cols
    BY <1>2 DEF EnterAlternate, Row, TermInv, TermTypeOK
  <2> QED BY <1>2, <2>1, <2>2, SameSizeInv, SMTT(30), ZenonT(20)
          DEF EnterAlternate, TermInv, TermTypeOK
<1>3. CASE LeaveAlternate
  BY <1>3, SameSizeInv DEF LeaveAlternate, cursor, TermInv, TermTypeOK, ScreenShape, Screen
<1>4. ASSUME NEW n \in Args, clear_display(n % 256) \/ clear_line(n % 256) PROVE TermInv'
  <2>1. buffer' \in [BOOLEAN -> Screen]
    <3>1. ASSUME NEW cells, SetActive(Erased(cells)) PROVE buffer' \in [BOOLEAN -> Screen]
      BY <3>1, ErasedShape, SetActiveShape
    <3>2. PICK cells : SetActive(Erased(cells))
      <4>1. CASE clear_display(n % 256)
        BY <4>1 DEF clear_display
      <4>2. CASE clear_line(n % 256)
        BY <4>2 DEF clear_line
      <4> QED BY <1>4, <4>1, <4>2
    <3> QED BY <3>1, <3>2
  <2> QED BY <1>4, <2>1, SameSizeInv
          DEF clear_display, clear_line, cursor, Same, TermInv, TermTypeOK, ScreenShape
<1> QED BY <1>1, <1>2, <1>3, <1>4

-------------------------------------------------------------------------------
(* move_cursor by i16 distances: when it does not panic the cursor ends on   *)
(* the screen, and it does not panic on a tame pane and a tame distance.     *)
LEMMA MoveCursorInv ==
  ASSUME TermInv, alive, wild' \in BOOLEAN, wild => wild',
         NEW dr \in -Half .. Half - 1, NEW dc \in -Half .. Half - 1,
         ~wild' => 2 * dr < Half /\ 2 * dc < Half /\ 2 * dr > -Half /\ 2 * dc > -Half,
         move_cursor(dr, dc)
  PROVE  TermInv'
<1> DEFINE r == AsI16(cursor_row) + dr
           k == AsI16(cursor_col) + dc
           maxRow == AsI16(Pred(rows))
           maxCol == AsI16(Pred(cols))
           bad == (checked /\ (Overflows(r) \/ Overflows(k))) \/ maxRow < 0 \/ maxCol < 0
<1>1. /\ cursor_row \in 0 .. rows - 1 /\ cursor_col \in 0 .. cols
      /\ rows \in 1 .. 2 * Half - 1 /\ cols \in 1 .. 2 * Half - 1
      /\ Half \in Nat /\ Half >= 8
  BY TerminalBounds DEF TermInv, TermTypeOK, ScreenShape, Row
<1>2. r \in Int /\ k \in Int /\ maxRow \in Int /\ maxCol \in Int
  BY <1>1 DEF AsI16, Pred
<1>3. CASE bad
  <2>1. Panic
    BY <1>3 DEF move_cursor
  <2>2. ASSUME ~wild' PROVE FALSE
    <3>1. 2 * cols < Half /\ 2 * rows < Half
      BY <1>1, <2>2 DEF TermInv, SizeTame, IsWild
    <3>2. maxRow = rows - 1 /\ maxCol = cols - 1
      BY <1>1, <3>1 DEF AsI16, Pred
    <3>3. r = cursor_row + dr /\ k = cursor_col + dc
      BY <1>1, <3>1 DEF AsI16
    <3>4. ~Overflows(r) /\ ~Overflows(k)
      BY <1>1, <2>2, <3>1, <3>3, SMTT(30), ZenonT(20) DEF Overflows
    <3> QED BY <1>1, <1>3, <3>2, <3>4
  <2> QED BY <2>1, <2>2, PanicInv
<1>4. CASE ~bad
  <2>1. /\ cursor_row' = Clamped(AsI16(r), maxRow) /\ cursor_col' = Clamped(AsI16(k), maxCol)
        /\ Same /\ UNCHANGED buffer /\ UNCHANGED saved_cursor
    BY <1>4 DEF move_cursor
  <2>2. maxRow = rows - 1 /\ maxCol = cols - 1
    BY <1>1, <1>4 DEF AsI16, Pred
  <2>3. AsI16(r) \in Int /\ AsI16(k) \in Int
    BY <1>1, <1>2 DEF AsI16
  <2> HIDE DEF r, k, maxRow, maxCol
  <2>4. cursor_row' \in 0 .. rows - 1 /\ cursor_col' \in 0 .. cols
    BY <1>1, <2>1, <2>2, <2>3 DEF Clamped, Least
  <2> QED BY <2>1, <2>4, SameSizeInv DEF Same, Row, TermInv, TermTypeOK, ScreenShape, Screen
<1> QED BY <1>3, <1>4

(* The four cursor movements, whose argument is cut to i16 and negated.      *)
LEMMA MoveStepInv == ASSUME TermInv, alive, MoveStep PROVE TermInv'
<1> PICK dir \in {"A", "B", "C", "D"}, n \in Args :
       CursorMove(dir, n) /\ wild' = (wild \/ IsWild(n))
  BY DEF MoveStep
<1> DEFINE d == AsI16(IF n = 0 THEN 1 ELSE n)
           by == IF dir \in {"A", "D"} THEN AsI16(-d) ELSE d
<1>1. wild' \in BOOLEAN /\ (wild => wild') /\ (~wild' => ~IsWild(n))
  BY Zenon
<1>2. n \in 0 .. 2 * Half - 1 /\ Half \in Nat /\ Half >= 8
  BY TerminalBounds
<1>3. d \in -Half .. Half - 1 /\ by \in -Half .. Half - 1
  BY <1>2 DEF AsI16
<1>4. ~wild' => 2 * d > 0 /\ 2 * d < Half
  BY <1>1, <1>2 DEF IsWild, AsI16
<1>5. ~wild' => 2 * by < Half /\ 2 * by > -Half
  <2> SUFFICES ASSUME ~wild' PROVE 2 * by < Half /\ 2 * by > -Half
    OBVIOUS
  <2>1. d \in Int /\ 2 * d > 0 /\ 2 * d < Half
    BY <1>3, <1>4
  <2> HIDE DEF d
  <2>2. AsI16(-d) = -d
    BY <1>2, <2>1 DEF AsI16
  <2> QED BY <1>2, <2>1, <2>2
<1>6. CASE checked /\ dir \in {"A", "D"} /\ Overflows(-d)
  <2>1. Panic
    BY <1>6 DEF CursorMove
  <2>2. wild'
    BY <1>1, <1>2, <1>3, <1>4, <1>6, SMTT(30), ZenonT(20) DEF Overflows
  <2> QED BY <1>1, <2>1, <2>2, PanicInv
<1>7. CASE ~(checked /\ dir \in {"A", "D"} /\ Overflows(-d))
  <2>1. move_cursor(by, 0) \/ move_cursor(0, by)
    BY <1>7 DEF CursorMove
  <2>2. 0 \in -Half .. Half - 1 /\ 2 * 0 < Half /\ 2 * 0 > -Half
    BY <1>2
  <2> HIDE DEF by
  <2> QED BY <1>1, <1>3, <1>5, <2>1, <2>2, MoveCursorInv, SMTT(30), ZenonT(20)
<1> QED BY <1>6, <1>7

(* resize, which ignores an empty pane.                                      *)
LEMMA ResizeInv ==
  ASSUME TermInv, alive, NEW w \in Width, NEW h \in Height, resize(w, h)
  PROVE  TermInv'
<1>1. CASE w = 0 \/ h = 0
  BY <1>1, SameSizeInv DEF resize, cursor, TermInv, TermTypeOK, ScreenShape, Screen
<1>2. CASE ~(w = 0 \/ h = 0)
  <2>1. /\ cols' = w /\ rows' = h
        /\ buffer' = [b \in BOOLEAN |-> [r \in 0 .. h - 1 |-> [k \in 0 .. w - 1 |->
                        IF r \in Row /\ k \in Col THEN buffer[b][r][k] ELSE Blank]]]
        /\ cursor_row' = Least(cursor_row, h - 1)
        /\ cursor_col' = Least(cursor_col, w - 1)
        /\ wild' = (wild \/ IsWild(w) \/ IsWild(h))
        /\ UNCHANGED <<checked, use_alternate, alive, saved_cursor>>
    BY <1>2 DEF resize
  <2>2. w \in 1 .. 2 * Half - 1 /\ h \in 1 .. 2 * Half - 1
    BY <1>2, TerminalBounds
  <2>3. wild' \in BOOLEAN /\ (~wild' => ~wild /\ ~IsWild(w) /\ ~IsWild(h))
    BY <2>1, Zenon
  <2>4. TermTypeOK'
    BY <2>1, <2>2, <2>3 DEF TermInv, TermTypeOK
  <2>5. cursor_row' \in 0 .. h - 1 /\ cursor_col' \in 0 .. w
    BY <2>1, <2>2 DEF Least, TermInv, TermTypeOK, ScreenShape, Row
  <2>6. buffer' \in [BOOLEAN -> [0 .. h - 1 -> [0 .. w - 1 -> Cell]]]
    <3>1. ASSUME NEW b \in BOOLEAN, NEW r \in 0 .. h - 1, NEW k \in 0 .. w - 1
          PROVE  (IF r \in Row /\ k \in Col THEN buffer[b][r][k] ELSE Blank) \in Cell
      BY DEF TermInv, ScreenShape, Cell
    <3> QED BY <2>1, <3>1
  <2>7. ScreenShape'
    BY <2>1, <2>5, <2>6 DEF ScreenShape, Row, Col, Cell, Blank
  <2>8. SizeTame'
    BY <2>1, <2>3 DEF SizeTame, IsWild
  <2>9. PanicOnlyWild'
    BY <2>1 DEF PanicOnlyWild
  <2> QED BY <2>4, <2>7, <2>8, <2>9, SMTT(30), ZenonT(20) DEF TermInv
<1> QED BY <1>1, <1>2

(* Every step keeps the invariant.                                           *)
LEMMA TermStepInv == TermInv /\ [TermNext]_termVars => TermInv'
<1> SUFFICES ASSUME TermInv, [TermNext]_termVars PROVE TermInv'
  OBVIOUS
<1>1. CASE UNCHANGED termVars
  BY <1>1, SameSizeInv DEF termVars, TermInv, TermTypeOK, ScreenShape, Screen, PanicOnlyWild
<1>2. CASE alive /\ MoveStep
  BY <1>2, MoveStepInv
<1>3. CASE alive /\ OtherOutput
  BY <1>3, WriteInv, CursorInv, TabInv, EraseInv DEF OtherOutput, execute
<1>4. ASSUME alive, NEW w \in Width, NEW h \in Height, resize(w, h) PROVE TermInv'
  BY <1>4, ResizeInv
<1> QED BY <1>1, <1>2, <1>3, <1>4 DEF TermNext

(* The inductive invariant holds of every behaviour.                         *)
THEOREM TermInvariant == TermSpec => []TermInv
BY TermInitInv, TermStepInv, PTL DEF TermSpec

(* On a pane of any size, after any output and any resizes, the cursor is on *)
(* the screen and both buffers have its size: put_char never drops a         *)
(* character for want of a cell.                                             *)
THEOREM CursorStaysInside == TermSpec => []ScreenShape
<1>1. TermInv => ScreenShape
  BY DEF TermInv
<1> QED BY <1>1, TermInvariant, PTL

(* Panes and movements below 2^14 never make move_cursor or tab panic, with  *)
(* or without overflow checks: the size is tame as long as no wild one was   *)
(* asked for, and the sum of two tame numbers is an i16.                     *)
THEOREM NoPanicOnTameInput == TermSpec => []PanicOnlyWild
<1>1. TermInv => PanicOnlyWild
  BY DEF TermInv
<1> QED BY <1>1, TermInvariant, PTL

-------------------------------------------------------------------------------
(* What is known of the primary screen, with the shape of the paper.         *)
PaperInv ==
  /\ known = "paper" =>
       /\ ~use_alternate
       /\ paper \in [lines : Seq([Col -> Cell]), col : 0 .. cols]
       /\ Len(paper.lines) >= 1
  /\ ShowsOutput

(* A step that leaves the primary screen, its size and the history alone.    *)
LEMMA PaperKept ==
  ASSUME TermInv, PaperInv, UNCHANGED <<cols, rows>>, UNCHANGED history,
         buffer'[FALSE] = buffer[FALSE],
         known = "paper" => UNCHANGED cursor /\ ~use_alternate'
  PROVE  PaperInv'
BY DEF PaperInv, ShowsOutput, Window, Row, Col, Cell, Blank, BlankRow, history, cursor

(* A step after which nothing is known, unless it is one on the alternate    *)
(* screen, which leaves the primary one as it is.                            *)
LEMMA PaperForgotten ==
  ASSUME TermInv, PaperInv, Forget, UNCHANGED <<cols, rows>>,
         use_alternate => buffer'[FALSE] = buffer[FALSE]
  PROVE  PaperInv'
<1>1. CASE use_alternate
  BY <1>1, PaperKept DEF Forget, PaperInv
<1>2. CASE ~use_alternate
  BY <1>2 DEF Forget, Nothing, PaperInv, ShowsOutput
<1> QED BY <1>1, <1>2

(* A write to the alternate screen leaves the primary one.                   *)
LEMMA WritesActive ==
  ASSUME TermInv, NEW b, SetActive(b)
  PROVE  /\ use_alternate => buffer'[FALSE] = buffer[FALSE]
         /\ ~use_alternate => buffer'[FALSE] = b
BY DEF TermInv, TermTypeOK, ScreenShape, SetActive

(* What new_line leaves is the screen of the paper with one line more, still *)
(* blank, and the cursor is on that line.                                    *)
LEMMA LineOfPaper ==
  ASSUME TermInv, PaperInv, known = "paper", NEW line \in [Col -> Cell]
  PROVE  /\ LineRow = Least(Len(paper.lines) + 1, rows) - 1
         /\ LineRow \in Row
         /\ \A r \in Row : Window(Append(paper.lines, line))[r] =
                             IF r = LineRow THEN line ELSE LineBuffer[r]
         /\ LineBuffer[LineRow] = BlankRow
<1> DEFINE n == Len(paper.lines)
<1>1. /\ n \in Nat /\ n >= 1 /\ rows \in Nat /\ rows >= 1 /\ Row = 0 .. rows - 1
      /\ paper.lines \in Seq([Col -> Cell])
      /\ cursor_row = Least(n, rows) - 1
      /\ Active = Window(paper.lines)
  <2>1. use_alternate = FALSE
    BY DEF PaperInv, TermInv, TermTypeOK
  <2>2. Active = Window(paper.lines)
    BY <2>1 DEF PaperInv, ShowsOutput, Active
  <2>3. paper.lines \in Seq([Col -> Cell])
    BY DEF PaperInv
  <2> QED BY <2>2, <2>3 DEF PaperInv, ShowsOutput, TermInv, TermTypeOK, Row
<1>2. /\ Len(Append(paper.lines, line)) = n + 1
      /\ \A i \in 1 .. n : Append(paper.lines, line)[i] = paper.lines[i]
      /\ Append(paper.lines, line)[n + 1] = line
  BY <1>1
<1> DEFINE lines == Append(paper.lines, line)
<1> HIDE DEF n, lines
<1>3. AtBottom <=> n >= rows
  BY <1>1 DEF AtBottom, Least
<1>4. LineRow = Least(n + 1, rows) - 1 /\ LineRow \in Row
  BY <1>1, <1>3 DEF LineRow, Least
<1>5. CASE n >= rows
  <2>1. LineRow = rows - 1 /\ LineBuffer = Scrolled(Active)
    BY <1>1, <1>3, <1>4, <1>5 DEF Least, LineBuffer
  <2>2. ASSUME NEW r \in Row PROVE Window(lines)[r] = lines[n + 1 - rows + r + 1]
    <3>1. Len(lines) = n + 1 /\ Len(lines) > rows
      BY <1>1, <1>2, <1>5 DEF lines
    <3>2. Window(lines)[r] = lines[(Len(lines) - rows) + r + 1]
      BY <1>1, <3>1 DEF Window
    <3>3. (Len(lines) - rows) + r + 1 = n + 1 - rows + r + 1
      BY <1>1, <3>1
    <3> QED BY <3>2, <3>3
  <2>3. ASSUME NEW r \in Row, r < rows - 1
        PROVE  LineBuffer[r] = paper.lines[n - rows + (r + 1) + 1]
    <3>1. r + 1 \in Row
      BY <1>1, <2>3
    <3>2. LineBuffer[r] = Window(paper.lines)[r + 1]
      BY <1>1, <2>1, <2>3 DEF Scrolled
    <3> QED BY <1>1, <1>5, <3>1, <3>2 DEF Window, n
  <2>4. LineBuffer[rows - 1] = BlankRow
    BY <1>1, <2>1 DEF Scrolled
  <2>5. ASSUME NEW r \in Row
        PROVE  Window(lines)[r] = IF r = LineRow THEN line ELSE LineBuffer[r]
    <3>1. CASE r = rows - 1
      <4>1. n + 1 - rows + r + 1 = n + 1
        BY <1>1, <3>1
      <4> QED BY <1>2, <2>1, <2>2, <3>1, <4>1 DEF lines
    <3>2. CASE r # rows - 1
      <4>1. r < rows - 1 /\ n + 1 - rows + r + 1 = n - rows + (r + 1) + 1
        BY <1>1, <3>2
      <4>2. n - rows + (r + 1) + 1 \in 1 .. n
        BY <1>1, <1>5, <4>1
      <4> QED BY <1>2, <2>1, <2>2, <2>3, <3>2, <4>1, <4>2 DEF lines
    <3> QED BY <3>1, <3>2
  <2> QED BY <1>4, <2>1, <2>4, <2>5 DEF lines, n
<1>6. CASE ~(n >= rows)
  <2>1. LineRow = n /\ LineBuffer = Window(paper.lines)
    BY <1>1, <1>3, <1>4, <1>6 DEF Least, LineBuffer
  <2>2. ASSUME NEW r \in Row
        PROVE  Window(lines)[r] = IF r + 1 =< n + 1 THEN lines[r + 1] ELSE BlankRow
    BY <1>1, <1>2, <1>6 DEF Window, lines, n
  <2>3. ASSUME NEW r \in Row
        PROVE  LineBuffer[r] = IF r + 1 =< n THEN paper.lines[r + 1] ELSE BlankRow
    BY <1>1, <1>6, <2>1 DEF Window, n
  <2>4. LineBuffer[LineRow] = BlankRow
    BY <1>1, <1>4, <2>1, <2>3
  <2>5. ASSUME NEW r \in Row
        PROVE  Window(lines)[r] = IF r = LineRow THEN line ELSE LineBuffer[r]
    BY <1>1, <1>2, <2>1, <2>2, <2>3 DEF lines
  <2> QED BY <1>4, <2>4, <2>5 DEF lines, n
<1> QED BY <1>5, <1>6

(* A step that brings the screen and the paper to the same lines.            *)
LEMMA PaperMoves ==
  ASSUME TermInv, PaperInv, known = "paper", UNCHANGED <<cols, rows, use_alternate, known>>,
         NEW lines \in Seq([Col -> Cell]), NEW col \in 0 .. cols, Len(lines) >= 1,
         paper' = [lines |-> lines, col |-> col],
         \A r \in Row : buffer'[FALSE][r] = Window(lines)[r],
         buffer' \in [BOOLEAN -> Screen],
         cursor_row' = Least(Len(lines), rows) - 1, cursor_col' = col
  PROVE  PaperInv'
<1>1. Row' = Row /\ Col' = Col /\ Cell' = Cell /\ BlankRow' = BlankRow
  BY DEF Row, Col, Cell, Blank, BlankRow
<1>2. buffer'[FALSE] = Window(lines)
  BY DEF Window, Screen
<1>3. (Window(paper.lines))' = Window(lines)
  BY <1>1 DEF Window
<1>4. ShowsOutput'
  BY <1>2, <1>3 DEF ShowsOutput
<1> QED BY <1>1, <1>4 DEF PaperInv

(* A sheet at another column.                                                *)
LEMMA OtherColumn ==
  ASSUME NEW sheet, NEW lines, NEW k, NEW j, sheet = [lines |-> lines, col |-> k]
  PROVE  [sheet EXCEPT !.col = j] = [lines |-> lines, col |-> j]
OBVIOUS

(* A character, a line feed, a carriage return or a backspace: the screen    *)
(* and the paper take it the same way.                                       *)
LEMMA PlainOutput ==
  ASSUME TermInv, PaperInv, TermInv',
         new_line \/ carriage_return \/ backspace \/ \E c \in Char : put_char(c)
  PROVE  PaperInv'
<1>1. UNCHANGED <<cols, rows, use_alternate>>
  BY DEF new_line, carriage_return, backspace, put_char, Same
<1>2. use_alternate => buffer'[FALSE] = buffer[FALSE]
  BY WritesActive DEF new_line, carriage_return, backspace, put_char
<1>3. CASE Forget
  BY <1>1, <1>2, <1>3, PaperForgotten
<1>4. CASE ~Forget
  <2> DEFINE n == Len(paper.lines)
  <2>1. ASSUME NEW item, Remember(item)
        PROVE  /\ ~use_alternate /\ known = "paper" /\ known' = known
               /\ paper' = Typed(item)
    BY <1>4, <2>1 DEF Remember
  <2>2. /\ ~use_alternate /\ known = "paper" /\ known' = known
    BY <2>1 DEF new_line, carriage_return, backspace, put_char
  <2>3. /\ paper.lines \in Seq([Col -> Cell]) /\ paper.col \in 0 .. cols
        /\ paper = [lines |-> paper.lines, col |-> paper.col]
        /\ n \in Nat /\ n >= 1
        /\ cols \in Nat /\ cols >= 1 /\ rows \in Nat /\ rows >= 1
        /\ Row = 0 .. rows - 1 /\ Col = 0 .. cols - 1
        /\ cursor_row = Least(n, rows) - 1 /\ cursor_col = paper.col
        /\ BlankRow \in [Col -> Cell]
    BY <2>2, BufferShapes DEF PaperInv, ShowsOutput, TermInv, TermTypeOK, Row, Col
  <2>4. Active = Window(paper.lines) /\ buffer[FALSE] = Window(paper.lines)
    <3>1. use_alternate = FALSE
      BY <2>2 DEF PaperInv, TermInv, TermTypeOK
    <3> QED BY <2>2, <3>1 DEF PaperInv, ShowsOutput, Active
  <2>5. buffer' \in [BOOLEAN -> Screen]
    BY <1>1 DEF TermInv, ScreenShape, Screen, Row, Col, Cell, Blank
  <2>6. CASE new_line
    <3>1. Remember("lf") /\ cursor_row' = LineRow /\ cursor_col' = 0 /\ SetActive(LineBuffer)
      BY <2>6 DEF new_line
    <3>2. paper' = [lines |-> Append(paper.lines, BlankRow), col |-> 0]
      BY <2>1, <3>1 DEF Typed
    <3>3. buffer'[FALSE] = LineBuffer
      BY <2>2, <3>1, WritesActive
    <3>4. /\ LineRow = Least(n + 1, rows) - 1
          /\ \A r \in Row : LineBuffer[r] = Window(Append(paper.lines, BlankRow))[r]
      BY <2>2, <2>3, LineOfPaper
    <3>5. /\ Append(paper.lines, BlankRow) \in Seq([Col -> Cell])
          /\ Len(Append(paper.lines, BlankRow)) = n + 1 /\ n + 1 >= 1 /\ 0 \in 0 .. cols
      BY <2>3
    <3> QED BY <1>1, <2>2, <2>5, <3>1, <3>2, <3>3, <3>4, <3>5, PaperMoves
  <2>7. CASE carriage_return \/ backspace
    <3>1. PICK col \in 0 .. cols : /\ paper' = [lines |-> paper.lines, col |-> col]
                                   /\ cursor_col' = col
      <4>1. CASE carriage_return
        <5>1. paper' = [paper EXCEPT !.col = 0] /\ cursor_col' = 0
          BY <2>1, <4>1 DEF carriage_return, Typed
        <5>2. 0 \in 0 .. cols /\ paper' = [lines |-> paper.lines, col |-> 0]
          BY <2>3, <5>1, OtherColumn
        <5> QED BY <5>1, <5>2
      <4>2. CASE backspace
        <5>1. paper' = [paper EXCEPT !.col = Pred(paper.col)] /\ cursor_col' = Pred(paper.col)
          BY <2>1, <2>3, <4>2 DEF backspace, Typed
        <5>2. Pred(paper.col) \in 0 .. cols
          BY <2>3 DEF Pred
        <5>3. paper' = [lines |-> paper.lines, col |-> Pred(paper.col)]
          BY <2>3, <5>1, OtherColumn
        <5> QED BY <5>1, <5>2, <5>3
      <4> QED BY <2>7, <4>1, <4>2
    <3>2. buffer' = buffer /\ cursor_row' = cursor_row
      BY <2>7 DEF carriage_return, backspace
    <3> QED BY <1>1, <2>2, <2>3, <2>4, <2>5, <3>1, <3>2, PaperMoves
  <2>8. ASSUME NEW c \in Char, put_char(c) PROVE PaperInv'
    <3>0. c \notin {"lf", "cr", "bs"} /\ c \in Cell
      BY NoControls DEF Cell
    <3>1. Remember(c)
      BY <2>8 DEF put_char
    <3>2. paper' = IF paper.col < cols
                   THEN [lines |-> [paper.lines EXCEPT ![n][paper.col] = c], col |-> paper.col + 1]
                   ELSE [lines |-> Append(paper.lines, [BlankRow EXCEPT ![0] = c]), col |-> 1]
      BY <2>1, <3>0, <3>1 DEF Typed
    <3>3. CASE cursor_col >= cols
      <4> DEFINE line == [BlankRow EXCEPT ![0] = c]
                 lines == Append(paper.lines, line)
      <4>1. /\ SetActive(Written(LineBuffer, LineRow, 0, c)) /\ cursor_row' = LineRow
            /\ cursor_col' = Least(0 + 1, cols)
        BY <2>8, <3>3 DEF put_char
      <4>2. line \in [Col -> Cell]
        BY <2>3, <3>0
      <4>3. /\ LineRow = Least(n + 1, rows) - 1 /\ LineRow \in Row
            /\ \A r \in Row : Window(lines)[r] = IF r = LineRow THEN line ELSE LineBuffer[r]
            /\ LineBuffer[LineRow] = BlankRow
        BY <2>2, <4>2, LineOfPaper
      <4>4. paper' = [lines |-> lines, col |-> 1] /\ cursor_col' = 1
        BY <2>3, <3>2, <3>3, <4>1 DEF Least
      <4>5. lines \in Seq([Col -> Cell]) /\ Len(lines) = n + 1 /\ n + 1 >= 1 /\ 1 \in 0 .. cols
        BY <2>3, <4>2
      <4> HIDE DEF line, lines
      <4>6. ASSUME NEW r \in Row PROVE buffer'[FALSE][r] = Window(lines)[r]
        <5>0. 0 \in Col
          BY <2>3
        <5>1. buffer'[FALSE] = [LineBuffer EXCEPT ![LineRow][0] = c]
          <6>1. buffer'[FALSE] = Written(LineBuffer, LineRow, 0, c)
            BY <2>2, <4>1, WritesActive
          <6> QED BY <4>3, <5>0, <6>1 DEF Written
        <5>2. LineBuffer \in [Row -> [Col -> Cell]]
          BY BufferShapes DEF Screen
        <5> QED BY <4>3, <5>1, <5>2 DEF line
      <4> QED BY <1>1, <2>2, <2>5, <4>1, <4>3, <4>4, <4>5, <4>6, PaperMoves
    <3>4. CASE ~(cursor_col >= cols)
      <4> DEFINE k == paper.col
                 line == [paper.lines[n] EXCEPT ![k] = c]
                 lines == [paper.lines EXCEPT ![n][k] = c]
      <4>1. /\ SetActive(Written(Active, cursor_row, k, c)) /\ cursor_row' = cursor_row
            /\ cursor_col' = Least(k + 1, cols) /\ k \in Col
        BY <2>3, <2>8, <3>4 DEF put_char
      <4>2. paper' = [lines |-> lines, col |-> k + 1] /\ cursor_col' = k + 1 /\ k + 1 \in 0 .. cols
        BY <2>3, <3>2, <3>4, <4>1 DEF Least
      <4>3. paper.lines[n] \in [Col -> Cell] /\ line \in [Col -> Cell]
        <5>1. paper.lines[n] \in [Col -> Cell]
          BY <2>3
        <5> QED BY <3>0, <4>1, <5>1
      <4>4. /\ lines \in Seq([Col -> Cell]) /\ Len(lines) = n
            /\ lines[n] = line /\ \A i \in 1 .. n - 1 : lines[i] = paper.lines[i]
        <5>1. lines = [paper.lines EXCEPT ![n] = line]
          BY <2>3
        <5> HIDE DEF line, lines
        <5> QED BY <2>3, <4>3, <5>1
      <4> HIDE DEF line, lines
      <4>5. cursor_row \in Row
        BY <2>3 DEF Least
      <4>6. ASSUME NEW r \in Row PROVE buffer'[FALSE][r] = Window(lines)[r]
        <5>1. buffer'[FALSE] = [Active EXCEPT ![cursor_row][k] = c]
          BY <2>2, <4>1, <4>5, WritesActive DEF Written
        <5>2. Active \in [Row -> [Col -> Cell]]
          BY BufferShapes DEF Screen
        <5> DEFINE above == IF n > rows THEN n - rows ELSE 0
        <5>3. /\ Active[r] = IF above + r + 1 =< n THEN paper.lines[above + r + 1] ELSE BlankRow
              /\ Window(lines)[r] = IF above + r + 1 =< n THEN lines[above + r + 1] ELSE BlankRow
          BY <2>4, <4>4 DEF Window
        <5>4. above \in Nat /\ above + cursor_row + 1 = n
          BY <2>3 DEF Least
        <5> HIDE DEF above
        <5>5. CASE r = cursor_row
          <6>1. buffer'[FALSE][r] = [Active[r] EXCEPT ![k] = c]
            BY <5>1, <5>2, <5>5
          <6>2. Active[r] = paper.lines[n] /\ Window(lines)[r] = lines[n]
            BY <2>3, <5>3, <5>4, <5>5
          <6> QED BY <4>4, <6>1, <6>2 DEF line
        <5>6. CASE r # cursor_row
          <6>1. buffer'[FALSE][r] = Active[r]
            BY <5>1, <5>2, <5>6
          <6>2. above + r + 1 =< n => above + r + 1 \in 1 .. n - 1
            BY <2>3, <4>5, <5>4, <5>6
          <6> QED BY <4>4, <5>3, <6>1, <6>2
        <5> QED BY <5>5, <5>6
      <4>7. cursor_row' = Least(Len(lines), rows) - 1 /\ Len(lines) >= 1
        BY <2>3, <4>1, <4>4
      <4> QED BY <1>1, <2>2, <2>5, <4>2, <4>4, <4>6, <4>7, PaperMoves
    <3> QED BY <3>3, <3>4
  <2> QED BY <2>6, <2>7, <2>8
<1> QED BY <1>3, <1>4

(* Every step keeps what the primary screen is known to show.                *)
LEMMA PaperStep ==
  ASSUME TermInv, PaperInv, TermInv', [TermNext]_termVars
  PROVE  PaperInv'
<1>1. ASSUME Panic \/ save_cursor \/ LeaveAlternate \/ UNCHANGED termVars PROVE PaperInv'
  <2>1. UNCHANGED <<cols, rows, buffer>> /\ UNCHANGED history /\ UNCHANGED cursor
    BY <1>1 DEF Panic, save_cursor, LeaveAlternate, Same, termVars, cursor, history
  <2>2. ~use_alternate => ~use_alternate'
    BY <1>1 DEF Panic, save_cursor, LeaveAlternate, Same, termVars
  <2> QED BY <2>1, <2>2, PaperKept DEF PaperInv
<1>2. CASE EnterAlternate
  <2>1. buffer'[FALSE] = buffer[FALSE]
    BY <1>2 DEF EnterAlternate, TermInv, ScreenShape
  <2>2. CASE use_alternate
    BY <1>2, <2>1, <2>2, PaperKept DEF EnterAlternate, PaperInv
  <2>3. CASE ~use_alternate
    BY <1>2, <2>1, <2>3 DEF EnterAlternate, PaperInv, ShowsOutput
  <2> QED BY <2>2, <2>3
<1>3. ASSUME Forget, UNCHANGED <<cols, rows>>,
             UNCHANGED buffer \/ \E b : SetActive(b)
      PROVE  PaperInv'
  BY <1>3, WritesActive, PaperForgotten
<1>4. ASSUME NEW dr, NEW dc, move_cursor(dr, dc) PROVE PaperInv'
  BY <1>1, <1>3, <1>4 DEF move_cursor, Same
<1>5. CASE MoveStep
  BY <1>1, <1>4, <1>5 DEF MoveStep, CursorMove
<1>6. CASE tab
  BY <1>1, <1>3, <1>6 DEF tab, Same
<1>7. CASE restore_cursor \/ \E m, n \in Args : CursorPosition(m, n)
  BY <1>3, <1>7 DEF restore_cursor, CursorPosition, SetCursor, Same
<1>8. CASE clear_screen
  BY <1>3, <1>8 DEF clear_screen, Same
<1>9. ASSUME NEW n, clear_display(n) \/ clear_line(n) PROVE PaperInv'
  BY <1>3, <1>9 DEF clear_display, clear_line, Same
<1>10. ASSUME NEW w \in Width, NEW h \in Height, resize(w, h) PROVE PaperInv'
  <2>1. CASE w = 0 \/ h = 0
    BY <1>10, <2>1, PaperKept DEF resize, PaperInv
  <2>2. CASE ~(w = 0 \/ h = 0)
    BY <1>10, <2>2 DEF resize, Nothing, PaperInv, ShowsOutput
  <2> QED BY <2>1, <2>2
<1> QED BY <1>1, <1>2, <1>5, <1>6, <1>7, <1>8, <1>9, <1>10, PlainOutput
        DEF TermNext, OtherOutput, execute

(* A new pane and a new sheet are blank.                                     *)
LEMMA PaperInit == TermInit => PaperInv
<1> SUFFICES ASSUME TermInit PROVE PaperInv
  OBVIOUS
<1>1. cols \in Nat /\ cols >= 1 /\ rows \in Nat /\ rows >= 1
  BY TerminalBounds DEF TermInit
<1>2. BlankRow \in [Col -> Cell]
  BY DEF BlankRow, Cell, Blank
<1>3. <<BlankRow>> \in Seq([Col -> Cell]) /\ Len(<<BlankRow>>) = 1 /\ <<BlankRow>>[1] = BlankRow
  BY <1>2
<1>4. known = "paper" /\ paper.lines = <<BlankRow>> /\ paper.col = 0 /\ ~use_alternate
      /\ paper \in [lines : Seq([Col -> Cell]), col : 0 .. cols]
  BY <1>1, <1>3 DEF TermInit
<1>5. Window(<<BlankRow>>) = [r \in Row |-> BlankRow]
  BY <1>1, <1>3 DEF Window, Row
<1>6. ShowsOutput
  BY <1>1, <1>3, <1>4, <1>5 DEF TermInit, ShowsOutput, Least
<1> QED BY <1>3, <1>4, <1>6 DEF PaperInv

(* Whatever the size of the pane and however long a program prints, the      *)
(* screen is the end of the roll of paper, the cursor where the paper has    *)
(* it; and the alternate screen never touches the primary one.               *)
THEOREM AlwaysShowsOutput == TermSpec => []ShowsOutput
<1>1. PaperInv => ShowsOutput
  BY DEF PaperInv
<1>2. TermInv /\ TermInv' /\ PaperInv /\ [TermNext]_termVars => PaperInv'
  BY PaperStep
<1> QED BY <1>1, <1>2, TermInvariant, PaperInit, PTL DEF TermSpec
===============================================================================
