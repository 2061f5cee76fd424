------------------------------- MODULE Terminal -------------------------------
(* The terminal emulator of the desktop's shell pane: TerminalScreen, and    *)
(* the callbacks TerminalPerformer gives the escape sequence parser.  One    *)
(* action is one callback, or one resize between two frames of output.       *)
(* Sizes, cursor and arguments are u16, cursor movements i16: both keep      *)
(* their width, which is a constant.  Left out are cursor_visible, colours   *)
(* and fonts: the pane shows render_plain_text, which drops them.            *)
EXTENDS Integers, Sequences

CONSTANTS
  Half,      \* 2^15: i16 is -Half .. Half - 1, u16 is 0 .. 2 * Half - 1
  Char,      \* printable characters, the space not among them
  Width,     \* sizes the pane is given
  Height,
  Args,      \* arguments of the escape sequences
  MaxLines   \* bound: lines of paper

ASSUME TerminalBounds ==
  /\ Half \in Nat /\ Half >= 8 /\ MaxLines \in Nat
  /\ Width \subseteq 0 .. 2 * Half - 1 /\ Height \subseteq 0 .. 2 * Half - 1
  /\ Args \subseteq 0 .. 2 * Half - 1
ASSUME NoControls == Char \cap {" ", "lf", "cr", "bs"} = {}

VARIABLES
  checked,        \* the build has overflow checks
  cols, rows,     \* size of the screen
  cursor_row,
  cursor_col,     \* equal to cols after a character in the last column
  use_alternate,
  buffer,         \* primary_buffer and alternate_buffer, by use_alternate
  saved_cursor,
  alive,          \* the reader task has not panicked
  wild,           \* history: a size or a distance of 2^14 or more was asked for
  known,          \* history: what is known of the primary screen: paper or kept
  paper,          \* history: the plain output it shows, on an endless roll
  kept            \* history: what it showed when the alternate one was taken

cursor == <<cursor_row, cursor_col>>
history == <<known, paper, kept>>
termVars == <<checked, cols, rows, cursor_row, cursor_col, use_alternate,
              buffer, saved_cursor, alive, wild, known, paper, kept>>

Blank == " "
Cell == Char \cup {Blank}

Row == 0 .. rows - 1
Col == 0 .. cols - 1
BlankRow == [k \in Col |-> Blank]
Active == buffer[use_alternate]
Pred(n) == IF n = 0 THEN 0 ELSE n - 1       \* saturating_sub(1)
Least(m, n) == IF m =< n THEN m ELSE n

(* Wrapping at the end of the range; no sum here is further out than once.   *)
AsU16(n) == IF n >= 2 * Half THEN n - 2 * Half ELSE n
AsI16(n) == IF n >= Half THEN n - 2 * Half ELSE IF n < -Half THEN n + 2 * Half ELSE n
Overflows(n) == n \notin -Half .. Half - 1

IsWild(n) == 2 * n >= Half

TermInit ==
  /\ checked \in BOOLEAN
  /\ cols \in Width \ {0} /\ rows \in Height \ {0}
  /\ cursor_row = 0 /\ cursor_col = 0
  /\ use_alternate = FALSE
  /\ buffer = [b \in BOOLEAN |-> [r \in Row |-> BlankRow]]
  /\ saved_cursor = <<0, 0>>
  /\ alive = TRUE
  /\ wild = (IsWild(cols) \/ IsWild(rows))
  /\ known = "paper" /\ paper = [lines |-> <<BlankRow>>, col |-> 0] /\ kept = <<>>

-------------------------------------------------------------------------------
(* What a screen should show of plain output: an endless roll of paper, the  *)
(* lines of it that have been begun, and the column to write in.             *)
Typed(item) ==
  LET n == Len(paper.lines) IN
  CASE item = "lf" -> [lines |-> Append(paper.lines, BlankRow), col |-> 0]
    [] item = "cr" -> [paper EXCEPT !.col = 0]
    [] item = "bs" -> [paper EXCEPT !.col = Pred(@)]
    [] OTHER ->
         IF paper.col < cols
         THEN [lines |-> [paper.lines EXCEPT ![n][paper.col] = item], col |-> paper.col + 1]
         ELSE [lines |-> Append(paper.lines, [BlankRow EXCEPT ![0] = item]), col |-> 1]

(* Plain output to the primary screen goes to the paper as well, other       *)
(* changes of the screen end what is known of it.  Nothing that happens on   *)
(* the alternate screen does.                                                *)
NoPaper == [lines |-> <<>>, col |-> 0]

Nothing == known' = "nothing" /\ paper' = NoPaper /\ kept' = <<>>

Forget == IF use_alternate THEN UNCHANGED history ELSE Nothing

Remember(item) ==
  IF ~use_alternate /\ known = "paper" /\ Len(Typed(item).lines) =< MaxLines
  THEN paper' = Typed(item) /\ UNCHANGED <<known, kept>>
  ELSE Forget

-------------------------------------------------------------------------------
(* TerminalScreen                                                            *)

Same == UNCHANGED <<checked, cols, rows, use_alternate, alive>>

SetActive(b) == buffer' = [buffer EXCEPT ![use_alternate] = b]

(* scroll_up(1)                                                              *)
Scrolled(b) == [r \in Row |-> IF r < rows - 1 THEN b[r + 1] ELSE BlankRow]

(* new_line: the buffer and the row of the cursor after it, in column 0.     *)
AtBottom == cursor_row + 1 >= rows
LineBuffer == IF AtBottom THEN Scrolled(Active) ELSE Active
LineRow == IF AtBottom THEN cursor_row ELSE cursor_row + 1

(* A cell is written only where the buffer has one.                          *)
Written(b, r, k, c) ==
  IF r \in Row /\ k \in Col THEN [b EXCEPT ![r][k] = c] ELSE b

(* Mutated form: a character in the last column wraps at once.               *)
put_char_eager(c) ==
  LET last == cursor_col + 1 >= cols
      b == Written(Active, cursor_row, cursor_col, c)
  IN
  /\ SetActive(IF last /\ AtBottom THEN Scrolled(b) ELSE b)
  /\ cursor_row' = IF last THEN LineRow ELSE cursor_row
  /\ cursor_col' = IF last THEN 0 ELSE cursor_col + 1
  /\ Remember(c)
  /\ Same /\ UNCHANGED saved_cursor

put_char(c) ==
  LET wraps == cursor_col >= cols
      b == IF wraps THEN LineBuffer ELSE Active
      r == IF wraps THEN LineRow ELSE cursor_row
      k == IF wraps THEN 0 ELSE cursor_col
  IN
  /\ SetActive(Written(b, r, k, c))
  /\ cursor_row' = r
  /\ cursor_col' = Least(k + 1, cols)
  /\ Remember(c)
  /\ Same /\ UNCHANGED saved_cursor

new_line ==
  /\ SetActive(LineBuffer)
  /\ cursor_row' = LineRow /\ cursor_col' = 0
  /\ Remember("lf")
  /\ Same /\ UNCHANGED saved_cursor

carriage_return ==
  /\ cursor_col' = 0
  /\ Remember("cr")
  /\ Same /\ UNCHANGED <<cursor_row, buffer>> /\ UNCHANGED saved_cursor

backspace ==
  /\ cursor_col' = Pred(cursor_col)
  /\ Remember("bs")
  /\ Same /\ UNCHANGED <<cursor_row, buffer>> /\ UNCHANGED saved_cursor

(* An addition or a negation that overflows, or a clamp to an empty range:   *)
(* the reader task is gone.                                                  *)
Panic ==
  /\ alive' = FALSE
  /\ UNCHANGED <<checked, cols, rows, use_alternate, buffer>>
  /\ UNCHANGED cursor /\ UNCHANGED saved_cursor /\ UNCHANGED history

tab ==
  LET stop == (cursor_col \div 8 + 1) * 8 IN
  IF checked /\ stop >= 2 * Half
  THEN Panic
  ELSE /\ cursor_col' = Least(AsU16(stop), Pred(cols))
       /\ Forget
       /\ Same /\ UNCHANGED <<cursor_row, buffer>> /\ UNCHANGED saved_cursor

(* These cells of the active screen become blank.                            *)
Erased(cells) ==
  [r \in Row |-> [k \in Col |-> IF <<r, k>> \in cells THEN Blank ELSE Active[r][k]]]

clear_screen ==
  /\ SetActive([r \in Row |-> BlankRow])
  /\ cursor_row' = 0 /\ cursor_col' = 0
  /\ Forget
  /\ Same /\ UNCHANGED saved_cursor

clear_line(mode) ==
  /\ SetActive(Erased({c \in {cursor_row} \X Col :
                         \/ mode = 0 /\ c[2] >= cursor_col
                         \/ mode = 1 /\ c[2] =< cursor_col
                         \/ mode = 2}))
  /\ Forget
  /\ Same /\ UNCHANGED cursor /\ UNCHANGED saved_cursor

clear_display(mode) ==
  /\ SetActive(Erased({c \in Row \X Col :
       \/ mode = 0 /\ (c[1] > cursor_row \/ (c[1] = cursor_row /\ c[2] >= cursor_col))
       \/ mode = 1 /\ (c[1] < cursor_row \/ (c[1] = cursor_row /\ c[2] =< cursor_col))
       \/ mode \in {2, 3}}))
  /\ Forget
  /\ Same /\ UNCHANGED cursor /\ UNCHANGED saved_cursor

SetCursor(r, k) ==
  /\ cursor_row' = Least(r, Pred(rows)) /\ cursor_col' = Least(k, Pred(cols))
  /\ Forget
  /\ Same /\ UNCHANGED buffer /\ UNCHANGED saved_cursor

Clamped(n, max) == IF n < 0 THEN 0 ELSE Least(n, max)

(* Mutated form: the arithmetic is that of u16.                              *)
move_cursor_unsigned(d_row, d_col) ==
  LET r == cursor_row + d_row
      k == cursor_col + d_col
  IN
  IF checked /\ (r < 0 \/ k < 0)
  THEN Panic
  ELSE /\ cursor_row' = Clamped(r, Pred(rows))
       /\ cursor_col' = Clamped(k, Pred(cols))
       /\ Forget
       /\ Same /\ UNCHANGED buffer /\ UNCHANGED saved_cursor

(* All of it in i16.  A clamp whose upper end is negative panics.            *)
move_cursor(d_row, d_col) ==
  LET r == AsI16(cursor_row) + d_row
      k == AsI16(cursor_col) + d_col
      maxRow == AsI16(Pred(rows))
      maxCol == AsI16(Pred(cols))
  IN
  IF (checked /\ (Overflows(r) \/ Overflows(k))) \/ maxRow < 0 \/ maxCol < 0
  THEN Panic
  ELSE /\ cursor_row' = Clamped(AsI16(r), maxRow)
       /\ cursor_col' = Clamped(AsI16(k), maxCol)
       /\ Forget
       /\ Same /\ UNCHANGED buffer /\ UNCHANGED saved_cursor

save_cursor ==
  /\ saved_cursor' = cursor
  /\ Same /\ UNCHANGED buffer /\ UNCHANGED cursor /\ UNCHANGED history

(* Mutated form: the position is put back as it was saved.                   *)
restore_cursor_raw ==
  /\ cursor_row' = saved_cursor[1] /\ cursor_col' = saved_cursor[2]
  /\ Forget
  /\ Same /\ UNCHANGED buffer /\ UNCHANGED saved_cursor

restore_cursor == SetCursor(saved_cursor[1], saved_cursor[2])

(* Both buffers are cut or filled up; the cursor comes inside.               *)
resize(w, h) ==
  /\ IF w = 0 \/ h = 0
     THEN UNCHANGED <<cols, rows, buffer, wild>> /\ UNCHANGED cursor /\ UNCHANGED history
     ELSE /\ cols' = w /\ rows' = h
          /\ buffer' = [b \in BOOLEAN |-> [r \in 0 .. h - 1 |-> [k \in 0 .. w - 1 |->
                          IF r \in Row /\ k \in Col THEN buffer[b][r][k] ELSE Blank]]]
          /\ cursor_row' = Least(cursor_row, h - 1)
          /\ cursor_col' = Least(cursor_col, w - 1)
          /\ wild' = (wild \/ IsWild(w) \/ IsWild(h))
          /\ Nothing
  /\ UNCHANGED <<checked, use_alternate, alive>> /\ UNCHANGED saved_cursor

-------------------------------------------------------------------------------
(* TerminalPerformer                                                         *)

execute == new_line \/ carriage_return \/ backspace \/ tab

(* A, B, C, D: n as i16, negated for A and D.                                *)
CursorMove(dir, n) ==
  LET d == AsI16(IF n = 0 THEN 1 ELSE n)
      back == dir \in {"A", "D"}
      by == IF back THEN AsI16(-d) ELSE d
  IN
  IF checked /\ back /\ Overflows(-d)
  THEN Panic
  ELSE IF dir \in {"A", "B"} THEN move_cursor(by, 0) ELSE move_cursor(0, by)

(* H and f count from 1.                                                     *)
CursorPosition(m, n) == SetCursor(Pred(m), Pred(n))

(* ?1049h: takes the alternate screen, blank, with the cursor at home.       *)
EnterAlternate ==
  /\ use_alternate' = TRUE
  /\ buffer' = [buffer EXCEPT ![TRUE] = [r \in Row |-> BlankRow]]
  /\ cursor_row' = 0 /\ cursor_col' = 0
  /\ IF use_alternate
     THEN UNCHANGED history
     ELSE known' = "kept" /\ paper' = NoPaper /\ kept' = buffer[FALSE]
  /\ UNCHANGED <<checked, cols, rows, alive>> /\ UNCHANGED saved_cursor

(* ?1049l                                                                    *)
LeaveAlternate ==
  /\ use_alternate' = FALSE
  /\ UNCHANGED <<checked, cols, rows, alive, buffer>>
  /\ UNCHANGED cursor /\ UNCHANGED saved_cursor /\ UNCHANGED history

-------------------------------------------------------------------------------
(* A sequence that says how far to move the cursor.                          *)
MoveStep ==
  \E dir \in {"A", "B", "C", "D"}, n \in Args :
    CursorMove(dir, n) /\ wild' = (wild \/ IsWild(n))

OtherOutput ==
  /\ \/ \E c \in Char : put_char(c)
     \/ execute
     \/ \E m, n \in Args : CursorPosition(m, n)
     \/ \E n \in Args : clear_display(n % 256) \/ clear_line(n % 256)
     \/ EnterAlternate \/ LeaveAlternate
     \/ save_cursor \/ restore_cursor \/ clear_screen
  /\ UNCHANGED wild

TermNext == alive /\ (MoveStep \/ OtherOutput \/ \E w \in Width, h \in Height : resize(w, h))

TermSpec == TermInit /\ [][TermNext]_termVars

-------------------------------------------------------------------------------
(* The last of the lines that fit, from the top of the screen.               *)
Window(lines) ==
  LET n == Len(lines)
      above == IF n > rows THEN n - rows ELSE 0
  IN  [r \in Row |-> IF above + r + 1 =< n THEN lines[above + r + 1] ELSE BlankRow]

-------------------------------------------------------------------------------
(* The cursor is on the screen, or just behind its last column, and both     *)
(* buffers have the size of the screen, through resizes, screen switches and *)
(* positions saved on a larger screen: no character is lost to the bounds    *)
(* checks of put_char, and new_line finds a row to go to.                    *)
ScreenShape ==
  /\ cursor_row \in Row /\ cursor_col \in 0 .. cols
  /\ buffer \in [BOOLEAN -> [Row -> [Col -> Cell]]]

(* As long as a program only prints, the screen is the end of an endless     *)
(* roll of paper with the cursor where the paper has it, whatever scrolls    *)
(* and wraps on the way; and a program that takes the alternate screen,      *)
(* writes there and leaves it finds the primary one as it was.               *)
ShowsOutput ==
  /\ known = "paper" => /\ buffer[FALSE] = Window(paper.lines)
                        /\ cursor_row = Least(Len(paper.lines), rows) - 1
                        /\ cursor_col = paper.col
  /\ known = "kept" => buffer[FALSE] = kept

(* The emulator never panics, in any build, on panes and cursor movements    *)
(* below 2^14: the narrow arithmetic of move_cursor stays in range.          *)
PanicOnlyWild == ~alive => wild
===============================================================================
