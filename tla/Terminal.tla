------------------------------ MODULE Terminal -------------------------------
(***************************************************************************)
(* The text terminal (NoOSrt/src/tty.c): terminal_putchar and the scroll,  *)
(* on the memory of the screen and the cells before and behind it.         *)
(*                                                                         *)
(* size_t is an int in the run time (NoOSrt.h), so the column in front of  *)
(* the first is -1 and names the last cell of the row above.               *)
(***************************************************************************)
EXTENDS Integers

CONSTANTS
  VGA_WIDTH, VGA_HEIGHT,
  Char,           \* characters that are shown
  Beyond,         \* what the cells outside the screen show at the start
  Margin,         \* cells before and behind the screen
  MaxOutput       \* characters printed at most

VARIABLES
  terminal_row, terminal_column, terminal_buffer,
  printed,        \* how many characters were printed since terminal_initialize
  paper,          \* how they would stand on an endless roll of paper
  strayed,        \* a character has taken the cursor off the columns (see Strays)
  over            \* the text has run on from the last cell of the screen to the first

\* The last four measure what is printed: terminal_putchar does not read them.
terminalVars == <<terminal_row, terminal_column, terminal_buffer, printed, paper, strayed, over>>

ASSUME TerminalAssumption ==
  /\ VGA_WIDTH \in Nat \ {0, 1} /\ VGA_HEIGHT \in Nat \ {0}
  /\ Margin \in Nat /\ Margin >= VGA_WIDTH /\ MaxOutput \in Nat

\* terminal_putchar acts upon these and shows all others.
Blank == " "
NewLine == "newline"   \* and '\r'
Tab == "tab"
Backspace == "backspace"
TabWidth == 4

ASSUME CharAssumption == Char \cap {NewLine, Tab, Backspace} = {}

Screen == 0 .. VGA_WIDTH * VGA_HEIGHT - 1
Memory == -Margin .. VGA_WIDTH * VGA_HEIGHT + Margin - 1
Index(row, col) == row * VGA_WIDTH + col

(***************************************************************************)
(* The text as it would stand on an endless roll of paper                  *)
(***************************************************************************)
EmptyRoll == [row |-> 0, col |-> 0, marks |-> {}]

\* A mark is a character in a place of the roll; what is not marked is blank.
Erase(marks, row, cols) == {m \in marks : ~ (m.row = row /\ m.col \in cols)}

OnRoll(roll, c) ==
  CASE c = NewLine -> [row |-> roll.row + 1, col |-> 0, marks |-> roll.marks]
    [] c = Tab -> [row |-> roll.row, col |-> roll.col + TabWidth, marks |-> roll.marks]
    [] c = Backspace ->
         [row |-> roll.row, col |-> roll.col - 1,
          marks |-> Erase(roll.marks, roll.row, {roll.col, roll.col - 1})]
    [] OTHER ->
         LET wraps == roll.col + 1 = VGA_WIDTH
         IN  [row |-> IF wraps THEN roll.row + 1 ELSE roll.row,
              col |-> IF wraps THEN 0 ELSE roll.col + 1,
              marks |-> Erase(roll.marks, roll.row, {roll.col})
                          \cup {[row |-> roll.row, col |-> roll.col, char |-> c]}]

\* What stands in a place of the roll, if anything does.
CharactersAt(roll, row, col) == {m.char : m \in {k \in roll.marks : k.row = row /\ k.col = col}}

(***************************************************************************)
(* terminal_initialize and terminal_putchar                                *)
(***************************************************************************)
\* terminal_initialize, which clears the screen.
TerminalInit ==
  /\ terminal_row = 0 /\ terminal_column = 0
  /\ terminal_buffer = [i \in Memory |-> IF i \in Screen THEN Blank ELSE Beyond]
  /\ printed = 0 /\ paper = EmptyRoll /\ strayed = FALSE /\ over = FALSE

\* terminal_putentryat on a given memory.
PutEntryAt(buffer, c, col, row) == [buffer EXCEPT ![Index(row, col)] = c]

ScrollKeepsBottom(buffer) ==        \* seeded bug: the last row is not replaced
  [i \in Memory |-> IF i + VGA_WIDTH \in Screen THEN buffer[i + VGA_WIDTH] ELSE buffer[i]]

\* terminal_scroll: every row takes the one behind it, the last the one behind the screen.
Scroll(buffer) ==
  [i \in Memory |-> IF i \in Screen THEN buffer[i + VGA_WIDTH] ELSE buffer[i]]

OneRowLate == terminal_row = VGA_HEIGHT               \* seeded bug: off by one
AtBottom == terminal_row + 1 = VGA_HEIGHT

PutNewLine ==
  /\ terminal_column' = 0
  /\ IF AtBottom
     THEN /\ terminal_row' = VGA_HEIGHT - 1
          /\ terminal_buffer' = Scroll(terminal_buffer)
     ELSE /\ terminal_row' = terminal_row + 1
          /\ UNCHANGED terminal_buffer

PutTab ==
  /\ terminal_column' = terminal_column + TabWidth
  /\ UNCHANGED <<terminal_row, terminal_buffer>>

PutBackspace ==
  /\ terminal_column' = terminal_column - 1
  /\ terminal_buffer' =
       PutEntryAt(PutEntryAt(terminal_buffer, Blank, terminal_column, terminal_row),
                  Blank, terminal_column - 1, terminal_row)
  /\ UNCHANGED terminal_row

\* Behind the last column the text goes on in the next row, from the last row in the first.
PutPlain(c) ==
  /\ terminal_buffer' = PutEntryAt(terminal_buffer, c, terminal_column, terminal_row)
  /\ IF terminal_column + 1 = VGA_WIDTH
     THEN /\ terminal_column' = 0
          /\ terminal_row' = IF AtBottom THEN 0 ELSE terminal_row + 1
     ELSE /\ terminal_column' = terminal_column + 1
          /\ UNCHANGED terminal_row

\* What the code does not handle: a tab that ends behind the last column and a backspace in
\* the first; and text that runs on from the last cell, over what stands in the first row.
Strays(c) ==
  \/ c = Tab /\ terminal_column + TabWidth >= VGA_WIDTH
  \/ c = Backspace /\ terminal_column = 0
RunsOn(c) == c \in Char /\ AtBottom /\ terminal_column + 1 = VGA_WIDTH

Put(c) ==
  /\ printed < MaxOutput
  /\ Index(terminal_row, terminal_column) - 1 \in Memory
  /\ Index(terminal_row, terminal_column) \in Memory
  /\ printed' = printed + 1
  /\ paper' = OnRoll(paper, c)
  /\ strayed' = (strayed \/ Strays(c))
  /\ over' = (over \/ RunsOn(c))

terminal_putchar ==
  \/ Put(NewLine) /\ PutNewLine
  \/ Put(Tab) /\ PutTab
  \/ Put(Backspace) /\ PutBackspace
  \/ \E c \in Char : Put(c) /\ PutPlain(c)

TerminalSpec == TerminalInit /\ [][terminal_putchar]_terminalVars

(***************************************************************************)
(* Properties                                                              *)
(***************************************************************************)
\* The cursor is in a row of the screen whatever is printed, and in a column of it as
\* long as no tab or backspace takes it off them.
CursorOnScreen ==
  /\ terminal_row \in 0 .. VGA_HEIGHT - 1
  /\ terminal_column \in Int
  /\ ~ strayed => terminal_column \in 0 .. VGA_WIDTH - 1

\* Nothing is written outside the screen as long as the cursor keeps to the columns, however
\* lines wrap, also from the last cell of the screen.
WritesOnScreen ==
  ~ strayed => \A i \in Memory \ Screen : terminal_buffer[i] = Beyond

\* The screen shows the end of everything printed since the start: the rows up to the
\* cursor are the last rows of the text, the rows under it are blank.  A line that wraps at
\* the bottom is not scrolled; from then on the screen shows something else.
ScreenShowsTheEnd ==
  ~ strayed /\ ~ over =>
    \A row \in 0 .. VGA_HEIGHT - 1, col \in 0 .. VGA_WIDTH - 1 :
      LET top == paper.row - terminal_row
          shown == CharactersAt(paper, top + row, col)
      IN  IF shown = {} THEN terminal_buffer[Index(row, col)] = Blank
          ELSE terminal_buffer[Index(row, col)] \in shown

\* What the scroll relies on: the row behind the screen is blank.
BlankBeyond == Beyond = Blank
=============================================================================
