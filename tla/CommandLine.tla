----------------------------- MODULE CommandLine -----------------------------
(***************************************************************************)
(* The keyboard and the command loop of the kernel (NoOSrt/src/io.c,       *)
(* kernel.c): scan() turns scan codes into keys, the loop collects the     *)
(* characters of a line in the buffer `command', Enter splits the line and *)
(* dispatches it, ctrl-C and a dispatched command start a new line, exit   *)
(* and quit go back to the top of main.                                    *)
(*                                                                         *)
(* The user and the keyboard run beside the program: codes wait in the     *)
(* keyboard until the program reads port 0x60, which shows the last code   *)
(* when no other waits.  The user's side keeps what a line is meant to be; *)
(* no action of the program looks at it.                                   *)
(*                                                                         *)
(* A word of one letter stands for a name.  The character that ctos stores *)
(* through an uninitialised pointer is taken to arrive.                    *)
(***************************************************************************)
EXTENDS Integers, SequencesExt

CONSTANTS
  LetterKeys,     \* keys of letters; a letter is named as its key
  Exit,           \* the letter that stands for exit and quit
  BufferSize,     \* sizeof(command)
  PointerSize,    \* sizeof(buff), a char *
  MAX_ARGS,
  MaxCodes,       \* codes the keyboard keeps
  MaxLine         \* characters a user types in a line

VARIABLES
  down,           \* the keys held
  repeating,      \* the key that went down last, until it is let go
  chorded,        \* c has gone down since ctrl did
  codes,          \* codes that wait in the keyboard
  line,           \* what the user has typed since the last line
  lines,          \* lines the user has ended and the program has not read
  port,           \* what port 0x60 shows
  key,            \* the static of scan()
  ctrl_pressed,
  command,        \* the command buffer
  spilled,        \* a character was put behind the end of the buffer
  left            \* what exit has left in the buffer

userVars == <<down, repeating, chorded, line>>
loopVars == <<port, key, ctrl_pressed, command, spilled, left>>
commandVars == <<userVars, codes, lines, loopVars>>

NUL == "NUL"
NoKey == "none"
Ctrl == "ctrl"    \* 0x1d
CKey == "c"       \* 0x2e
Enter == "enter"  \* 0x1c
Shift == "shift"  \* a key that has no character in normalmap
Space == " "

ASSUME CommandAssumption ==
  /\ BufferSize \in Nat \ {0} /\ PointerSize \in 1 .. BufferSize
  /\ MAX_ARGS \in Nat \ {0}
  /\ MaxLine \in Nat /\ MaxCodes \in Nat
  /\ Exit \in LetterKeys
  /\ LetterKeys \cap {NUL, NoKey, Ctrl, CKey, Enter, Shift, Space} = {}

Key == {Ctrl, CKey, Enter, Shift, Space} \cup LetterKeys
normalmap(k) == IF k \in {Ctrl, Enter, Shift} THEN NUL ELSE k

Make(k) == [key |-> k, break |-> FALSE]
Break(k) == [key |-> k, break |-> TRUE]

CommandInit ==
  /\ down = {} /\ repeating = NoKey /\ chorded = FALSE
  /\ codes = <<>> /\ line = <<>> /\ lines = <<>>
  /\ port = Break(Enter)
  /\ key = NoKey
  /\ ctrl_pressed = FALSE
  /\ command = [i \in 0 .. BufferSize - 1 |-> NUL]
  /\ spilled = FALSE /\ left = <<>>

(***************************************************************************)
(* The user and the keyboard.  The key that went down last repeats its     *)
(* code while it is held.  The user lets one key go before the next goes   *)
(* down, and presses ctrl only to press c, once, while it is held.         *)
(***************************************************************************)
Send(code) == Len(codes) < MaxCodes /\ codes' = Append(codes, code)

MayPress(k) ==
  /\ k \notin down
  /\ \/ down = {}
     \/ down = {Ctrl} /\ k = CKey /\ ~ chorded

MayRelease(k) ==
  /\ k \in down
  /\ down # {Ctrl, CKey} \/ k = CKey
  /\ k # Ctrl \/ chorded

\* What the user means by pressing k: ctrl-C begins the line again.
Means(k) ==
  \/ /\ k = Enter
     /\ line' = <<>> /\ lines' = Append(lines, line)
  \/ /\ k = CKey /\ Ctrl \in down
     /\ line' = <<>> /\ UNCHANGED lines
  \/ /\ normalmap(k) # NUL /\ ~ (k = CKey /\ Ctrl \in down)
     /\ Len(line) < MaxLine
     /\ line' = Append(line, normalmap(k)) /\ UNCHANGED lines
  \/ /\ k \in {Ctrl, Shift}
     /\ UNCHANGED <<line, lines>>

Press(k) ==
  /\ MayPress(k)
  /\ Send(Make(k))
  /\ Means(k)
  /\ down' = down \cup {k}
  /\ repeating' = k
  /\ chorded' = (k # Ctrl /\ (chorded \/ (k = CKey /\ Ctrl \in down)))
  /\ UNCHANGED loopVars

Release(k) ==
  /\ MayRelease(k)
  /\ Send(Break(k))
  /\ down' = down \ {k}
  /\ repeating' = IF repeating = k THEN NoKey ELSE repeating
  /\ UNCHANGED <<chorded, line, lines, loopVars>>

Repeat ==
  /\ repeating # NoKey
  /\ Send(Make(repeating))
  /\ UNCHANGED <<userVars, lines, loopVars>>

(***************************************************************************)
(* The buffer                                                              *)
(***************************************************************************)
Cells == 0 .. BufferSize - 1

\* strlen from a place of the buffer on.
StringEnd(m, i) ==
  LET ends == {j \in Cells : i <= j /\ m[j] = NUL}
  IN  IF ends = {} THEN BufferSize ELSE CHOOSE j \in ends : \A k \in ends : j <= k
StringAt(m, i) == [j \in 1 .. StringEnd(m, i) - i |-> m[i + j - 1]]
Text == StringAt(command, 0)

NotCleared == command               \* seeded bug: the buffer is not cleared

\* memset(&buff[0], 0, sizeof(buff)), which clears the size of a pointer.
Cleared == [i \in Cells |-> IF i < PointerSize THEN NUL ELSE command[i]]

\* strcpy(&buff[strlen(buff)], s), where s holds one character or none.
AppendChar(c) ==
  LET n == Len(Text)
  IN  /\ command' = IF c = NUL THEN command
                    ELSE [i \in Cells |-> IF i = n THEN c
                                          ELSE IF i = n + 1 THEN NUL ELSE command[i]]
      /\ spilled' = (spilled \/ (c # NUL /\ n + 1 >= BufferSize))

(***************************************************************************)
(* process_args: an argument begins at the start and behind every space    *)
(* but one that ends the line; the spaces become terminators.              *)
(***************************************************************************)
ArgStarts ==
  {0} \cup {i \in 1 .. Len(Text) - 1 : command[i - 1] = Space}

\* The starts of the first MAX_ARGS arguments, in order.
Starts ==
  LET Before(start) == Cardinality({other \in ArgStarts : other < start})
      count == IF Cardinality(ArgStarts) < MAX_ARGS THEN Cardinality(ArgStarts) ELSE MAX_ARGS
  IN  [n \in 1 .. count |-> CHOOSE start \in ArgStarts : Before(start) = n - 1]

SplitAll ==                         \* seeded bug: only the first space ends an argument
  [i \in Cells |-> IF command[i] = Space /\ (\A j \in 0 .. i - 1 : command[j] # Space)
                   THEN NUL ELSE command[i]]

\* The buffer with a terminator for the first space behind each of these starts.
Split ==
  LET ends == {i \in Cells : command[i] = Space /\ i < Len(Text)}
      cut == {i \in ends : \E a \in Range(Starts) :
                a <= i /\ \A j \in ends : ~ (a <= j /\ j < i)}
  IN  [i \in Cells |-> IF i \in cut THEN NUL ELSE command[i]]

\* largv, as the strings it points at.
Arguments == [a \in 1 .. Len(Starts) |-> StringAt(Split, Starts[a])]

\* The dispatcher compares largv[0] with exit and quit before all other names.
Restarts == Arguments[1] = <<Exit>>

(***************************************************************************)
(* The command loop: one action is one turn of it, with what scan returns. *)
(***************************************************************************)
NextCode == IF codes = <<>> THEN port ELSE Head(codes)

\* The result of scan().
Scanned ==
  IF NextCode.break \/ NextCode.key = key THEN NoKey ELSE NextCode.key

KeepBreak ==                        \* seeded bug: letting a key go does not reset the key
  IF NextCode.break THEN key ELSE NextCode.key
KeyAfter == IF NextCode.break THEN NoKey ELSE NextCode.key

Scan ==
  /\ codes' = IF codes = <<>> THEN codes ELSE Tail(codes)
  /\ port' = NextCode
  /\ key' = KeyAfter
  /\ UNCHANGED userVars

Nothing ==
  /\ Scanned = NoKey
  /\ Scan
  /\ UNCHANGED <<lines, ctrl_pressed, command, spilled, left>>

ControlDown ==
  /\ Scanned = Ctrl
  /\ Scan
  /\ ctrl_pressed' = TRUE
  /\ UNCHANGED <<lines, command, spilled, left>>

ControlC ==
  /\ Scanned = CKey /\ ctrl_pressed
  /\ Scan
  /\ command' = Cleared
  /\ ctrl_pressed' = FALSE /\ left' = <<>>
  /\ UNCHANGED <<lines, spilled>>

\* exit and quit break out to the top of main before the buffer is cleared.
Dispatch ==
  /\ Scanned = Enter
  /\ Scan
  /\ command' = IF Restarts THEN Split ELSE Cleared
  /\ ctrl_pressed' = FALSE
  /\ left' = IF Restarts THEN <<Exit>> ELSE <<>>
  /\ lines' = IF lines = <<>> THEN lines ELSE Tail(lines)
  /\ UNCHANGED spilled

Character ==
  /\ Scanned \notin {NoKey, Ctrl, Enter}
  /\ ~ (Scanned = CKey /\ ctrl_pressed)
  /\ Scan
  /\ AppendChar(normalmap(Scanned))
  /\ ctrl_pressed' = FALSE
  /\ UNCHANGED <<lines, left>>

Loop == Nothing \/ ControlDown \/ ControlC \/ Dispatch \/ Character
User == Repeat \/ \E k \in Key : Press(k) \/ Release(k)

\* The program polls for ever; nobody has to type.
CommandSpec == CommandInit /\ [][Loop \/ User]_commandVars /\ WF_commandVars(Loop)

(***************************************************************************)
(* Properties                                                              *)
(***************************************************************************)
\* The line the program dispatches is the line the user has typed since the last one or
\* since ctrl-C, key by key, however late the program reads the codes, although only
\* some bytes of the buffer are cleared ("process commands, 1 char at a time").  After a
\* restart the name of the command that restarted stands before it.
DispatchesWhatWasTyped ==
  [][Dispatch => lines # <<>> /\ Text = left \o Head(lines)]_commandVars

\* A line, its terminator and what exit leaves fit the buffer.
LinesFit == MaxLine + 1 < BufferSize

\* "explicit buffer for buff to point to": lines that fit the buffer one by one never
\* run over its end.
BufferHolds == ~ spilled

\* Where an argument ends in the line.
EndOf(a) == Starts[a] + Len(Arguments[a])

\* The arguments, read back from the buffer as C strings, are the line without its
\* separators: one begins behind the space that ends the one before, nothing of an earlier
\* line shows behind them, and what is missing is one space at the end or what follows the
\* last of MAX_ARGS arguments.  No argument has a space in it.
ArgumentsAreTheLine ==
  /\ Starts[1] = 0
  /\ \A a \in 1 .. Len(Starts) :
       /\ Arguments[a] = SubSeq(Text, Starts[a] + 1, EndOf(a))
       /\ Space \notin Range(Arguments[a])
       /\ EndOf(a) < Len(Text) => Text[EndOf(a) + 1] = Space
       /\ IF a < Len(Starts) THEN Starts[a + 1] = EndOf(a) + 1
          ELSE a = MAX_ARGS \/ EndOf(a) >= Len(Text) - 1

\* No line that the user has ended waits for ever: again and again none waits, or the
\* loop goes on dispatching them in their order.
LinesAreAnswered == []<>(lines = <<>>) \/ []<><<Dispatch>>_commandVars
=============================================================================
