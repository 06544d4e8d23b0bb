------------------------------ MODULE MCRuntime ------------------------------
(***************************************************************************)
(* Small instances of the parts of the run time that the kernel starts and *)
(* its programs use: the clock, the memory and the screen.  They share no  *)
(* state, so that a behaviour in which one of them is used shows all it    *)
(* can do.                                                                 *)
(***************************************************************************)
EXTENDS Clock, Malloc, Terminal

\* How a BIOS leaves register B, and how else it can be set.
Bcd24 == [hours24 |-> TRUE, binary |-> FALSE]
MCFormats == {Bcd24, [Bcd24 EXCEPT !.hours24 = FALSE], [Bcd24 EXCEPT !.binary = TRUE]}
ASSUME ScrollAssumption == BlankBeyond

\* The whole array, none of it, one byte more, negative sizes and the largest that
\* malloctst accepts.
MCSizes == {-32, -8, -1, 0, 1, 3, 5, 8, 9, 10, 31}

VARIABLE used     \* "clock", "malloc" or "terminal"

runtimeVars == <<clockVars, mallocVars, terminalVars, used>>

RuntimeInit ==
  /\ ClockInit /\ MallocInit /\ TerminalInit
  /\ used \in {"clock", "malloc", "terminal"}
  /\ used # "clock" => now = 0 /\ format = Bcd24

\* The time is shown at any time of day; programs are started in the last second of an hour,
\* that before midnight among them.
AtAnHoursEnd == now % Hour = Hour - 1
UseClock == used = "clock" /\ (Tick \/ Cpu \/ Kernel) /\ (DispatchProgram => AtAnHoursEnd)
UseMalloc == used = "malloc" /\ MallocNext
UseTerminal == used = "terminal" /\ terminal_putchar

RuntimeNext ==
  \/ UseClock /\ UNCHANGED <<mallocVars, terminalVars, used>>
  \/ UseMalloc /\ UNCHANGED <<clockVars, terminalVars, used>>
  \/ UseTerminal /\ UNCHANGED <<clockVars, mallocVars, used>>

\* The processor goes on inside time().
RuntimeSpec ==
  /\ RuntimeInit /\ [][RuntimeNext]_runtimeVars
  /\ WF_clockVars(used = "clock" /\ Cpu)
=============================================================================
