-------------------------------- MODULE Clock --------------------------------
(***************************************************************************)
(* time() of the run time (NoOSrt/src/NoOSrt.c) beside the real-time clock *)
(* it reads, and the kernel that calls it around a program (kernel.c).     *)
(*                                                                         *)
(* The clock goes on between any two reads of a register, for ever.  An    *)
(* attempt to read the time takes less than a minute.  The unit is the     *)
(* second; a day is scaled by the constants.  A variable of time() or of   *)
(* the dispatcher that is not read any more is set to 0.                   *)
(***************************************************************************)
EXTENDS Integers

CONSTANTS
  SecondsPerMinute, MinutesPerHour, HoursPerDay,
  Formats,        \* register B: [hours24 |-> BOOLEAN, binary |-> BOOLEAN]
  FirstTimes,     \* the times of day at which the kernel starts
  MaxAge,         \* seconds an attempt to read the time lasts at most
  MaxElapsed      \* seconds that pass are counted up to here

VARIABLES
  now,            \* seconds since midnight, the time the clock shows
  format,
  caller,         \* what the kernel does: "typing", "start", "running", "end", "now"
  pc,             \* the next read of time(), or "idle"
  sec, min, hrs, cnt,
  start_cycles, duration_cycles,
  age,            \* seconds since the attempt began
  called,         \* seconds since time() was called
  elapsed,        \* seconds since the attempt that gave start_cycles began
  ran             \* seconds the program ran

callVars == <<pc, sec, min, hrs, cnt>>
kernelVars == <<caller, start_cycles, duration_cycles>>
watchVars == <<age, called, elapsed, ran>>
clockVars == <<now, format, callVars, kernelVars, watchVars>>

Hour == SecondsPerMinute * MinutesPerHour
Day == Hour * HoursPerDay
FAILED == 9999999
Tries == 4

\* FAILED is no time of day; what is counted goes further than the tries of a call.
ASSUME ClockAssumption ==
  /\ SecondsPerMinute \in Nat \ {0} /\ MinutesPerHour \in Nat \ {0}
  /\ HoursPerDay \in Nat \ {0} /\ HoursPerDay % 2 = 0
  /\ Day <= FAILED /\ FirstTimes \subseteq 0 .. Day - 1
  /\ MaxAge \in 0 .. SecondsPerMinute - 1
  /\ MaxElapsed \in Tries .. Day

(***************************************************************************)
(* The registers of the clock                                              *)
(***************************************************************************)
Bcd(n) == (n \div 10) * 16 + (n % 10)
Encoded(n) == IF format.binary THEN n ELSE Bcd(n)

\* In 12-hour format the hours go from 1 to half a day, with a bit for the afternoon.
Hours(h) ==
  LET half == HoursPerDay \div 2
  IN  IF format.hours24 THEN Encoded(h)
      ELSE Encoded(((h + half - 1) % half) + 1) + (IF h < half THEN 0 ELSE 128)

sec_register == Encoded(now % SecondsPerMinute)
min_register == Encoded((now \div SecondsPerMinute) % MinutesPerHour)
hrs_register == Hours(now \div Hour)

More(n) == IF n < MaxElapsed THEN n + 1 ELSE n

Tick ==
  /\ pc = "idle" \/ age < MaxAge
  /\ now' = (now + 1) % Day
  /\ age' = IF pc = "idle" THEN age ELSE age + 1
  /\ called' = IF pc = "idle" THEN called ELSE More(called)
  /\ elapsed' = IF caller \in {"running", "end"} THEN More(elapsed) ELSE elapsed
  /\ ran' = IF caller = "running" THEN More(ran) ELSE ran
  /\ UNCHANGED <<format, callVars, kernelVars>>

(***************************************************************************)
(* time(): the registers one by one, then again, and from the start when   *)
(* one has changed                                                         *)
(***************************************************************************)
BeginCall == pc' = "sec" /\ cnt' = 0
Forget == sec' = 0 /\ min' = 0 /\ hrs' = 0 /\ age' = 0 /\ called' = 0

\* do { sec; min; hrs; ...
ReadSec == pc = "sec" /\ sec' = sec_register /\ min' = 0 /\ hrs' = 0 /\ pc' = "min"
ReadMin == pc = "min" /\ min' = min_register /\ pc' = "hrs" /\ UNCHANGED <<sec, hrs>>
ReadHrs == pc = "hrs" /\ hrs' = hrs_register /\ pc' = "sec2" /\ UNCHANGED <<sec, min>>
FirstPass ==
  /\ ReadSec \/ ReadMin \/ ReadHrs
  /\ age' = (IF pc = "sec" THEN 0 ELSE age)
  /\ UNCHANGED <<cnt, called>>

NoSecondRead == FALSE               \* seeded bug: what was read once is good
Changed ==
  \/ pc = "sec2" /\ sec # sec_register
  \/ pc = "min2" /\ min # min_register
  \/ pc = "hrs2" /\ hrs # hrs_register

NotCounted == cnt                   \* seeded bug: an attempt that failed is not counted
OneMore == cnt + 1

\* cnt++; continue, which goes to the condition at the end of the loop.
TryAgain ==
  /\ pc \in {"sec2", "min2", "hrs2"} /\ Changed
  /\ cnt' = OneMore
  /\ pc' = IF OneMore < Tries THEN "sec" ELSE "decode"
  /\ UNCHANGED <<sec, min, hrs, age, called>>

SecondPass ==
  /\ pc \in {"sec2", "min2", "hrs2"} /\ ~ Changed
  /\ pc' = CASE pc = "sec2" -> "min2" [] pc = "min2" -> "hrs2" [] pc = "hrs2" -> "decode"
  /\ UNCHANGED <<sec, min, hrs, cnt, age, called>>

ReadRegisters ==
  /\ FirstPass \/ TryAgain \/ SecondPass
  /\ UNCHANGED <<now, format, kernelVars, elapsed, ran>>

Decoded(b) == (b \div 16) * 10 + (b % 16)

ret ==
  IF format.hours24 /\ cnt < Tries
  THEN Decoded(hrs) * Hour + Decoded(min) * SecondsPerMinute + Decoded(sec)
  ELSE FAILED

(***************************************************************************)
(* The kernel: the time is shown at the start and after every command; the *)
(* dispatcher calls time() on both sides of a program.                     *)
(***************************************************************************)
Call(c) ==
  /\ caller' = c
  /\ BeginCall /\ Forget

\* A program of comd_tab, or a command the dispatcher answers itself.
DispatchProgram ==
  /\ caller = "typing"
  /\ Call("start")
  /\ UNCHANGED <<now, format, start_cycles, duration_cycles, elapsed, ran>>
DispatchOther ==
  /\ caller = "typing"
  /\ Call("now")
  /\ UNCHANGED <<now, format, start_cycles, duration_cycles, elapsed, ran>>

StartReturns ==
  /\ caller = "start" /\ pc = "decode"
  /\ start_cycles' = ret
  /\ caller' = "running" /\ pc' = "idle" /\ cnt' = 0 /\ Forget
  /\ elapsed' = (IF age < MaxElapsed THEN age ELSE MaxElapsed) /\ ran' = 0
  /\ UNCHANGED <<now, format, duration_cycles>>

ProgramReturns ==
  /\ caller = "running"
  /\ Call("end")
  /\ UNCHANGED <<now, format, start_cycles, duration_cycles, elapsed, ran>>

SinceMidnight == ret                \* seeded bug: the time of the start is not taken off
duration == ret - start_cycles

EndReturns ==
  /\ caller = "end" /\ pc = "decode"
  /\ duration_cycles' = duration
  /\ start_cycles' = 0 /\ elapsed' = 0 /\ ran' = 0
  /\ Call("now")
  /\ UNCHANGED <<now, format>>

NowReturns ==
  /\ caller = "now" /\ pc = "decode"
  /\ caller' = "typing" /\ pc' = "idle" /\ cnt' = 0 /\ Forget
  /\ duration_cycles' = 0
  /\ UNCHANGED <<now, format, start_cycles, elapsed, ran>>

Returns == StartReturns \/ EndReturns \/ NowReturns
Cpu == ReadRegisters \/ Returns
Kernel == DispatchProgram \/ DispatchOther \/ ProgramReturns

\* The first prompt, behind the first time shown: that call is as those after a command.
ClockInit ==
  /\ now \in FirstTimes /\ format \in Formats
  /\ caller = "typing"
  /\ pc = "idle" /\ sec = 0 /\ min = 0 /\ hrs = 0 /\ cnt = 0
  /\ start_cycles = 0 /\ duration_cycles = 0
  /\ age = 0 /\ called = 0 /\ elapsed = 0 /\ ran = 0

\* The processor goes on inside a call; nobody has to type and a program may run for ever.
ClockSpec == ClockInit /\ [][Tick \/ Cpu \/ Kernel]_clockVars /\ WF_clockVars(Cpu)

(***************************************************************************)
(* Properties                                                              *)
(***************************************************************************)
\* What a call makes of a time of day.  It takes every clock for one in BCD: the numbers
\* of one in binary are decoded all the same.
Answered(time) ==
  IF format.binary
  THEN Decoded(time \div Hour) * Hour
         + Decoded((time \div SecondsPerMinute) % MinutesPerHour) * SecondsPerMinute
         + Decoded(time % SecondsPerMinute)
  ELSE time

TimeWasShown ==
  ret # FAILED => \E a \in 0 .. age : ret = Answered((now - a) % Day)
FailsOnlyOnChanges ==
  ret = FAILED /\ format.hours24 => called >= Tries

\* "Read twice and compare": a call that answers, answers a time that the clock showed
\* during its last attempt, wherever the seconds passed between its reads: that time from a
\* clock in BCD, and from one in binary what its numbers read as in BCD.  "Format we know
\* and good data": in 24-hour format a call fails only after the clock has gone on in each
\* of its attempts.
AnswersAreTrue == pc = "decode" => TimeWasShown /\ FailsOnlyOnChanges

\* "CPU duration secs": on a clock in BCD the number printed lies between the time the program ran and the
\* time from the first call to the second, when both calls answer; over midnight it is a
\* day short.
DurationIsElapsed ==
  [][EndReturns /\ ~ format.binary /\ FAILED \notin {ret, start_cycles} /\ elapsed < MaxElapsed =>
       duration_cycles' % Day \in ran .. elapsed]_clockVars

\* A call of time() returns although the clock goes on: it gives up in the end.
EveryCallReturns == pc = "sec" ~> pc = "decode"
=============================================================================
