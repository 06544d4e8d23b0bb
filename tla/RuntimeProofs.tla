--------------------------- MODULE RuntimeProofs ----------------------------
(****************************************************************************)
(* CommandLine, Clock, Malloc and Terminal: the properties of what is        *)
(* around the programs at run time, for every keyboard and line, clock,      *)
(* array of memory and size of screen.                                       *)
(****************************************************************************)
EXTENDS CommandLine, Clock, Malloc, Terminal, FiniteSetTheorems, WellFoundedInduction, TLAPS

(***************************************************************************)
(* CommandLine: the buffer                                                 *)
(***************************************************************************)
\* What can stand in a line, and the lines a user types.
Letter == {CKey, Space} \cup LetterKeys
Line == {l \in Seq(Letter) : Len(l) <= MaxLine}

\* The buffer m holds the string t from its start.
Holds(m, t) ==
  /\ Len(t) < BufferSize
  /\ \A k \in 1 .. Len(t) : m[k - 1] = t[k]
  /\ m[Len(t)] = NUL

LEMMA NulEnds == NUL \notin Letter /\ Space \in Letter /\ Exit \in Letter /\ Exit # Space
BY CommandAssumption DEF Letter, NUL, CKey, Space, NoKey, Ctrl, Enter, Shift

\* No key is another.
LEMMA KeysDiffer ==
  /\ {Ctrl, CKey, Enter, Shift, Space} \subseteq Key /\ NoKey \notin Key /\ NUL \notin Key
  /\ Ctrl \notin {CKey, Enter, Shift, Space} /\ CKey \notin {Enter, Shift, Space}
  /\ Enter \notin {Shift, Space} /\ Shift # Space
  /\ \A k \in Key : normalmap(k) \in Letter \cup {NUL}
  /\ \A k \in Key : normalmap(k) = NUL <=> k \in {Ctrl, Enter, Shift}
BY CommandAssumption DEF Letter, Key, normalmap, NUL, CKey, Space, NoKey, Ctrl, Enter, Shift

\* strlen finds the string that a buffer holds.
LEMMA HeldString ==
  ASSUME NEW m, NEW t \in Seq(Letter), Holds(m, t)
  PROVE  StringEnd(m, 0) = Len(t) /\ StringAt(m, 0) = t
<1> DEFINE ends == {j \in Cells : 0 <= j /\ m[j] = NUL}
<1>1. Len(t) \in Nat /\ BufferSize \in Nat /\ t = [k \in 1 .. Len(t) |-> t[k]]
  BY CommandAssumption
<1>2. Len(t) \in ends
  BY <1>1 DEF Holds, Cells
<1>3. ASSUME NEW k \in ends PROVE Len(t) <= k
  <2> SUFFICES ASSUME k < Len(t) PROVE FALSE
    BY <1>1 DEF Cells
  <2>0. k \in Nat
    BY <1>1 DEF Cells
  <2>1. k + 1 \in 1 .. Len(t) /\ k + 1 - 1 = k
    BY <1>1 DEF Cells
  <2>2. t[k + 1] = NUL
    <3>1. \A j \in 1 .. Len(t) : m[j - 1] = t[j]
      BY DEF Holds
    <3>2. m[k] = NUL
      OBVIOUS
    <3> QED BY <2>0, <2>1, <3>1, <3>2
  <2>3. t[k + 1] \in Letter
    BY <2>1
  <2> QED BY <2>2, <2>3, NulEnds
<1>4. (CHOOSE j \in ends : \A k \in ends : j <= k) = Len(t)
  <2>1. ASSUME NEW j \in ends, \A k \in ends : j <= k PROVE j = Len(t)
    <3>1. j <= Len(t) /\ Len(t) <= j /\ j \in Int
      BY <1>2, <1>3, <2>1 DEF Cells
    <3> QED BY <1>1, <3>1
  <2> QED BY <1>2, <1>3, <2>1
<1>5. StringEnd(m, 0) = Len(t)
  BY <1>2, <1>4 DEF StringEnd
<1>6. StringAt(m, 0) = [j \in 1 .. Len(t) |-> m[j - 1]]
  BY <1>1, <1>5 DEF StringAt
<1>7. \A j \in 1 .. Len(t) : m[j - 1] = t[j]
  BY DEF Holds
<1> QED BY <1>1, <1>5, <1>6, <1>7

\* The first argument begins where the line does.
LEMMA FirstStart == Len(Text) \in Nat => Len(Starts) \in Nat \ {0} /\ Starts[1] = 0 /\ 0 \in Range(Starts)
<1> SUFFICES ASSUME Len(Text) \in Nat
             PROVE  Len(Starts) \in Nat \ {0} /\ Starts[1] = 0 /\ 0 \in Range(Starts)
  OBVIOUS
<1> DEFINE Before(start) == Cardinality({other \in ArgStarts : other < start})
           count == IF Cardinality(ArgStarts) < MAX_ARGS THEN Cardinality(ArgStarts) ELSE MAX_ARGS
<1>1. ArgStarts \subseteq 0 .. Len(Text) /\ 0 \in ArgStarts
  BY DEF ArgStarts
<1>2. IsFiniteSet(ArgStarts)
  <2>1. IsFiniteSet(0 .. Len(Text)) /\ ArgStarts \in SUBSET (0 .. Len(Text))
    BY <1>1, FS_Interval
  <2> QED BY <2>1, FS_Subset
<1>3. Cardinality(ArgStarts) \in Nat /\ Cardinality(ArgStarts) # 0
  BY <1>1, <1>2, FS_CardinalityType, FS_EmptySet
<1>4. count \in Nat \ {0}
  BY <1>3, CommandAssumption
<1>5. Before(0) = 0
  <2>1. \A other \in ArgStarts : ~ (other < 0)
    <3> SUFFICES ASSUME NEW other \in ArgStarts PROVE ~ (other < 0)
      OBVIOUS
    <3>1. other \in 0 .. Len(Text)
      BY <1>1
    <3> QED BY <3>1
  <2>2. {other \in ArgStarts : other < 0} = {}
    BY <2>1
  <2> QED BY <2>2, FS_EmptySet
<1>6. ASSUME NEW start \in ArgStarts, Before(start) = 0 PROVE start = 0
  <2>1. IsFiniteSet({other \in ArgStarts : other < start})
    <3>1. {other \in ArgStarts : other < start} \in SUBSET ArgStarts
      OBVIOUS
    <3> QED BY <1>2, <3>1, FS_Subset
  <2>2. {other \in ArgStarts : other < start} = {}
    BY <1>6, <2>1, FS_EmptySet
  <2>3. ~ (0 < start) /\ start \in Nat
    BY <1>1, <2>2
  <2> QED BY <2>3
<1>7. (CHOOSE start \in ArgStarts : Before(start) = 1 - 1) = 0
  <2> HIDE DEF Before
  <2> QED BY <1>1, <1>5, <1>6
<1>8. Starts = [n \in 1 .. count |-> CHOOSE start \in ArgStarts : Before(start) = n - 1]
  BY DEF Starts
<1> HIDE DEF count, Before
<1>9. DOMAIN Starts = 1 .. count /\ 1 \in 1 .. count /\ Starts[1] = 0
  BY <1>4, <1>7, <1>8
<1>10. Len(Starts) = count
  BY <1>4, <1>8
<1> QED BY <1>4, <1>9, <1>10 DEF Range

\* A set of naturals has a least element.
LEMMA LeastElement ==
  ASSUME NEW S \in SUBSET Nat, S # {}
  PROVE  \E m \in S : \A k \in S : m <= k
<1> DEFINE R == OpToRel(<, Nat)
<1>1. PICK x \in S : \A y \in S : <<y, x>> \notin R
  BY NatLessThanWellFounded, WFMin
<1>2. \A y \in S : y < x => <<y, x>> \in R
  BY DEF OpToRel
<1> HIDE DEF R
<1>3. \A y \in S : ~ (y < x)
  BY <1>1, <1>2
<1> QED BY <1>3

LEMMA StringEndIs ==
  ASSUME NEW m
  PROVE  /\ StringEnd(m, 0) \in Nat
         /\ StringEnd(m, 0) = BufferSize \/ m[StringEnd(m, 0)] = NUL
<1> DEFINE ends == {j \in Cells : 0 <= j /\ m[j] = NUL}
<1>1. CASE ends = {}
  BY <1>1, CommandAssumption DEF StringEnd
<1>2. CASE ends # {}
  <2>1. ends \in SUBSET Nat
    BY CommandAssumption DEF Cells
  <2>2. \E j \in ends : \A k \in ends : j <= k
    <3> HIDE DEF ends
    <3> QED BY <1>2, <2>1, LeastElement
  <2>3. StringEnd(m, 0) \in ends
    BY <1>2, <2>2 DEF StringEnd
  <2> QED BY <2>1, <2>3
<1> QED BY <1>1, <1>2

\* The first word of a line is exit.
ExitFirst(t) == Len(t) > 0 /\ t[1] = Exit /\ (Len(t) = 1 \/ t[2] = Space)

\* The first argument is as long as the first word, and exit stays behind alone.
LEMMA ExitSplits ==
  ASSUME NEW t \in Seq(Letter), Holds(command, t)
  PROVE  /\ Restarts <=> ExitFirst(t)
         /\ ExitFirst(t) => Holds(Split, <<Exit>>)
<1> DEFINE ends == {i \in Cells : command[i] = Space /\ i < Len(Text)}
           cut == {i \in ends : \E a \in Range(Starts) :
                     a <= i /\ \A j \in ends : ~ (a <= j /\ j < i)}
<1>1. Text = t /\ Len(t) \in Nat /\ Len(t) < BufferSize /\ BufferSize \in Nat
  BY HeldString, CommandAssumption DEF Text, Holds
<1>2. Split = [i \in Cells |-> IF i \in cut THEN NUL ELSE command[i]]
  BY DEF Split
<1>3. 0 \in Range(Starts) /\ Starts[1] = 0 /\ Len(Starts) \in Nat \ {0}
  BY <1>1, FirstStart
<1>4. 0 \in Cells /\ (Len(t) > 0 => 1 \in Cells)
  BY <1>1 DEF Cells
<1>5. Restarts <=> StringAt(Split, 0) = <<Exit>>
  <2>1. 1 \in 1 .. Len(Starts)
    BY <1>3
  <2>2. Arguments[1] = StringAt(Split, Starts[1])
    BY <2>1 DEF Arguments
  <2> QED BY <1>3, <2>2 DEF Restarts
<1>6. \A i \in ends : i \in Nat
  BY CommandAssumption DEF Cells
<1>7. Split[0] = IF command[0] = Space /\ 0 < Len(t) THEN NUL ELSE command[0]
  <2>1. 0 \in cut <=> 0 \in ends
    BY <1>3, <1>6
  <2>2. 0 \in ends <=> command[0] = Space /\ 0 < Len(t)
    BY <1>1, <1>4
  <2> HIDE DEF cut, ends
  <2> QED BY <1>2, <1>4, <2>1, <2>2
<1>8. ASSUME Len(t) > 0, command[0] # Space
      PROVE  Split[1] = IF command[1] = Space /\ 1 < Len(t) THEN NUL ELSE command[1]
  <2>1. 0 \notin ends
    BY <1>8
  <2>2. \A j \in ends : ~ (0 <= j /\ j < 1)
    <3> HIDE DEF ends
    <3> QED BY <1>6, <2>1
  <2>3. 1 \in cut <=> 1 \in ends
    BY <1>3, <2>2
  <2>4. 1 \in ends <=> command[1] = Space /\ 1 < Len(t)
    BY <1>1, <1>4, <1>8
  <2> HIDE DEF cut, ends
  <2> QED BY <1>2, <1>4, <1>8, <2>3, <2>4
<1> HIDE DEF cut, ends
<1>9. \A k \in 1 .. Len(t) : command[k - 1] = t[k] /\ t[k] \in Letter /\ t[k] # NUL
  BY NulEnds DEF Holds
<1>10. command[Len(t)] = NUL
  BY DEF Holds
<1>11. /\ Len(t) > 0 => command[0] = t[1] /\ t[1] # NUL
       /\ Len(t) > 1 => command[1] = t[2] /\ t[2] # NUL
  BY <1>1, <1>9
<1>12. ASSUME ExitFirst(t) PROVE Holds(Split, <<Exit>>)
  <2>1. Split[0] = Exit /\ command[0] # Space /\ Len(t) > 0
    BY <1>1, <1>7, <1>11, <1>12, NulEnds DEF ExitFirst
  <2>2. Split[1] = NUL
    <3>1. CASE Len(t) = 1
      <4>1. command[1] = NUL /\ ~ (1 < Len(t))
        BY <1>10, <3>1
      <4> QED BY <1>8, <2>1, <4>1
    <3>2. CASE Len(t) # 1
      <4>1. Len(t) > 1 /\ t[2] = Space
        <5>1. t[2] = Space
          BY <1>12, <3>2 DEF ExitFirst
        <5>2. Len(t) > 1
          <6>1. Len(t) \in Nat /\ Len(t) > 0 /\ Len(t) # 1
            BY <2>1, <3>2
          <6> QED BY <6>1
        <5> QED BY <5>1, <5>2
      <4> QED BY <1>8, <1>11, <2>1, <4>1
    <3> QED BY <3>1, <3>2
  <2>3. 1 < BufferSize
    BY <1>1, <2>1
  <2> QED BY <2>1, <2>2, <2>3 DEF Holds
<1>13. ASSUME ~ ExitFirst(t) PROVE StringAt(Split, 0) # <<Exit>>
  <2>0. DOMAIN <<Exit>> = 1 .. 1 /\ <<Exit>>[1] = Exit
    OBVIOUS
  <2> DEFINE end == StringEnd(Split, 0)
  <2>1. DOMAIN StringAt(Split, 0) = 1 .. end /\ end \in Nat
    BY StringEndIs DEF StringAt
  <2>2. end >= 1 => StringAt(Split, 0)[1] = Split[0]
    <3>1. \A j \in 1 .. end : StringAt(Split, 0)[j] = Split[0 + j - 1]
      BY StringEndIs DEF StringAt
    <3>2. end >= 1 => 1 \in 1 .. end
      BY <2>1
    <3> QED BY <3>1, <3>2
  <2>3. end = BufferSize \/ Split[end] = NUL
    BY StringEndIs
  <2> HIDE DEF end
  <2> SUFFICES ASSUME StringAt(Split, 0) = <<Exit>> PROVE FALSE
    OBVIOUS
  <2>4. end = 1
    <3>1. 1 .. end = 1 .. 1
      BY <2>0, <2>1
    <3>2. end < 1 \/ end \in 1 .. end
      BY <2>1
    <3>3. 1 \in 1 .. 1
      OBVIOUS
    <3>4. end >= 1
      BY <2>1, <3>1, <3>3
    <3> QED BY <2>1, <3>1, <3>2, <3>4
  <2>5. Split[0] = Exit
    BY <2>0, <2>2, <2>4
  <2>6. CASE Len(t) = 0
    BY <1>1, <1>7, <1>10, <2>5, <2>6, NulEnds
  <2>7. CASE Len(t) > 0
    <3>1. t[1] = Exit /\ command[0] # Space
      BY <1>7, <1>11, <2>5, <2>7, NulEnds
    <3>2. Len(t) > 1 /\ t[2] # Space
      BY <1>1, <1>13, <2>7, <3>1 DEF ExitFirst
    <3>3. Split[1] # NUL
      BY <1>8, <1>11, <2>7, <3>1, <3>2
    <3> QED BY <1>1, <2>3, <2>4, <3>2, <3>3
  <2> QED BY <1>1, <2>6, <2>7
<1>14. ASSUME ExitFirst(t) PROVE StringAt(Split, 0) = <<Exit>>
  <2>1. <<Exit>> \in Seq(Letter)
    BY NulEnds
  <2> QED BY <1>12, <1>14, <2>1, HeldString
<1> QED BY <1>5, <1>12, <1>13, <1>14

(***************************************************************************)
(* CommandLine: what waits for the loop, and what it was meant to be       *)
(***************************************************************************)
Code == [key : Key, break : BOOLEAN]

\* The loop between two codes: the key it remembers, ctrl, the string in the buffer, what
\* exit left of it, and the lines it has not dispatched.
LoopState ==
  {a \in [key : Key \cup {NoKey}, ctrl : BOOLEAN, text : Seq(Letter),
          left : {<<>>, <<Exit>>}, lines : Seq(Line)] : Len(a.text) <= MaxLine + 1}

State(k, pressed, text, before, ended) ==
  [key |-> k, ctrl |-> pressed, text |-> text, left |-> before, lines |-> ended]

Read(a, c) == IF c.break \/ c.key = a.key THEN NoKey ELSE c.key
Keeps(c) == IF c.break THEN NoKey ELSE c.key

Entered(a, k) == IF normalmap(k) = NUL THEN a.text ELSE Append(a.text, normalmap(k))
Kept(a) == IF ExitFirst(a.text) THEN <<Exit>> ELSE <<>>

\* One turn of the loop.
After(a, c) ==
  LET k == Read(a, c)
  IN  IF k = NoKey THEN State(Keeps(c), a.ctrl, a.text, a.left, a.lines)
      ELSE IF k = Ctrl THEN State(Keeps(c), TRUE, a.text, a.left, a.lines)
      ELSE IF k = CKey /\ a.ctrl THEN State(Keeps(c), FALSE, <<>>, <<>>, a.lines)
      ELSE IF k = Enter THEN State(Keeps(c), FALSE, Kept(a), Kept(a), Tail(a.lines))
      ELSE State(Keeps(c), FALSE, Entered(a, k), a.left, a.lines)

\* A line is dispatched as it was meant.
Answers(a, c) ==
  Read(a, c) = Enter => a.lines # <<>> /\ a.text = a.left \o Head(a.lines)

\* Once the loop has read all codes it is where the user takes it to be.
Awaits(a, last, pressed, typed) ==
  /\ a.key = last /\ a.ctrl = pressed
  /\ a.text = a.left \o typed
  /\ a.lines = <<>>

\* ctrl has gone down and waits for its c.
Chording == Ctrl \in down /\ ~ chorded

\* The states of the loop from now until it has read all codes.
Chain(s) ==
  /\ s \in [0 .. Len(codes) -> LoopState]
  /\ s[0].key = key /\ s[0].ctrl = ctrl_pressed /\ s[0].left = left /\ s[0].lines = lines
  /\ Holds(command, s[0].text)
  /\ \A i \in 1 .. Len(codes) :
       Answers(s[i - 1], codes[i]) /\ s[i] = After(s[i - 1], codes[i])
  /\ Awaits(s[Len(codes)], repeating, Chording, line)

\* The keys a user holds.
UserInv ==
  /\ down \in SUBSET Key /\ repeating \in Key \cup {NoKey} /\ chorded \in BOOLEAN
  /\ line \in Line /\ lines \in Seq(Line) /\ codes \in Seq(Code)
  /\ repeating # NoKey => repeating \in down /\ down \in {{repeating}, {Ctrl, CKey}}
  /\ down = {Ctrl, CKey} => repeating # Ctrl

\* The port shows the last code, of the key that the loop remembers.
PortInv == port \in Code /\ key = Keeps(port)

\* The inductive invariant.
CommandInv == UserInv /\ PortInv /\ ~ spilled /\ \E s : Chain(s)

\* Lines that end later change nothing before.
Later(a, more) == State(a.key, a.ctrl, a.text, a.left, a.lines \o more)

LEMMA LaterIsState ==
  ASSUME NEW a \in LoopState, NEW more \in Seq(Line)
  PROVE  Later(a, more) \in LoopState
BY DEF Later, State, LoopState

LEMMA AfterLater ==
  ASSUME NEW a \in LoopState, NEW c \in Code, NEW more \in Seq(Line), Answers(a, c)
  PROVE  /\ Answers(Later(a, more), c)
         /\ After(Later(a, more), c) = Later(After(a, c), more)
<1> DEFINE b == Later(a, more)
<1>1. /\ b.key = a.key /\ b.ctrl = a.ctrl /\ b.text = a.text /\ b.left = a.left
      /\ b.lines = a.lines \o more
  BY DEF Later, State
<1>2. Read(b, c) = Read(a, c)
  BY <1>1 DEF Read
<1>3. a.lines \in Seq(Line)
  BY DEF LoopState
<1>4. ASSUME a.lines # <<>>
      PROVE  /\ b.lines # <<>> /\ Head(b.lines) = Head(a.lines)
             /\ Tail(b.lines) = Tail(a.lines) \o more
  <2> HIDE DEF b
  <2> DEFINE l == a.lines
  <2>1. l \in Seq(Line) /\ b.lines = l \o more /\ l # <<>>
    BY <1>1, <1>3, <1>4
  <2> HIDE DEF l
  <2>2. Len(l) \in Nat /\ Len(l) > 0
    BY <2>1
  <2>3. /\ l \o more \in Seq(Line) /\ Len(l \o more) = Len(l) + Len(more)
        /\ \A k \in 1 .. Len(l) + Len(more) :
             (l \o more)[k] = IF k <= Len(l) THEN l[k] ELSE more[k - Len(l)]
    BY <2>1
  <2>4. Head(l \o more) = Head(l)
    BY <2>1, <2>2, <2>3
  <2>5. Tail(l \o more) = Tail(l) \o more
    <3>1. Len(more) \in Nat /\ Tail(l) \in Seq(Line) /\ Len(Tail(l)) = Len(l) - 1
      BY <2>1
    <3> DEFINE u == Tail(l \o more)  v == Tail(l) \o more
    <3>2. u \in Seq(Line) /\ Len(u) = Len(l) + Len(more) - 1 /\ l \o more # <<>>
      BY <2>2, <2>3, <3>1
    <3>3. v \in Seq(Line) /\ Len(v) = Len(l) + Len(more) - 1
      BY <2>1, <3>1
    <3>4. ASSUME NEW k \in 1 .. Len(l) + Len(more) - 1 PROVE u[k] = v[k]
      <4>1. u[k] = (l \o more)[k + 1]
        BY <2>2, <2>3, <3>1, <3>2
      <4>2. v[k] = IF k <= Len(l) - 1 THEN Tail(l)[k] ELSE more[k - (Len(l) - 1)]
        BY <2>1, <2>2, <3>1
      <4>3. k <= Len(l) - 1 => Tail(l)[k] = l[k + 1]
        BY <2>1, <2>2
      <4>4. k + 1 \in 1 .. Len(l) + Len(more) /\ k + 1 - Len(l) = k - (Len(l) - 1)
        BY <2>2, <3>1
      <4>5. (l \o more)[k + 1] = IF k + 1 <= Len(l) THEN l[k + 1] ELSE more[k - (Len(l) - 1)]
        BY <2>3, <4>4
      <4> QED BY <2>2, <4>1, <4>2, <4>3, <4>5
    <3> HIDE DEF u, v
    <3>5. u = v
      BY <3>2, <3>3, <3>4
    <3> QED BY <3>5 DEF u, v
  <2>6. l \o more # <<>>
    BY <2>2, <2>3
  <2> QED BY <2>1, <2>4, <2>5, <2>6 DEF l
<1>5. Answers(b, c)
  BY <1>1, <1>2, <1>4 DEF Answers
<1>6. Entered(b, Read(a, c)) = Entered(a, Read(a, c)) /\ Kept(b) = Kept(a)
  BY <1>1 DEF Entered, Kept
<1>7. Read(a, c) = Enter => Tail(b.lines) = Tail(a.lines) \o more
  BY <1>4 DEF Answers
<1> HIDE DEF b
<1>8. After(b, c) = Later(After(a, c), more)
  BY <1>1, <1>2, <1>6, <1>7 DEF After, Later, State
<1> QED BY <1>5, <1>8 DEF b

\* What the loop does with a code leaves a string of the length of a line.
FitsLine(a, c) ==
  \/ Read(a, c) \in {NoKey, Ctrl, Enter}
  \/ Read(a, c) = CKey /\ a.ctrl
  \/ Len(Entered(a, Read(a, c))) <= MaxLine + 1

LEMMA AfterIsState ==
  ASSUME NEW a \in LoopState, NEW c \in Code, Answers(a, c), FitsLine(a, c)
  PROVE  After(a, c) \in LoopState
<1>1. /\ a.key \in Key \cup {NoKey} /\ a.ctrl \in BOOLEAN /\ a.text \in Seq(Letter)
      /\ a.left \in {<<>>, <<Exit>>} /\ a.lines \in Seq(Line)
      /\ Len(a.text) \in Nat /\ MaxLine \in Nat
  BY CommandAssumption DEF LoopState
<1>2. Keeps(c) \in Key \cup {NoKey} /\ Read(a, c) \in Key \cup {NoKey}
  BY DEF Keeps, Read, Code
<1>3. ASSUME NEW k \in Key \cup {NoKey}, NEW t \in Seq(Letter), Len(t) <= MaxLine + 1,
             NEW l \in {<<>>, <<Exit>>}, NEW ls \in Seq(Line), NEW p \in BOOLEAN
      PROVE  State(k, p, t, l, ls) \in LoopState
  BY <1>3 DEF State, LoopState
<1>4. Len(a.text) <= MaxLine + 1
  BY DEF LoopState
<1>5. Kept(a) \in {<<>>, <<Exit>>} /\ Kept(a) \in Seq(Letter) /\ Len(Kept(a)) <= MaxLine + 1
  BY <1>1, NulEnds DEF Kept
<1>6. <<>> \in Seq(Letter) /\ Len(<<>>) <= MaxLine + 1
  BY <1>1
<1>7. ASSUME NEW k \in Key
      PROVE  Entered(a, k) \in Seq(Letter)
  <2>1. normalmap(k) # NUL => normalmap(k) \in Letter
    BY DEF normalmap, Key, Letter
  <2> QED BY <1>1, <2>1 DEF Entered
<1>8. Read(a, c) = Enter => Tail(a.lines) \in Seq(Line)
  BY <1>1 DEF Answers
<1>9. CASE Read(a, c) \in {NoKey, Ctrl}
  BY <1>1, <1>2, <1>3, <1>4, <1>9 DEF After
<1>10. CASE Read(a, c) = CKey /\ a.ctrl
  BY <1>1, <1>2, <1>3, <1>6, <1>10, KeysDiffer DEF After
<1>11. CASE Read(a, c) = Enter
  BY <1>1, <1>2, <1>3, <1>5, <1>8, <1>11, KeysDiffer DEF After
<1>12. CASE Read(a, c) \notin {NoKey, Ctrl, Enter} /\ ~ (Read(a, c) = CKey /\ a.ctrl)
  <2>1. Read(a, c) \in Key
    BY <1>2, <1>12
  <2>2. Len(Entered(a, Read(a, c))) <= MaxLine + 1
    BY <1>12 DEF FitsLine
  <2> QED BY <1>1, <1>2, <1>3, <1>7, <1>12, <2>1, <2>2 DEF After
<1> QED BY <1>9, <1>10, <1>11, <1>12

\* The user's side: one code more, after which the loop is where the user takes it to be.
LEMMA SendsCode ==
  ASSUME NEW s, Chain(s), codes \in Seq(Code), NEW c \in Code, codes' = Append(codes, c),
         UNCHANGED <<key, ctrl_pressed, left, command>>,
         NEW more \in Seq(Line), lines' = lines \o more,
         Answers(Later(s[Len(codes)], more), c),
         FitsLine(Later(s[Len(codes)], more), c),
         Awaits(After(Later(s[Len(codes)], more), c), repeating', Chording', line')
  PROVE  \E r : Chain(r)'
<1> DEFINE n == Len(codes)
           last == Later(s[n], more)
<1>1. n \in Nat /\ s \in [0 .. n -> LoopState] /\ s[n] \in LoopState
  BY DEF Chain
<1>2. last \in LoopState
  BY <1>1, LaterIsState
<1>3. After(last, c) \in LoopState
  BY <1>2, AfterIsState
<1>4. PICK r : r = [i \in 0 .. n + 1 |-> IF i <= n THEN Later(s[i], more) ELSE After(last, c)]
  OBVIOUS
<1>5. /\ codes' \in Seq(Code) /\ Len(codes') = n + 1 /\ codes'[n + 1] = c
      /\ \A i \in 1 .. n : codes'[i] = codes[i]
  OBVIOUS
<1> HIDE DEF n, last
<1>6. /\ \A i \in 0 .. n : r[i] = Later(s[i], more)
      /\ r[n] = last /\ r[n + 1] = After(last, c)
  BY <1>1, <1>4 DEF last
<1>7. r \in [0 .. n + 1 -> LoopState]
  <2>1. ASSUME NEW i \in 0 .. n PROVE Later(s[i], more) \in LoopState
    BY <1>1, LaterIsState
  <2> QED BY <1>1, <1>3, <1>4, <2>1
<1>8. /\ r[0].key = key' /\ r[0].ctrl = ctrl_pressed' /\ r[0].left = left'
      /\ r[0].lines = lines' /\ Holds(command, s[0].text)' /\ r[0].text = s[0].text
  <2>1. r[0] = Later(s[0], more)
    BY <1>1, <1>6
  <2> QED BY <2>1 DEF Chain, Later, State, Holds
<1>9. ASSUME NEW i \in 1 .. n
      PROVE  Answers(r[i - 1], codes'[i]) /\ r[i] = After(r[i - 1], codes'[i])
  <2>1. i - 1 \in 0 .. n /\ i \in 0 .. n /\ codes[i] \in Code /\ codes'[i] = codes[i]
    BY <1>1, <1>5 DEF n
  <2>2. Answers(s[i - 1], codes[i]) /\ s[i] = After(s[i - 1], codes[i])
    BY DEF Chain, n
  <2>3. /\ Answers(Later(s[i - 1], more), codes[i])
        /\ After(Later(s[i - 1], more), codes[i]) = Later(After(s[i - 1], codes[i]), more)
    <3>1. s[i - 1] \in LoopState
      BY <1>1, <2>1
    <3> QED BY <2>1, <2>2, <3>1, AfterLater
  <2> QED BY <1>6, <2>1, <2>2, <2>3
<1>10. Answers(r[n], c) /\ r[n + 1] = After(r[n], c)
  BY <1>6 DEF last, n
<1>11. ASSUME NEW i \in 1 .. n + 1
       PROVE  Answers(r[i - 1], codes'[i]) /\ r[i] = After(r[i - 1], codes'[i])
  <2>1. CASE i \in 1 .. n
    BY <1>9, <2>1
  <2>2. CASE i = n + 1
    <3>1. i - 1 = n
      BY <1>1, <2>2
    <3> QED BY <1>5, <1>10, <2>2, <3>1
  <2>3. i \in 1 .. n \/ i = n + 1
    BY <1>1
  <2> QED BY <2>1, <2>2, <2>3
<1>12. Awaits(r[n + 1], repeating', Chording', line')
  BY <1>6 DEF last, n
<1>13. Holds(command', r[0].text)
  BY <1>8 DEF Holds
<1>14. Chain(r)'
  BY <1>5, <1>7, <1>8, <1>11, <1>12, <1>13 DEF Chain
<1> QED BY <1>14

\* The side of the loop: the first code has been read and the loop is in the next state.
LEMMA TakesCode ==
  ASSUME NEW s, Chain(s), codes \in Seq(Code), codes # <<>>, codes' = Tail(codes),
         UNCHANGED userVars,
         s[1].key = key', s[1].ctrl = ctrl_pressed', s[1].left = left', s[1].lines = lines',
         Holds(command', s[1].text)
  PROVE  \E r : Chain(r)'
<1> DEFINE n == Len(codes)
<1>1. n \in Nat \ {0} /\ s \in [0 .. n -> LoopState]
  BY DEF Chain
<1>2. PICK r : r = [i \in 0 .. n - 1 |-> s[i + 1]]
  OBVIOUS
<1>3. /\ codes' \in Seq(Code) /\ Len(codes') = n - 1
      /\ \A i \in 1 .. n - 1 : codes'[i] = codes[i + 1]
  OBVIOUS
<1>4. \A i \in 1 .. n : Answers(s[i - 1], codes[i]) /\ s[i] = After(s[i - 1], codes[i])
  BY DEF Chain
<1>5. Awaits(s[n], repeating, Chording, line)
  BY DEF Chain
<1> HIDE DEF n
<1>6. r \in [0 .. n - 1 -> LoopState]
  BY <1>1, <1>2
<1>7. r[0] = s[1]
  BY <1>1, <1>2
<1>8. ASSUME NEW i \in 1 .. n - 1
      PROVE  Answers(r[i - 1], codes'[i]) /\ r[i] = After(r[i - 1], codes'[i])
  <2>1. i \in 0 .. n - 1 /\ i - 1 \in 0 .. n - 1 /\ i + 1 \in 1 .. n /\ i + 1 - 1 = i
        /\ i - 1 + 1 = i
    BY <1>1
  <2>2. r[i - 1] = s[i] /\ r[i] = s[i + 1] /\ codes'[i] = codes[i + 1]
    BY <1>2, <1>3, <2>1
  <2>3. Answers(s[i + 1 - 1], codes[i + 1]) /\ s[i + 1] = After(s[i + 1 - 1], codes[i + 1])
    BY <1>4, <2>1
  <2> QED BY <2>1, <2>2, <2>3
<1>9. Awaits(r[n - 1], repeating', Chording', line')
  <2>1. r[n - 1] = s[n]
    BY <1>1, <1>2
  <2>2. UNCHANGED <<repeating, Chording, line>>
    BY DEF userVars, Chording
  <2> QED BY <1>5, <2>1, <2>2
<1>10. Chain(r)'
  BY <1>3, <1>6, <1>7, <1>8, <1>9 DEF Chain
<1> QED BY <1>10

(***************************************************************************)
(* CommandLine: the steps of the loop                                      *)
(***************************************************************************)
LEMMA NextTurn ==
  ASSUME UserInv, NEW s, Chain(s), codes # <<>>
  PROVE  /\ NextCode \in Code /\ codes # <<>>
         /\ Scanned = Read(s[0], NextCode) /\ KeyAfter = Keeps(NextCode)
         /\ Answers(s[0], NextCode) /\ s[1] = After(s[0], NextCode)
         /\ s[0] \in LoopState /\ s[1] \in LoopState
         /\ s[0] = State(key, ctrl_pressed, Text, left, lines)
         /\ Text \in Seq(Letter) /\ Holds(command, Text)
         /\ Restarts <=> ExitFirst(Text)
         /\ ExitFirst(Text) => Holds(Split, <<Exit>>)
<1>1. codes \in Seq(Code) /\ Len(codes) \in Nat \ {0} /\ codes[1] \in Code
      /\ NextCode = codes[1]
  BY DEF UserInv, NextCode
<1>2. s[0] \in LoopState /\ s[1] \in LoopState
  BY <1>1 DEF Chain
<1>3. Answers(s[1 - 1], codes[1]) /\ s[1] = After(s[1 - 1], codes[1])
  <2>1. 1 \in 1 .. Len(codes)
    BY <1>1
  <2> QED BY <2>1 DEF Chain
<1>4. 1 - 1 = 0
  OBVIOUS
<1>5. s[0].text \in Seq(Letter) /\ Holds(command, s[0].text)
  BY <1>2 DEF LoopState, Chain
<1>6. Text = s[0].text
  BY <1>5, HeldString DEF Text
<1>7. s[0] = State(key, ctrl_pressed, Text, left, lines)
  BY <1>2, <1>6 DEF Chain, State, LoopState
<1>8. Scanned = Read(s[0], NextCode) /\ KeyAfter = Keeps(NextCode)
  BY DEF Chain, Scanned, Read, KeyAfter, Keeps
<1>9. /\ Restarts <=> ExitFirst(Text)
      /\ ExitFirst(Text) => Holds(Split, <<Exit>>)
  BY <1>5, <1>6, ExitSplits
<1> QED BY <1>1, <1>2, <1>3, <1>4, <1>5, <1>6, <1>7, <1>8, <1>9

\* A cleared buffer, though only some bytes of it are, holds no characters.
LEMMA ClearedHolds == Holds(Cleared, <<>>)
BY CommandAssumption DEF Holds, Cleared, Cells

LEMMA AppendHolds ==
  ASSUME NEW t \in Seq(Letter), Holds(command, t), NEW c, Len(t) + 1 < BufferSize
  PROVE  Holds([j \in Cells |-> IF j = Len(t) THEN c
                                ELSE IF j = Len(t) + 1 THEN NUL ELSE command[j]],
               Append(t, c))
<1> DEFINE n == Len(t)
           m == [j \in Cells |-> IF j = n THEN c ELSE IF j = n + 1 THEN NUL ELSE command[j]]
<1>1. n \in Nat /\ n + 1 < BufferSize /\ BufferSize \in Nat
  BY CommandAssumption
<1>2. Len(Append(t, c)) = n + 1 /\ Append(t, c)[n + 1] = c
      /\ \A k \in 1 .. n : Append(t, c)[k] = t[k]
  OBVIOUS
<1>3. \A k \in 1 .. n : command[k - 1] = t[k]
  BY DEF Holds
<1> HIDE DEF n
<1>4. m[n] = c /\ m[n + 1] = NUL
  BY <1>1 DEF Cells
<1>5. \A k \in 1 .. n : m[k - 1] = command[k - 1]
  BY <1>1 DEF Cells
<1> HIDE DEF m
<1>6. ASSUME NEW k \in 1 .. n + 1 PROVE m[k - 1] = Append(t, c)[k]
  <2>1. CASE k \in 1 .. n
    BY <1>2, <1>3, <1>5, <2>1
  <2>2. CASE k = n + 1
    <3>1. k - 1 = n
      BY <1>1, <2>2
    <3> QED BY <1>2, <1>4, <2>2, <3>1
  <2>3. k \in 1 .. n \/ k = n + 1
    BY <1>1
  <2> QED BY <2>1, <2>2, <2>3
<1> QED BY <1>1, <1>2, <1>4, <1>6 DEF Holds, m, n

\* With no code the loop turns without doing anything.
LEMMA IdleInv ==
  ASSUME CommandInv, Loop, codes = <<>>
  PROVE  UNCHANGED commandVars
<1>1. NextCode = port /\ Scanned = NoKey /\ KeyAfter = key
  BY DEF CommandInv, PortInv, Keeps, NextCode, Scanned, KeyAfter
<1>2. Nothing
  BY <1>1, KeysDiffer DEF Loop, ControlDown, ControlC, Dispatch, Character
<1> QED BY <1>1, <1>2 DEF Nothing, Scan, commandVars, userVars, loopVars

LEMMA LoopInv ==
  ASSUME LinesFit, CommandInv, Loop, codes # <<>>
  PROVE  CommandInv'
<1>1. PICK s : Chain(s)
  BY DEF CommandInv
<1> DEFINE a == s[0]  b == s[1]  k == Read(a, NextCode)
<1>2. /\ NextCode \in Code /\ Scanned = k /\ KeyAfter = Keeps(NextCode)
      /\ Answers(a, NextCode) /\ b = After(a, NextCode)
      /\ a \in LoopState /\ b \in LoopState
      /\ a = State(key, ctrl_pressed, Text, left, lines)
      /\ Text \in Seq(Letter) /\ Holds(command, Text)
      /\ Restarts <=> ExitFirst(Text)
      /\ ExitFirst(Text) => Holds(Split, <<Exit>>)
  BY <1>1, NextTurn DEF CommandInv
<1>3. Scan /\ codes' = Tail(codes) /\ port' = NextCode /\ key' = Keeps(NextCode)
      /\ UNCHANGED userVars
  BY <1>2 DEF Loop, Nothing, ControlDown, ControlC, Dispatch, Character, Scan
<1>4. a.key = key /\ a.ctrl = ctrl_pressed /\ a.text = Text /\ a.left = left /\ a.lines = lines
  BY <1>2 DEF State
<1>5. PortInv'
  BY <1>2, <1>3 DEF PortInv
<1> DEFINE Reached ==
      /\ b.key = key' /\ b.ctrl = ctrl_pressed' /\ b.left = left' /\ b.lines = lines'
      /\ Holds(command', b.text) /\ ~ spilled'
<1> HIDE DEF a, b
<1>6. ASSUME Nothing PROVE Reached
  <2>1. b = State(key', ctrl_pressed, Text, left, lines)
    BY <1>2, <1>3, <1>4, <1>6 DEF Nothing, After
  <2> QED BY <1>2, <1>6, <2>1 DEF CommandInv, Nothing, State
<1>7. ASSUME ControlDown PROVE Reached
  <2>1. b = State(key', TRUE, Text, left, lines)
    BY <1>2, <1>3, <1>4, <1>7, KeysDiffer DEF ControlDown, After
  <2>2. ctrl_pressed' = TRUE /\ UNCHANGED <<lines, command, spilled, left>>
    BY <1>7 DEF ControlDown
  <2>3. b.key = key' /\ b.ctrl = TRUE /\ b.text = Text /\ b.left = left /\ b.lines = lines
    BY <2>1 DEF State
  <2>4. Holds(command', b.text) /\ ~ spilled'
    BY <1>2, <2>2, <2>3 DEF CommandInv
  <2> QED BY <2>2, <2>3, <2>4
<1>8. ASSUME ControlC PROVE Reached
  <2>1. b = State(key', FALSE, <<>>, <<>>, lines)
    BY <1>2, <1>3, <1>4, <1>8, KeysDiffer DEF ControlC, After
  <2> QED BY <1>8, <2>1, ClearedHolds DEF CommandInv, ControlC, State
<1>9. ASSUME Dispatch PROVE Reached
  <2>1. b = State(key', FALSE, Kept(a), Kept(a), Tail(lines)) /\ lines # <<>>
    BY <1>2, <1>3, <1>4, <1>9, KeysDiffer DEF Dispatch, After, Answers
  <2>2. Kept(a) = IF Restarts THEN <<Exit>> ELSE <<>>
    BY <1>2, <1>4 DEF Kept
  <2>3. Holds(command', Kept(a)) /\ left' = Kept(a) /\ lines' = Tail(lines)
        /\ ctrl_pressed' = FALSE /\ UNCHANGED spilled
    BY <1>2, <1>9, <2>1, <2>2, ClearedHolds DEF Dispatch
  <2> QED BY <2>1, <2>3 DEF CommandInv, State
<1>10. ASSUME Character PROVE Reached
  <2>1. b = State(key', FALSE, Entered(a, k), left, lines)
    BY <1>2, <1>3, <1>4, <1>10, KeysDiffer DEF Character, After
  <2>2. ctrl_pressed' = FALSE /\ UNCHANGED <<left, lines>> /\ AppendChar(normalmap(k))
    BY <1>2, <1>10 DEF Character
  <2>3. CASE normalmap(k) = NUL
    <3>1. b.key = key' /\ b.ctrl = FALSE /\ b.text = Text /\ b.left = left /\ b.lines = lines
      BY <1>4, <2>1, <2>3 DEF Entered, State
    <3>2. command' = command
      BY <2>2, <2>3 DEF AppendChar
    <3>3. ~ spilled'
      BY <2>2, <2>3 DEF AppendChar, CommandInv
    <3> QED BY <1>2, <2>2, <3>1, <3>2, <3>3
  <2>4. CASE normalmap(k) # NUL
    <3>1. b.text = Append(Text, normalmap(k)) /\ Len(b.text) <= MaxLine + 1
      BY <1>2, <1>4, <2>1, <2>4 DEF Entered, State, LoopState
    <3>2. Len(Text) + 1 < BufferSize /\ Len(Text) \in Nat
      <4>1. Len(b.text) = Len(Text) + 1 /\ Len(Text) \in Nat
        BY <1>2, <3>1
      <4> QED BY <3>1, <4>1, CommandAssumption DEF LinesFit
    <3>3. command' = [j \in Cells |-> IF j = Len(Text) THEN normalmap(k)
                                      ELSE IF j = Len(Text) + 1 THEN NUL ELSE command[j]]
      BY <2>2, <2>4 DEF AppendChar
    <3>4. Holds(command', b.text)
      BY <1>2, <3>1, <3>2, <3>3, AppendHolds
    <3>5. ~ spilled'
      <4>1. spilled' = (spilled \/ (normalmap(k) # NUL /\ Len(Text) + 1 >= BufferSize))
        BY <2>2 DEF AppendChar
      <4>2. ~ (Len(Text) + 1 >= BufferSize)
        BY <3>2, CommandAssumption
      <4> QED BY <4>1, <4>2 DEF CommandInv
    <3> QED BY <2>1, <2>2, <3>4, <3>5 DEF State
  <2> QED BY <2>3, <2>4
<1>11. Reached
  BY <1>6, <1>7, <1>8, <1>9, <1>10 DEF Loop
<1>12. \E r : Chain(r)'
  BY <1>1, <1>3, <1>11, TakesCode DEF CommandInv, UserInv, b
<1>13. UserInv'
  <2>1. lines' \in Seq(Line)
    BY <1>2, <1>11 DEF LoopState
  <2>2. codes' \in Seq(Code)
    BY <1>3 DEF CommandInv, UserInv
  <2> QED BY <1>3, <2>1, <2>2 DEF CommandInv, UserInv, userVars
<1> QED BY <1>5, <1>11, <1>12, <1>13 DEF CommandInv

(***************************************************************************)
(* CommandLine: the steps of the user                                      *)
(***************************************************************************)
\* Where the loop will be when it has read the codes that wait.
LEMMA EndOfChain ==
  ASSUME UserInv, NEW s, Chain(s), NEW more \in Seq(Line)
  PROVE  LET last == Later(s[Len(codes)], more)
         IN  /\ last \in LoopState
             /\ last.key = repeating /\ last.ctrl = Chording /\ last.lines = more
             /\ last.text = last.left \o line /\ last.left \in {<<>>, <<Exit>>}
             /\ last.text \in Seq(Letter) /\ Len(last.text) <= Len(line) + 1
<1> DEFINE e == s[Len(codes)]  last == Later(e, more)
<1>1. e \in LoopState /\ Awaits(e, repeating, Chording, line)
  BY DEF Chain, UserInv
<1>2. e.left \in {<<>>, <<Exit>>} /\ e.text \in Seq(Letter)
  BY <1>1 DEF LoopState
<1>3. last \in LoopState
  BY <1>1, LaterIsState
<1>4. <<>> \o more = more
  OBVIOUS
<1>5. /\ last.key = repeating /\ last.ctrl = Chording /\ last.lines = more
      /\ last.text = e.text /\ last.left = e.left /\ e.text = e.left \o line
  BY <1>1, <1>4 DEF Awaits, Later, State
<1>6. Len(e.text) <= Len(line) + 1
  <2>1. line \in Seq(Letter) /\ <<Exit>> \in Seq(Letter) /\ <<>> \in Seq(Letter)
    BY NulEnds DEF UserInv, Line
  <2>2. Len(<<>> \o line) <= Len(line) + 1 /\ Len(<<Exit>> \o line) <= Len(line) + 1
    BY <2>1
  <2> QED BY <1>2, <1>5, <2>2
<1> QED BY <1>2, <1>3, <1>5, <1>6

LEMMA UserSends ==
  ASSUME CommandInv, NEW c \in Code, Send(c), UNCHANGED loopVars, UserInv',
         NEW more \in Seq(Line), lines' = lines \o more,
         \A a \in LoopState :
           /\ a.key = repeating /\ a.ctrl = Chording /\ a.lines = more
           /\ a.text = a.left \o line /\ a.left \in {<<>>, <<Exit>>}
           /\ a.text \in Seq(Letter) /\ Len(a.text) <= Len(line) + 1
           => Answers(a, c) /\ FitsLine(a, c) /\ Awaits(After(a, c), repeating', Chording', line')
  PROVE  CommandInv'
<1>1. PICK s : Chain(s)
  BY DEF CommandInv
<1>2. \E r : Chain(r)'
  <2>1. codes \in Seq(Code) /\ codes' = Append(codes, c)
    BY DEF CommandInv, UserInv, Send
  <2>2. UNCHANGED <<key, ctrl_pressed, left, command>>
    BY DEF loopVars
  <2> DEFINE last == Later(s[Len(codes)], more)
  <2>3. Answers(last, c) /\ FitsLine(last, c) /\ Awaits(After(last, c), repeating', Chording', line')
    <3> HIDE DEF last
    <3> QED BY <1>1, EndOfChain DEF CommandInv, last
  <2> QED BY <1>1, <2>1, <2>2, <2>3, SendsCode
<1>3. PortInv' /\ ~ spilled'
  BY DEF CommandInv, PortInv, loopVars
<1> QED BY <1>2, <1>3 DEF CommandInv

LEMMA RepeatInv ==
  ASSUME CommandInv, Repeat
  PROVE  CommandInv'
<1> DEFINE c == Make(repeating)
<1>1. repeating \in Key /\ c \in Code /\ c.key = repeating /\ c.break = FALSE
  BY DEF CommandInv, UserInv, Repeat, Make, Code
<1>2. Send(c) /\ UNCHANGED <<userVars, lines, loopVars>>
  BY DEF Repeat
<1>3. lines' = lines \o <<>> /\ <<>> \in Seq(Line)
  BY <1>2 DEF CommandInv, UserInv
<1>4. UserInv'
  BY <1>1, <1>2 DEF CommandInv, UserInv, Send, userVars
<1>5. UNCHANGED <<repeating, Chording, line>>
  BY <1>2 DEF userVars, Chording
<1> HIDE DEF c
<1>6. ASSUME NEW a \in LoopState, a.key = repeating, a.ctrl = Chording, a.lines = <<>>,
             a.text = a.left \o line
      PROVE  Answers(a, c) /\ FitsLine(a, c) /\ Awaits(After(a, c), repeating', Chording', line')
  <2>1. Read(a, c) = NoKey /\ Keeps(c) = repeating
    BY <1>1, <1>6 DEF Read, Keeps
  <2>2. After(a, c) = State(repeating, a.ctrl, a.text, a.left, a.lines)
    BY <2>1 DEF After
  <2>3. Awaits(After(a, c), repeating, Chording, line)
    BY <1>6, <2>2 DEF Awaits, State
  <2> QED BY <1>5, <2>1, <2>3, KeysDiffer DEF Answers, FitsLine
<1> QED BY <1>1, <1>2, <1>3, <1>4, <1>6, UserSends

LEMMA ReleaseInv ==
  ASSUME CommandInv, NEW k \in Key, Release(k)
  PROVE  CommandInv'
<1> DEFINE c == Break(k)
<1>1. c \in Code /\ c.break = TRUE
  BY DEF Break, Code
<1>2. /\ Send(c) /\ MayRelease(k) /\ down' = down \ {k}
      /\ repeating' = IF repeating = k THEN NoKey ELSE repeating
      /\ UNCHANGED <<chorded, line, lines, loopVars>>
  BY DEF Release
<1>3. lines' = lines \o <<>> /\ <<>> \in Seq(Line)
  BY <1>2 DEF CommandInv, UserInv
<1>4. repeating' = NoKey
  <2> SUFFICES ASSUME repeating # k, repeating # NoKey PROVE FALSE
    BY <1>2
  <2>1. repeating \in down /\ down = {Ctrl, CKey} /\ repeating # Ctrl
    BY <1>2 DEF CommandInv, UserInv, MayRelease
  <2> QED BY <1>2, <2>1 DEF MayRelease
<1>5. UserInv'
  BY <1>1, <1>2, <1>4, KeysDiffer DEF CommandInv, UserInv, Send
<1>6. UNCHANGED <<Chording, line>>
  BY <1>2 DEF Chording, MayRelease
<1> HIDE DEF c
<1>7. ASSUME NEW a \in LoopState, a.key = repeating, a.ctrl = Chording, a.lines = <<>>,
             a.text = a.left \o line
      PROVE  Answers(a, c) /\ FitsLine(a, c) /\ Awaits(After(a, c), repeating', Chording', line')
  <2>1. Read(a, c) = NoKey /\ Keeps(c) = NoKey
    BY <1>1 DEF Read, Keeps
  <2>2. After(a, c) = State(NoKey, a.ctrl, a.text, a.left, a.lines)
    BY <2>1 DEF After
  <2>3. Awaits(After(a, c), NoKey, Chording, line)
    BY <1>7, <2>2 DEF Awaits, State
  <2> QED BY <1>4, <1>6, <2>1, <2>3, KeysDiffer DEF Answers, FitsLine
<1> QED BY <1>1, <1>2, <1>3, <1>5, <1>7, UserSends

LEMMA AppendBehind ==
  ASSUME NEW s \in Seq(Letter), NEW t \in Seq(Letter), NEW c \in Letter
  PROVE  Append(s \o t, c) = s \o Append(t, c)
<1> DEFINE u == Append(s \o t, c)  v == s \o Append(t, c)  n == Len(s)  m == Len(t)
<1>1. n \in Nat /\ m \in Nat
  OBVIOUS
<1>2. /\ s \o t \in Seq(Letter) /\ Len(s \o t) = n + m
      /\ \A k \in 1 .. n + m : (s \o t)[k] = IF k <= n THEN s[k] ELSE t[k - n]
  OBVIOUS
<1>3. /\ Append(t, c) \in Seq(Letter) /\ Len(Append(t, c)) = m + 1
      /\ \A k \in 1 .. m + 1 : Append(t, c)[k] = IF k <= m THEN t[k] ELSE c
  OBVIOUS
<1>4. /\ u \in Seq(Letter) /\ Len(u) = n + m + 1
      /\ \A k \in 1 .. n + m + 1 : u[k] = IF k <= n + m THEN (s \o t)[k] ELSE c
  BY <1>1, <1>2
<1>5. /\ v \in Seq(Letter) /\ Len(v) = n + m + 1
      /\ \A k \in 1 .. n + m + 1 : v[k] = IF k <= n THEN s[k] ELSE Append(t, c)[k - n]
  BY <1>1, <1>3
<1> HIDE DEF u, v, n, m
<1>6. ASSUME NEW k \in 1 .. n + m + 1 PROVE u[k] = v[k]
  <2>1. CASE k <= n
    <3>1. k \in 1 .. n + m /\ k \in 1 .. n + m + 1 /\ k <= n + m
      BY <1>1, <2>1
    <3>2. u[k] = (s \o t)[k]
      BY <1>4, <3>1
    <3>3. (s \o t)[k] = s[k]
      BY <1>2, <2>1, <3>1
    <3> QED BY <1>5, <2>1, <3>1, <3>2, <3>3
  <2>2. CASE n < k /\ k <= n + m
    <3>1. k - n \in 1 .. m + 1 /\ k - n <= m /\ k \in 1 .. n + m /\ ~ (k <= n)
      BY <1>1, <2>2
    <3>2. u[k] = (s \o t)[k]
      BY <1>4, <2>2
    <3>3. (s \o t)[k] = t[k - n]
      BY <1>2, <3>1
    <3>4. v[k] = Append(t, c)[k - n]
      BY <1>5, <3>1
    <3>5. Append(t, c)[k - n] = t[k - n]
      BY <1>3, <3>1
    <3> QED BY <3>2, <3>3, <3>4, <3>5
  <2>3. CASE k = n + m + 1
    <3>1. k - n = m + 1 /\ ~ (k <= n) /\ ~ (k <= n + m) /\ m + 1 \in 1 .. m + 1 /\ ~ (m + 1 <= m)
      BY <1>1, <2>3
    <3> QED BY <1>3, <1>4, <1>5, <2>3, <3>1
  <2> QED BY <1>1, <2>1, <2>2, <2>3
<1>7. u = v
  BY <1>4, <1>5, <1>6
<1> QED BY <1>7 DEF u, v

LEMMA PressInv ==
  ASSUME CommandInv, NEW k \in Key, Press(k)
  PROVE  CommandInv'
<1> DEFINE c == Make(k)
           more == IF k = Enter THEN <<line>> ELSE <<>>
           Meant(a) == Answers(a, c) /\ FitsLine(a, c) /\ Awaits(After(a, c), k, Chording', line')
<1>1. c \in Code /\ c.key = k /\ c.break = FALSE
  BY DEF Make, Code
<1>2. /\ MayPress(k) /\ Send(c) /\ Means(k) /\ down' = down \cup {k} /\ repeating' = k
      /\ chorded' = (k # Ctrl /\ (chorded \/ (k = CKey /\ Ctrl \in down)))
      /\ UNCHANGED loopVars
  BY DEF Press
<1>3. /\ line \in Line /\ line \in Seq(Letter) /\ Len(line) <= MaxLine /\ lines \in Seq(Line)
      /\ Len(line) \in Nat /\ MaxLine \in Nat /\ chorded \in BOOLEAN
  BY CommandAssumption DEF CommandInv, UserInv, Line
<1>4. k # repeating
  BY <1>2, KeysDiffer DEF CommandInv, UserInv, MayPress
<1>5. down = {} \/ (down = {Ctrl} /\ k = CKey /\ ~ chorded)
  BY <1>2 DEF MayPress
<1>6. /\ k = Enter => line' = <<>> /\ lines' = Append(lines, line)
      /\ k # Enter => lines' = lines
      /\ k \in {Ctrl, Shift} => line' = line
      /\ k = CKey /\ Ctrl \in down => line' = <<>>
      /\ k \notin {Enter, Ctrl, Shift} /\ ~ (k = CKey /\ Ctrl \in down) =>
           Len(line) < MaxLine /\ line' = Append(line, k)
  BY <1>2, KeysDiffer DEF Means, normalmap
<1>7. more \in Seq(Line) /\ lines' = lines \o more
  BY <1>3, <1>6
<1>8. line' \in Line
  <2>1. <<>> \in Line
    BY <1>3 DEF Line
  <2>2. k \notin {Enter, Ctrl, Shift} => k \in Letter
    BY DEF Key, Letter
  <2>3. k \in Letter /\ Len(line) < MaxLine => Append(line, k) \in Line
    BY <1>3 DEF Line
  <2> QED BY <1>3, <1>6, <2>1, <2>2, <2>3
<1>9. UserInv'
  <2>1. lines' \in Seq(Line)
    BY <1>3, <1>7
  <2>2. codes' \in Seq(Code)
    BY <1>1, <1>2 DEF CommandInv, UserInv, Send
  <2>3. down' \in SUBSET Key /\ repeating' \in Key /\ repeating' \in down'
    BY <1>2 DEF CommandInv, UserInv
  <2>4. down' \in {{repeating'}, {Ctrl, CKey}}
    BY <1>2, <1>5
  <2>5. down' = {Ctrl, CKey} => repeating' # Ctrl
    BY <1>2, <1>5, KeysDiffer
  <2>6. chorded' \in BOOLEAN
    BY <1>2
  <2> QED BY <1>8, <2>1, <2>2, <2>3, <2>4, <2>5, <2>6 DEF UserInv
<1>10. /\ Chording' <=> k = Ctrl
       /\ Chording <=> Ctrl \in down
       /\ Ctrl \in down => k = CKey
  BY <1>2, <1>5, KeysDiffer DEF Chording
<1>11. Chording \in BOOLEAN /\ Chording' \in BOOLEAN
  BY DEF Chording
<1> HIDE DEF c
<1>12. ASSUME NEW a \in LoopState, a.key = repeating, a.ctrl = Chording, a.lines = more,
              a.text = a.left \o line, a.left \in {<<>>, <<Exit>>}, a.text \in Seq(Letter),
              Len(a.text) <= Len(line) + 1
       PROVE  Meant(a)
  <2>1. Read(a, c) = k /\ Keeps(c) = k
    BY <1>1, <1>4, <1>12 DEF Read, Keeps
  <2>2. a.left \in Seq(Letter) /\ Len(a.text) \in Nat
    BY <1>12, NulEnds
  <2>3. CASE k = Enter
    <3>1. a.lines = <<line>> /\ Head(<<line>>) = line /\ Tail(<<line>>) = <<>>
      BY <1>12, <2>3
    <3>2. Answers(a, c) /\ FitsLine(a, c)
      BY <1>12, <2>1, <2>3, <3>1 DEF Answers, FitsLine
    <3>3. After(a, c) = State(Enter, FALSE, Kept(a), Kept(a), <<>>)
      BY <2>1, <2>3, <3>1, KeysDiffer DEF After
    <3>4. Kept(a) \o <<>> = Kept(a)
      BY NulEnds DEF Kept
    <3>5. Chording' = FALSE /\ line' = <<>>
      BY <1>6, <1>10, <1>11, <2>3, KeysDiffer
    <3>6. Awaits(State(Enter, FALSE, Kept(a), Kept(a), <<>>), Enter, FALSE, <<>>)
      BY <3>4 DEF Awaits, State
    <3> QED BY <2>3, <3>2, <3>3, <3>5, <3>6
  <2>4. CASE k = Ctrl
    <3>1. Answers(a, c) /\ FitsLine(a, c)
      BY <2>1, <2>4, KeysDiffer DEF Answers, FitsLine
    <3>2. After(a, c) = State(Ctrl, TRUE, a.text, a.left, a.lines) /\ a.lines = <<>>
      BY <1>12, <2>1, <2>4, KeysDiffer DEF After
    <3>3. Chording' = TRUE /\ line' = line
      BY <1>6, <1>10, <1>11, <2>4
    <3>4. Awaits(State(Ctrl, TRUE, a.text, a.left, a.lines), Ctrl, TRUE, line)
      BY <1>12, <3>2 DEF Awaits, State
    <3> QED BY <2>4, <3>1, <3>2, <3>3, <3>4
  <2>5. CASE k = CKey /\ Ctrl \in down
    <3>1. a.ctrl
      BY <1>10, <1>12, <2>5
    <3>2. Answers(a, c) /\ FitsLine(a, c)
      BY <2>1, <2>5, <3>1, KeysDiffer DEF Answers, FitsLine
    <3>3. After(a, c) = State(CKey, FALSE, <<>>, <<>>, a.lines) /\ a.lines = <<>>
      BY <1>12, <2>1, <2>5, <3>1, KeysDiffer DEF After
    <3>4. Chording' = FALSE /\ line' = <<>>
      BY <1>6, <1>10, <1>11, <2>5, KeysDiffer
    <3>5. Awaits(State(CKey, FALSE, <<>>, <<>>, <<>>), CKey, FALSE, <<>>)
      BY DEF Awaits, State
    <3> QED BY <2>5, <3>2, <3>3, <3>4, <3>5
  <2>6. CASE k \notin {Enter, Ctrl} /\ ~ (k = CKey /\ Ctrl \in down)
    <3>1. ~ (k = CKey /\ a.ctrl)
      BY <1>10, <1>12, <2>6
    <3>2. Answers(a, c)
      BY <2>1, <2>6 DEF Answers
    <3>3. k # NoKey
      BY KeysDiffer
    <3>4. After(a, c) = State(k, FALSE, Entered(a, k), a.left, <<>>)
      BY <1>12, <2>1, <2>6, <3>1, <3>3 DEF After
    <3>5. Entered(a, k) = a.left \o line' /\ Len(Entered(a, k)) <= MaxLine + 1
      <4>1. CASE k = Shift
        BY <1>3, <1>6, <1>12, <2>2, <4>1, KeysDiffer DEF Entered
      <4>2. CASE k # Shift
        <5>1. line' = Append(line, k) /\ Len(line) < MaxLine
          BY <1>6, <2>6, <4>2
        <5>2. normalmap(k) = k /\ k # NUL
          BY <2>6, <4>2, KeysDiffer DEF normalmap
        <5>3. Entered(a, k) = Append(a.left \o line, k)
          BY <1>12, <5>2 DEF Entered
        <5>4. k \in Letter
          BY <2>6, <4>2 DEF Key, Letter
        <5>5. Append(a.left \o line, k) = a.left \o Append(line, k)
          <6>1. line \in Seq(Letter) /\ a.left \in Seq(Letter)
            BY <1>3, <2>2
          <6> QED BY <5>4, <6>1, AppendBehind
        <5>6. Len(Append(a.text, k)) = Len(a.text) + 1
          BY <1>12
        <5>7. Entered(a, k) = a.left \o line'
          BY <5>1, <5>3, <5>5
        <5>8. Entered(a, k) = Append(a.text, k)
          BY <1>12, <5>3
        <5>9. Len(a.text) + 1 <= MaxLine + 1
          BY <1>3, <1>12, <2>2, <5>1
        <5> QED BY <5>6, <5>7, <5>8, <5>9
      <4> QED BY <4>1, <4>2
    <3>6. FitsLine(a, c)
      BY <2>1, <3>5 DEF FitsLine
    <3>7. Chording' = FALSE
      BY <1>10, <1>11, <2>6
    <3>8. Awaits(State(k, FALSE, Entered(a, k), a.left, <<>>), k, FALSE, line')
      BY <3>5 DEF Awaits, State
    <3> QED BY <3>2, <3>4, <3>6, <3>7, <3>8
  <2> QED BY <2>3, <2>4, <2>5, <2>6
<1>13. PICK ended : ended = more
  OBVIOUS
<1> QED BY <1>1, <1>2, <1>7, <1>9, <1>12, <1>13, UserSends

(***************************************************************************)
(* CommandLine: theorems                                                   *)
(***************************************************************************)
LEMMA CommandInitInv == CommandInit => CommandInv
<1> SUFFICES ASSUME CommandInit PROVE CommandInv
  OBVIOUS
<1> DEFINE a == State(NoKey, FALSE, <<>>, <<>>, <<>>)
<1>1. a \in LoopState /\ <<>> \in Line
  BY CommandAssumption DEF State, LoopState, Line
<1>2. UserInv
  <2>1. down = {} /\ repeating = NoKey /\ chorded = FALSE
    BY DEF CommandInit
  <2>2. line \in Line /\ lines \in Seq(Line) /\ codes \in Seq(Code)
    BY <1>1 DEF CommandInit
  <2> QED BY <2>1, <2>2 DEF UserInv
<1>3. PortInv /\ ~ spilled
  BY KeysDiffer DEF CommandInit, PortInv, Break, Keeps, Code
<1>4. Holds(command, <<>>)
  BY CommandAssumption DEF CommandInit, Holds
<1>5. Awaits(a, repeating, Chording, line)
  <2>1. Chording = FALSE /\ repeating = NoKey /\ line = <<>> /\ <<>> \o <<>> = <<>>
    BY DEF CommandInit, Chording
  <2> QED BY <2>1 DEF Awaits, State
<1>6. PICK s : s = [j \in 0 .. 0 |-> a]
  OBVIOUS
<1>7. Len(codes) = 0 /\ s[0] = a /\ s \in [0 .. 0 -> LoopState]
  BY <1>1, <1>6 DEF CommandInit
<1>8. /\ a.key = key /\ a.ctrl = ctrl_pressed /\ a.left = left /\ a.lines = lines
      /\ a.text = <<>>
  BY DEF CommandInit, State
<1> HIDE DEF a
<1>9. Chain(s)
  BY <1>4, <1>5, <1>7, <1>8 DEF Chain
<1> QED BY <1>2, <1>3, <1>9 DEF CommandInv

LEMMA CommandInvStep ==
  ASSUME LinesFit, CommandInv, [Loop \/ User]_commandVars
  PROVE  CommandInv'
<1>1. CASE Loop
  <2>1. CASE codes = <<>>
    <3>1. UNCHANGED commandVars
      BY <1>1, <2>1, IdleInv
    <3> QED BY <3>1 DEF commandVars, userVars, loopVars, CommandInv, UserInv, PortInv, Chain, Chording
  <2> QED BY <1>1, <2>1, LoopInv
<1>2. CASE User
  BY <1>2, RepeatInv, PressInv, ReleaseInv DEF User
<1>3. CASE UNCHANGED commandVars
  BY <1>3 DEF commandVars, userVars, loopVars, CommandInv, UserInv, PortInv, Chain, Chording
<1> QED BY <1>1, <1>2, <1>3

LEMMA CommandInvariant == ASSUME LinesFit PROVE CommandSpec => []CommandInv
<1>1. CommandInv /\ [Loop \/ User]_commandVars => CommandInv'
  BY CommandInvStep
<1> QED BY <1>1, CommandInitInv, PTL DEF CommandSpec

\* However late the program reads the codes, whatever keys repeat and whatever exit has left
\* in the buffer: a line that is dispatched is the line that the user has typed.
THEOREM LinesAreAsTyped == ASSUME LinesFit PROVE CommandSpec => DispatchesWhatWasTyped
<1>1. ASSUME CommandInv, Dispatch PROVE lines # <<>> /\ Text = left \o Head(lines)
  <2>1. codes # <<>>
    BY <1>1, KeysDiffer DEF Dispatch, Scanned, NextCode, CommandInv, PortInv, Keeps
  <2>2. PICK s : Chain(s)
    BY <1>1 DEF CommandInv
  <2>3. /\ Scanned = Read(s[0], NextCode) /\ Answers(s[0], NextCode)
        /\ s[0] = State(key, ctrl_pressed, Text, left, lines)
    BY <1>1, <2>1, <2>2, NextTurn DEF CommandInv
  <2>4. s[0].lines = lines /\ s[0].text = Text /\ s[0].left = left
    BY <2>3 DEF State
  <2> QED BY <1>1, <2>3, <2>4 DEF Answers, Dispatch
<1>2. CommandInv => [Dispatch => lines # <<>> /\ Text = left \o Head(lines)]_commandVars
  BY <1>1
<1> QED BY <1>2, CommandInvariant, PTL DEF CommandSpec, DispatchesWhatWasTyped

\* No sequence of lines that fit the buffer one by one runs over its end.
THEOREM LinesStayInBuffer == ASSUME LinesFit PROVE CommandSpec => []BufferHolds
<1>1. CommandInv => BufferHolds
  BY DEF CommandInv, BufferHolds
<1> QED BY <1>1, CommandInvariant, PTL

(***************************************************************************)
(* CommandLine: the arguments                                              *)
(***************************************************************************)
\* How many elements of S are smaller than s.
Rank(S, s) == Cardinality({t \in S : t < s})

\* An element is not among the smaller ones, so that its rank leaves room for itself.
LEMMA RankRoom ==
  ASSUME NEW S \in SUBSET Nat, IsFiniteSet(S), NEW s \in S
  PROVE  /\ Rank(S, s) \in Nat
         /\ IsFiniteSet({t \in S : t < s} \cup {s})
         /\ Cardinality({t \in S : t < s} \cup {s}) = Rank(S, s) + 1
<1> DEFINE B == {t \in S : t < s}
<1>1. B \in SUBSET S /\ s \notin B
  OBVIOUS
<1>2. IsFiniteSet(B)
  BY <1>1, FS_Subset
<1>3. Rank(S, s) = Cardinality(B)
  BY DEF Rank
<1> HIDE DEF B
<1>4. Cardinality(B) \in Nat
  BY <1>2, FS_CardinalityType
<1>5. IsFiniteSet(B \cup {s}) /\ Cardinality(B \cup {s}) = Cardinality(B) + 1
  BY <1>1, <1>2, FS_AddElement
<1> QED BY <1>3, <1>4, <1>5 DEF B

LEMMA RankGrows ==
  ASSUME NEW S \in SUBSET Nat, IsFiniteSet(S), NEW s \in S, NEW t \in S, s < t
  PROVE  Rank(S, s) + 1 <= Rank(S, t)
<1> DEFINE B == {u \in S : u < s} \cup {s}  C == {u \in S : u < t}
<1>1. C \in SUBSET S
  OBVIOUS
<1>2. IsFiniteSet(C)
  BY <1>1, FS_Subset
<1>3. B \in SUBSET C
  <2>1. ASSUME NEW u \in S, u < s PROVE u < t
    <3>1. u \in Nat /\ s \in Nat /\ t \in Nat
      OBVIOUS
    <3> QED BY <2>1, <3>1
  <2> QED BY <2>1
<1>4. Cardinality(B) = Rank(S, s) + 1
  BY RankRoom
<1>5. Cardinality(C) = Rank(S, t)
  BY DEF Rank
<1> HIDE DEF B, C
<1>6. Cardinality(B) <= Cardinality(C)
  BY <1>2, <1>3, FS_Subset
<1> QED BY <1>4, <1>5, <1>6

\* Ranks name elements.
LEMMA RankNames ==
  ASSUME NEW S \in SUBSET Nat, IsFiniteSet(S), NEW s \in S, NEW t \in S, Rank(S, s) = Rank(S, t)
  PROVE  s = t
<1>1. Rank(S, s) \in Nat /\ s \in Nat /\ t \in Nat
  BY RankRoom
<1>2. ~ (s < t)
  BY <1>1, RankGrows
<1>3. ~ (t < s)
  BY <1>1, RankGrows
<1> QED BY <1>1, <1>2, <1>3

LEMMA RankBelow ==
  ASSUME NEW S \in SUBSET Nat, IsFiniteSet(S), NEW s \in S
  PROVE  Rank(S, s) + 1 <= Cardinality(S)
<1> DEFINE B == {u \in S : u < s} \cup {s}
<1>1. B \in SUBSET S
  OBVIOUS
<1>2. Cardinality(B) = Rank(S, s) + 1
  BY RankRoom
<1> HIDE DEF B
<1>3. Cardinality(B) <= Cardinality(S)
  BY <1>1, FS_Subset
<1> QED BY <1>2, <1>3

\* The largest element has the last rank, the next element the next one.
LEMMA RankLast ==
  ASSUME NEW S \in SUBSET Nat, IsFiniteSet(S), NEW s \in S, \A u \in S : u <= s
  PROVE  Cardinality(S) = Rank(S, s) + 1
<1>1. S = {u \in S : u < s} \cup {s}
  <2>1. \A u \in S : u < s \/ u = s
    <3> SUFFICES ASSUME NEW u \in S PROVE u < s \/ u = s
      OBVIOUS
    <3>1. u \in Nat /\ s \in Nat /\ u <= s
      OBVIOUS
    <3> QED BY <3>1
  <2> QED BY <2>1
<1> QED BY <1>1, RankRoom

LEMMA RankNext ==
  ASSUME NEW S \in SUBSET Nat, IsFiniteSet(S), NEW s \in S, NEW t \in S, s < t,
         \A u \in S : s < u => t <= u
  PROVE  Rank(S, t) = Rank(S, s) + 1
<1>1. {u \in S : u < t} = {u \in S : u < s} \cup {s}
  <2>1. ASSUME NEW u \in S PROVE u < t <=> (u < s \/ u = s)
    <3>1. u \in Nat /\ s \in Nat /\ t \in Nat /\ s < t /\ (s < u => t <= u)
      OBVIOUS
    <3> QED BY <3>1
  <2> QED BY <2>1
<1>2. Rank(S, t) = Cardinality({u \in S : u < s} \cup {s})
  BY <1>1 DEF Rank
<1> QED BY <1>2, RankRoom

\* Every rank has its element.
LEMMA RankHas ==
  ASSUME NEW S \in SUBSET Nat, IsFiniteSet(S), NEW k \in Nat, k < Cardinality(S)
  PROVE  \E s \in S : Rank(S, s) = k
<1> DEFINE missing == {j \in Nat : j < Cardinality(S) /\ \A s \in S : Rank(S, s) # j}
<1> SUFFICES ASSUME missing # {} PROVE FALSE
  OBVIOUS
<1>1. Cardinality(S) \in Nat
  BY FS_CardinalityType
<1>2. PICK m \in missing : \A j \in missing : m <= j
  <2>1. missing \in SUBSET Nat
    OBVIOUS
  <2> HIDE DEF missing
  <2> QED BY <2>1, LeastElement
<1>3. m \in Nat /\ m < Cardinality(S) /\ \A s \in S : Rank(S, s) # m
  OBVIOUS
<1>4. S # {}
  BY <1>1, <1>3, FS_EmptySet
<1>5. m # 0
  <2>1. PICK s \in S : \A u \in S : s <= u
    BY <1>4, LeastElement
  <2>2. \A u \in S : ~ (u < s)
    <3> SUFFICES ASSUME NEW u \in S PROVE ~ (u < s)
      OBVIOUS
    <3>1. u \in Nat /\ s \in Nat /\ s <= u
      BY <2>1
    <3> QED BY <3>1
  <2>3. {u \in S : u < s} = {}
    BY <2>2
  <2>4. Rank(S, s) = 0
    BY <2>3, FS_EmptySet DEF Rank
  <2> QED BY <1>3, <2>4
<1>6. m - 1 \in Nat /\ m - 1 < Cardinality(S) /\ ~ (m <= m - 1)
  BY <1>1, <1>3, <1>5
<1>7. PICK s \in S : Rank(S, s) = m - 1
  <2>1. m - 1 \notin missing
    BY <1>2, <1>6
  <2> QED BY <1>6, <2>1
<1> HIDE DEF missing
<1> DEFINE larger == {u \in S : s < u}
<1>8. larger # {}
  <2> SUFFICES ASSUME larger = {} PROVE FALSE
    OBVIOUS
  <2>1. \A u \in S : u <= s
    <3> SUFFICES ASSUME NEW u \in S PROVE u <= s
      OBVIOUS
    <3>1. u \in Nat /\ s \in Nat /\ ~ (s < u)
      OBVIOUS
    <3> QED BY <3>1
  <2>2. Cardinality(S) = m - 1 + 1
    BY <1>7, <2>1, RankLast
  <2> QED BY <1>1, <1>3, <2>2
<1>9. PICK t \in larger : \A u \in larger : t <= u
  <2>1. larger \in SUBSET Nat
    OBVIOUS
  <2> HIDE DEF larger
  <2> QED BY <1>8, <2>1, LeastElement
<1>10. t \in S /\ s < t /\ \A u \in S : s < u => t <= u
  BY <1>9
<1>11. Rank(S, t) = m - 1 + 1
  BY <1>7, <1>10, RankNext
<1> QED BY <1>3, <1>10, <1>11

\* The starts that count are those of the first ranks, in their order.
LEMMA StartsInOrder ==
  ASSUME Len(Text) \in Nat
  PROVE  /\ ArgStarts \in SUBSET Nat /\ IsFiniteSet(ArgStarts)
         /\ Len(Starts) \in Nat \ {0}
         /\ Len(Starts) = Cardinality(ArgStarts) \/ Len(Starts) = MAX_ARGS
         /\ Len(Starts) <= Cardinality(ArgStarts)
         /\ DOMAIN Starts = 1 .. Len(Starts)
         /\ \A a \in 1 .. Len(Starts) : Starts[a] \in ArgStarts /\ Rank(ArgStarts, Starts[a]) = a - 1
<1> DEFINE size == Cardinality(ArgStarts)
           count == IF size < MAX_ARGS THEN size ELSE MAX_ARGS
<1>1. ArgStarts \in SUBSET (0 .. Len(Text)) /\ 0 \in ArgStarts
  BY DEF ArgStarts
<1>2. IsFiniteSet(ArgStarts)
  <2>1. IsFiniteSet(0 .. Len(Text))
    BY FS_Interval
  <2> QED BY <1>1, <2>1, FS_Subset
<1>3. size \in Nat /\ size # 0
  BY <1>1, <1>2, FS_CardinalityType, FS_EmptySet
<1>4. /\ count \in Nat \ {0} /\ count <= size
      /\ count = size \/ count = MAX_ARGS
  BY <1>3, CommandAssumption
<1>5. ArgStarts \in SUBSET Nat
  BY <1>1
<1>6. Starts = [n \in 1 .. count |-> CHOOSE start \in ArgStarts : Rank(ArgStarts, start) = n - 1]
  BY DEF Starts, Rank
<1> HIDE DEF count
<1>7. DOMAIN Starts = 1 .. count
  BY <1>6
<1>8. Len(Starts) = count
  BY <1>4, <1>6
<1>9. ASSUME NEW a \in 1 .. count
      PROVE  Starts[a] \in ArgStarts /\ Rank(ArgStarts, Starts[a]) = a - 1
  <2>1. a - 1 \in Nat /\ a - 1 < size
    BY <1>3, <1>4
  <2>2. \E start \in ArgStarts : Rank(ArgStarts, start) = a - 1
    BY <1>2, <1>5, <2>1, RankHas
  <2> QED BY <1>6, <2>2
<1> QED BY <1>2, <1>4, <1>5, <1>7, <1>8, <1>9

\* From a start to the first space behind it, or to the end of the line, the split buffer
\* holds the line, and a terminator behind it.
Ends(st, e, t) ==
  /\ st <= e /\ e <= Len(t)
  /\ \A k \in st + 1 .. e : t[k] # Space
  /\ e < Len(t) => t[e + 1] = Space

LEMMA SomeEnd ==
  ASSUME NEW t \in Seq(Letter), NEW st \in Nat, st <= Len(t)
  PROVE  \E e \in Nat : Ends(st, e, t)
<1> DEFINE stops == {i \in Nat : st <= i /\ (i = Len(t) \/ (i < Len(t) /\ t[i + 1] = Space))}
<1>0. Len(t) \in Nat
  OBVIOUS
<1>1. Len(t) \in stops /\ stops \in SUBSET Nat
  BY <1>0
<1>2. PICK e \in stops : \A i \in stops : e <= i
  <2> HIDE DEF stops
  <2> QED BY <1>1, LeastElement
<1>3. e \in Nat /\ st <= e /\ e <= Len(t) /\ (e < Len(t) => t[e + 1] = Space)
  BY <1>0
<1>4. ASSUME NEW k \in st + 1 .. e PROVE t[k] # Space
  <2>1. k - 1 \in Nat /\ st <= k - 1 /\ k - 1 < Len(t) /\ k - 1 + 1 = k /\ ~ (e <= k - 1)
    BY <1>0, <1>3
  <2>2. k - 1 \notin stops
    <3> HIDE DEF stops
    <3> QED BY <1>2, <2>1
  <2> QED BY <2>1, <2>2
<1> QED BY <1>3, <1>4 DEF Ends

LEMMA SplitAt ==
  ASSUME NEW t \in Seq(Letter), Holds(command, t), NEW st \in Range(Starts), st \in Nat,
         NEW e \in Nat, Ends(st, e, t)
  PROVE  /\ \A i \in st .. e - 1 : Split[i] = t[i + 1] /\ Split[i] # NUL
         /\ Split[e] = NUL
<1> DEFINE ends == {i \in Cells : command[i] = Space /\ i < Len(Text)}
           cut == {i \in ends : \E a \in Range(Starts) :
                     a <= i /\ \A j \in ends : ~ (a <= j /\ j < i)}
<1>1. Text = t /\ Len(t) \in Nat /\ Len(t) < BufferSize /\ BufferSize \in Nat
  BY HeldString, CommandAssumption DEF Text, Holds
<1>2. Split = [i \in Cells |-> IF i \in cut THEN NUL ELSE command[i]]
  BY DEF Split
<1>3. \A i \in ends : i \in Nat /\ i < Len(t) /\ command[i] = Space
  BY <1>1 DEF Cells
<1>4. ASSUME NEW i \in 0 .. Len(t) - 1
      PROVE  i \in Cells /\ i + 1 \in 1 .. Len(t) /\ command[i] = t[i + 1] /\ t[i + 1] # NUL
  <2>1. i \in Cells /\ i + 1 \in 1 .. Len(t) /\ i + 1 - 1 = i
    BY <1>1 DEF Cells
  <2>2. \A k \in 1 .. Len(t) : command[k - 1] = t[k]
    BY DEF Holds
  <2>3. command[i + 1 - 1] = t[i + 1]
    BY <2>1, <2>2
  <2>4. t[i + 1] \in Letter
    BY <2>1
  <2> QED BY <2>1, <2>3, <2>4, NulEnds
<1>5. ASSUME NEW i \in ends, st <= i PROVE e <= i
  <2> SUFFICES ASSUME i < e PROVE FALSE
    BY <1>3
  <2>1. i \in 0 .. Len(t) - 1 /\ i + 1 \in st + 1 .. e
    BY <1>1, <1>3, <1>5
  <2>2. t[i + 1] = Space
    BY <1>3, <1>4, <2>1
  <2> QED BY <2>1, <2>2 DEF Ends
<1>6. cut \in SUBSET ends
  OBVIOUS
<1>7. ASSUME NEW i \in st .. e - 1 PROVE Split[i] = t[i + 1] /\ Split[i] # NUL
  <2>1. i \in 0 .. Len(t) - 1 /\ st <= i /\ ~ (e <= i)
    BY <1>1 DEF Ends
  <2>2. i \notin cut
    <3> HIDE DEF ends, cut
    <3> QED BY <1>5, <1>6, <2>1
  <2>3. Split[i] = command[i]
    <3> HIDE DEF cut
    <3> QED BY <1>2, <1>4, <2>1, <2>2
  <2> QED BY <1>4, <2>1, <2>3
<1>8. Split[e] = NUL
  <2>1. CASE e = Len(t)
    <3>1. e \in Cells /\ command[e] = NUL
      BY <1>1, <2>1 DEF Cells, Holds
    <3> HIDE DEF cut
    <3> QED BY <1>2, <3>1
  <2>2. CASE e # Len(t)
    <3>1. e \in 0 .. Len(t) - 1 /\ e < Len(t)
      BY <1>1, <2>2 DEF Ends
    <3>2. command[e] = Space /\ e \in Cells
      BY <1>4, <3>1 DEF Ends
    <3>3. e \in ends
      BY <1>1, <3>1, <3>2
    <3>4. st <= e
      BY DEF Ends
    <3>5. \A j \in ends : ~ (st <= j /\ j < e)
      <4> HIDE DEF ends
      <4> QED BY <1>3, <1>5
    <3>6. e \in cut
      <4> HIDE DEF ends
      <4> QED BY <3>3, <3>4, <3>5
    <3> HIDE DEF cut
    <3> QED BY <1>2, <3>2, <3>6
  <2> QED BY <2>1, <2>2
<1> QED BY <1>7, <1>8

\* So it is a string of the line.
LEMMA ArgumentIs ==
  ASSUME NEW t \in Seq(Letter), Holds(command, t), NEW st \in Range(Starts), st \in Nat,
         NEW e \in Nat, Ends(st, e, t)
  PROVE  /\ StringAt(Split, st) = SubSeq(t, st + 1, e)
         /\ Len(StringAt(Split, st)) = e - st
         /\ Space \notin Range(StringAt(Split, st))
<1> DEFINE ends == {j \in Cells : st <= j /\ Split[j] = NUL}
<1>1. Len(t) \in Nat /\ Len(t) < BufferSize /\ BufferSize \in Nat /\ st <= e /\ e <= Len(t)
  BY CommandAssumption DEF Holds, Ends
<1>2. /\ \A i \in st .. e - 1 : Split[i] = t[i + 1] /\ Split[i] # NUL
      /\ Split[e] = NUL
  BY SplitAt
<1>3. e \in ends
  BY <1>1, <1>2 DEF Cells
<1>4. ASSUME NEW j \in ends PROVE j \in Nat /\ e <= j
  <2>1. j \in Nat /\ st <= j /\ Split[j] = NUL
    BY <1>1 DEF Cells
  <2> SUFFICES ASSUME j < e PROVE FALSE
    BY <2>1
  <2>2. j \in st .. e - 1
    BY <2>1
  <2> QED BY <1>2, <2>1, <2>2
<1>5. StringEnd(Split, st) = IF ends = {} THEN BufferSize
                             ELSE CHOOSE j \in ends : \A k \in ends : j <= k
  BY DEF StringEnd
<1> HIDE DEF ends
<1>6. (CHOOSE j \in ends : \A k \in ends : j <= k) = e
  <2>1. ASSUME NEW j \in ends, \A k \in ends : j <= k PROVE j = e
    <3>1. j <= e /\ e <= j /\ j \in Nat
      BY <1>3, <1>4, <2>1
    <3> QED BY <3>1
  <2> QED BY <1>3, <1>4, <2>1
<1>7. StringEnd(Split, st) = e
  BY <1>3, <1>5, <1>6
<1>8. StringAt(Split, st) = [j \in 1 .. e - st |-> Split[st + j - 1]]
  BY <1>7 DEF StringAt
<1>9. ASSUME NEW j \in 1 .. e - st
      PROVE  Split[st + j - 1] = t[st + j] /\ t[st + j] # Space
  <2>1. st + j - 1 \in st .. e - 1 /\ st + j - 1 + 1 = st + j /\ st + j \in st + 1 .. e
    BY <1>1
  <2>2. Split[st + j - 1] = t[st + j - 1 + 1]
    BY <1>2, <2>1
  <2> QED BY <2>1, <2>2 DEF Ends
<1>10. SubSeq(t, st + 1, e) = [j \in 1 .. e - st |-> t[st + j]]
  <2>1. SubSeq(t, st + 1, e) = [j \in 1 .. 1 + e - (st + 1) |-> t[j + (st + 1) - 1]]
    BY <1>1
  <2>2. 1 + e - (st + 1) = e - st
    BY <1>1
  <2>3. \A j \in 1 .. e - st : j + (st + 1) - 1 = st + j
    BY <1>1
  <2> QED BY <2>1, <2>2, <2>3
<1>11. e - st \in Nat
  BY <1>1
<1>12. Len(StringAt(Split, st)) = e - st
  BY <1>8, <1>11
<1>13. Space \notin Range(StringAt(Split, st))
  BY <1>8, <1>9 DEF Range
<1> QED BY <1>8, <1>9, <1>10, <1>12, <1>13

\* The start behind an argument is the next one that counts.
LEMMA NextStart ==
  ASSUME NEW t \in Seq(Letter), Holds(command, t), NEW st \in ArgStarts,
         NEW e \in Nat, Ends(st, e, t)
  PROVE  /\ \A u \in ArgStarts : st < u => e + 1 <= u /\ u <= Len(t) - 1
         /\ e + 1 <= Len(t) - 1 => e + 1 \in ArgStarts /\ st < e + 1
<1>1. Text = t /\ Len(t) \in Nat
  BY HeldString DEF Text
<1>2. ArgStarts = {0} \cup {i \in 1 .. Len(t) - 1 : command[i - 1] = Space}
  BY <1>1 DEF ArgStarts
<1>3. st \in Nat /\ st <= e
  BY <1>1, <1>2 DEF Ends
<1>4. \A k \in 1 .. Len(t) : command[k - 1] = t[k]
  BY DEF Holds
<1>5. ASSUME NEW u \in ArgStarts, st < u PROVE e + 1 <= u /\ u <= Len(t) - 1
  <2>1. u \in 1 .. Len(t) - 1 /\ command[u - 1] = Space /\ u \in 1 .. Len(t)
    BY <1>1, <1>2, <1>3, <1>5
  <2>2. t[u] = Space
    BY <1>4, <2>1
  <2>3. u \notin st + 1 .. e
    BY <2>2 DEF Ends
  <2> QED BY <1>1, <1>3, <1>5, <2>1, <2>3
<1>6. ASSUME e + 1 <= Len(t) - 1 PROVE e + 1 \in ArgStarts /\ st < e + 1
  <2>1. e < Len(t) /\ e + 1 \in 1 .. Len(t) /\ e + 1 \in 1 .. Len(t) - 1
    BY <1>1, <1>6
  <2>2. t[e + 1] = Space
    BY <2>1 DEF Ends
  <2>3. command[e + 1 - 1] = Space
    BY <1>4, <2>1, <2>2
  <2> QED BY <1>2, <1>3, <2>1, <2>3
<1> QED BY <1>5, <1>6

LEMMA ArgumentsOfString ==
  ASSUME NEW t \in Seq(Letter), Holds(command, t)
  PROVE  ArgumentsAreTheLine
<1>1. Text = t /\ Len(t) \in Nat /\ Len(Text) \in Nat
  BY HeldString DEF Text
<1>2. Starts[1] = 0
  BY <1>1, FirstStart
<1>3. /\ ArgStarts \in SUBSET Nat /\ IsFiniteSet(ArgStarts)
      /\ Len(Starts) \in Nat \ {0} /\ DOMAIN Starts = 1 .. Len(Starts)
      /\ Len(Starts) = Cardinality(ArgStarts) \/ Len(Starts) = MAX_ARGS
      /\ Len(Starts) <= Cardinality(ArgStarts)
      /\ \A a \in 1 .. Len(Starts) : Starts[a] \in ArgStarts /\ Rank(ArgStarts, Starts[a]) = a - 1
  BY <1>1, StartsInOrder
<1>4. Cardinality(ArgStarts) \in Nat
  BY <1>3, FS_CardinalityType
<1>5. ASSUME NEW a \in 1 .. Len(Starts)
      PROVE  /\ Arguments[a] = SubSeq(Text, Starts[a] + 1, EndOf(a))
             /\ Space \notin Range(Arguments[a])
             /\ EndOf(a) < Len(Text) => Text[EndOf(a) + 1] = Space
             /\ IF a < Len(Starts) THEN Starts[a + 1] = EndOf(a) + 1
                ELSE a = MAX_ARGS \/ EndOf(a) >= Len(Text) - 1
  <2> DEFINE st == Starts[a]
  <2>1. st \in ArgStarts /\ st \in Nat /\ Rank(ArgStarts, st) = a - 1 /\ st \in Range(Starts)
    BY <1>3 DEF Range
  <2>2. st <= Len(t)
    <3>1. st \in 0 .. Len(t)
      BY <1>1, <2>1 DEF ArgStarts
    <3> QED BY <1>1, <3>1
  <2> HIDE DEF st
  <2>3. PICK e \in Nat : Ends(st, e, t)
    BY <2>1, <2>2, SomeEnd
  <2>4. /\ StringAt(Split, st) = SubSeq(t, st + 1, e)
        /\ Len(StringAt(Split, st)) = e - st
        /\ Space \notin Range(StringAt(Split, st))
    BY <2>1, <2>3, ArgumentIs
  <2>5. Arguments[a] = StringAt(Split, st)
    BY DEF Arguments, st
  <2>6. EndOf(a) = e
    <3>1. EndOf(a) = st + (e - st)
      BY <2>4, <2>5 DEF EndOf, st
    <3> QED BY <2>1, <3>1
  <2>7. /\ \A u \in ArgStarts : st < u => e + 1 <= u /\ u <= Len(t) - 1
        /\ e + 1 <= Len(t) - 1 => e + 1 \in ArgStarts /\ st < e + 1
    BY <2>1, <2>3, NextStart
  <2>8. ASSUME e + 1 <= Len(t) - 1 PROVE e + 1 \in ArgStarts /\ Rank(ArgStarts, e + 1) = a
    <3>1. e + 1 \in ArgStarts /\ st < e + 1 /\ \A u \in ArgStarts : st < u => e + 1 <= u
      BY <2>7, <2>8
    <3>2. Rank(ArgStarts, e + 1) = a - 1 + 1
      BY <1>3, <2>1, <3>1, RankNext
    <3> QED BY <1>3, <3>1, <3>2
  <2>9. ASSUME a < Len(Starts) PROVE Starts[a + 1] = e + 1
    <3>1. \E u \in ArgStarts : ~ (u <= st)
      <4> SUFFICES ASSUME \A u \in ArgStarts : u <= st PROVE FALSE
        OBVIOUS
      <4>1. Cardinality(ArgStarts) = a - 1 + 1
        BY <1>3, <2>1, RankLast
      <4>2. a \in Nat /\ Len(Starts) \in Nat /\ Len(Starts) <= Cardinality(ArgStarts)
        BY <1>3
      <4> QED BY <1>4, <2>9, <4>1, <4>2
    <3>2. PICK u \in ArgStarts : ~ (u <= st)
      BY <3>1
    <3>3. u \in Nat /\ st < u
      BY <1>3, <2>1, <3>2
    <3>4. e + 1 <= Len(t) - 1
      BY <1>1, <2>7, <3>2, <3>3
    <3>5. a + 1 \in 1 .. Len(Starts) /\ a + 1 - 1 = a
      BY <1>3, <2>9
    <3>6. Starts[a + 1] \in ArgStarts /\ Rank(ArgStarts, Starts[a + 1]) = Rank(ArgStarts, e + 1)
      BY <1>3, <2>8, <3>4, <3>5
    <3>7. e + 1 \in ArgStarts
      BY <2>8, <3>4
    <3> DEFINE x == Starts[a + 1]  y == e + 1  S == ArgStarts
    <3>8. S \in SUBSET Nat /\ IsFiniteSet(S) /\ x \in S /\ y \in S /\ Rank(S, x) = Rank(S, y)
      BY <1>3, <3>6, <3>7
    <3> HIDE DEF x, y, S
    <3>9. x = y
      BY <3>8, RankNames
    <3> QED BY <3>9 DEF x, y
  <2>10. ASSUME ~ (a < Len(Starts)), a # MAX_ARGS PROVE e >= Len(t) - 1
    <3>1. a = Cardinality(ArgStarts)
      BY <1>3, <2>10
    <3> SUFFICES ASSUME e + 1 <= Len(t) - 1 PROVE FALSE
      BY <1>1
    <3>2. a + 1 <= Cardinality(ArgStarts)
      BY <1>3, <2>8, RankBelow
    <3> QED BY <1>3, <3>1, <3>2
  <2>11. e < Len(t) => t[e + 1] = Space
    BY <2>3 DEF Ends
  <2> QED BY <1>1, <2>4, <2>5, <2>6, <2>9, <2>10, <2>11 DEF st
<1> QED BY <1>2, <1>5 DEF ArgumentsAreTheLine

\* Whatever lines have stood in the buffer before, the arguments that a command would be
\* given, read back as C strings, are the line cut at its spaces.
THEOREM ArgumentsAreSplit == ASSUME LinesFit PROVE CommandSpec => []ArgumentsAreTheLine
<1>1. ASSUME CommandInv PROVE ArgumentsAreTheLine
  <2>1. PICK s : Chain(s)
    BY <1>1 DEF CommandInv
  <2>2. s[0] \in LoopState /\ Holds(command, s[0].text)
    <3>1. Len(codes) \in Nat
      BY <1>1 DEF CommandInv, UserInv
    <3> QED BY <2>1, <3>1 DEF Chain
  <2>3. s[0].text \in Seq(Letter)
    BY <2>2 DEF LoopState
  <2> QED BY <2>2, <2>3, ArgumentsOfString
<1>2. CommandInv => ArgumentsAreTheLine
  BY <1>1
<1> QED BY <1>2, CommandInvariant, PTL

(****************************************************************************)
(* Clock: quotients and remainders                                           *)
(****************************************************************************)
\* A multiple of a number that is less than the number is none of it.
LEMMA SmallMultiple ==
  ASSUME NEW k \in Int, NEW d \in Nat \ {0}, -d < d * k, d * k < d
  PROVE  k = 0
<1>1. CASE k >= 1
  <2>1. d * (k - 1) >= 0
    BY <1>1
  <2>2. d * (k - 1) = d * k - d
    OBVIOUS
  <2> QED BY <2>1, <2>2
<1>2. CASE k <= -1
  <2>1. d * (-1 - k) >= 0
    BY <1>2
  <2>2. d * (-1 - k) = -d - d * k
    OBVIOUS
  <2> QED BY <2>1, <2>2
<1> QED BY <1>1, <1>2

\* Quotient and remainder make up the number.
LEMMA DivMod ==
  ASSUME NEW n \in Int, NEW d \in Nat \ {0}
  PROVE  /\ n % d \in 0 .. d - 1 /\ n \div d \in Int
         /\ n = d * (n \div d) + (n % d)
OBVIOUS

\* And nothing else does.
LEMMA DivModUnique ==
  ASSUME NEW n \in Int, NEW d \in Nat \ {0}, NEW q \in Int, NEW r \in 0 .. d - 1,
         n = d * q + r
  PROVE  n % d = r /\ n \div d = q
<1> DEFINE p == n \div d  s == n % d
<1>1. p \in Int /\ s \in 0 .. d - 1 /\ n = d * p + s
  BY DivMod
<1> HIDE DEF p, s
<1>2. d * (p - q) = d * p - d * q /\ d * p \in Int /\ d * q \in Int
  BY <1>1
<1>3. -d < d * (p - q) /\ d * (p - q) < d
  BY <1>1, <1>2
<1>4. p - q = 0
  BY <1>1, <1>3, SmallMultiple
<1> QED BY <1>1, <1>2, <1>4 DEF p, s

(****************************************************************************)
(* Clock: the time of day                                                    *)
(****************************************************************************)
\* What the registers show at a time.
SecondsAt(t) == Encoded(t % SecondsPerMinute)
MinutesAt(t) == Encoded((t \div SecondsPerMinute) % MinutesPerHour)
HoursAt(t) == Hours(t \div Hour)

LEMMA Units ==
  /\ SecondsPerMinute \in Nat \ {0} /\ MinutesPerHour \in Nat \ {0} /\ HoursPerDay \in Nat \ {0}
  /\ Hour \in Nat \ {0} /\ Day \in Nat \ {0}
  /\ Day = SecondsPerMinute * (MinutesPerHour * HoursPerDay)
  /\ SecondsPerMinute <= Day
<1>1. SecondsPerMinute \in Nat \ {0} /\ MinutesPerHour \in Nat \ {0} /\ HoursPerDay \in Nat \ {0}
  BY ClockAssumption
<1>2. MinutesPerHour * HoursPerDay \in Nat \ {0}
  BY <1>1
<1>3. Hour \in Nat \ {0}
  BY <1>1 DEF Hour
<1>4. Day \in Nat \ {0}
  BY <1>1, <1>3 DEF Day
<1>5. Day = SecondsPerMinute * (MinutesPerHour * HoursPerDay)
  BY <1>1 DEF Day, Hour
<1>6. SecondsPerMinute * (MinutesPerHour * HoursPerDay - 1) >= 0
  BY <1>1, <1>2
<1>7. SecondsPerMinute * (MinutesPerHour * HoursPerDay - 1)
        = SecondsPerMinute * (MinutesPerHour * HoursPerDay) - SecondsPerMinute
  BY <1>1, <1>2
<1>8. SecondsPerMinute <= Day
  BY <1>1, <1>4, <1>5, <1>6, <1>7
<1> QED BY <1>1, <1>3, <1>4, <1>5, <1>8

\* Hours, minutes and seconds make up the time.
LEMMA HoursMinutesSeconds ==
  ASSUME NEW t \in Nat
  PROVE  /\ t \div Hour \in Nat
         /\ (t \div SecondsPerMinute) % MinutesPerHour \in Nat
         /\ t % SecondsPerMinute \in Nat
         /\ t = (t \div Hour) * Hour + ((t \div SecondsPerMinute) % MinutesPerHour) * SecondsPerMinute
                  + (t % SecondsPerMinute)
<1> DEFINE S == SecondsPerMinute  M == MinutesPerHour
           q == t \div S  s == t % S  p == q \div M  m == q % M
<1>1. S \in Nat \ {0} /\ M \in Nat \ {0} /\ Hour = S * M /\ Hour \in Nat \ {0}
  BY Units DEF Hour
<1>2. q \in Int /\ s \in 0 .. S - 1 /\ t = S * q + s
  BY <1>1, DivMod
<1>3. p \in Int /\ m \in 0 .. M - 1 /\ q = M * p + m
  BY <1>1, <1>2, DivMod
<1> HIDE DEF S, M, q, s, p, m
<1>4. S * q = Hour * p + S * m
  BY <1>1, <1>2, <1>3
<1>5. S * m \in Nat /\ S * m <= S * M - S
  <2>1. S * (M - 1 - m) >= 0
    BY <1>1, <1>3
  <2>2. S * (M - 1 - m) = S * M - S - S * m
    BY <1>1, <1>3
  <2>3. S * m >= 0 /\ S * m \in Int /\ S * M \in Int
    BY <1>1, <1>3
  <2> QED BY <1>1, <2>1, <2>2, <2>3
<1>6. S * m + s \in 0 .. Hour - 1
  BY <1>1, <1>2, <1>5
<1>7. t = Hour * p + (S * m + s)
  BY <1>1, <1>2, <1>3, <1>4, <1>5
<1>8. t \div Hour = p
  BY <1>1, <1>3, <1>6, <1>7, DivModUnique
<1>9. p >= 0
  <2> SUFFICES ASSUME p <= -1 PROVE FALSE
    BY <1>3
  <2>1. Hour * (-1 - p) >= 0
    BY <1>1, <1>3
  <2>2. Hour * (-1 - p) = -Hour - Hour * p
    BY <1>1, <1>3
  <2> QED BY <1>1, <1>3, <1>6, <1>7, <2>1, <2>2
<1>10. Hour * p = p * Hour /\ S * m = m * S
  BY <1>1, <1>3
<1>11. p \in Nat /\ m \in Nat /\ s \in Nat /\ t = p * Hour + m * S + s
  BY <1>1, <1>2, <1>3, <1>5, <1>7, <1>9, <1>10
<1> QED BY <1>8, <1>11 DEF S, M, q, s, p, m

\* A number in BCD is decoded as itself.
LEMMA DecodedBcd ==
  ASSUME NEW n \in Nat
  PROVE  Decoded(Bcd(n)) = n
<1>1. n \div 10 \in Nat /\ n % 10 \in 0 .. 9 /\ n = 10 * (n \div 10) + (n % 10)
  OBVIOUS
<1>2. (Bcd(n) \div 16) = n \div 10 /\ Bcd(n) % 16 = n % 10
  BY <1>1 DEF Bcd
<1> QED BY <1>1, <1>2 DEF Decoded

\* What time() makes of the registers of one time is what it answers for that time.
LEMMA AnswerOf ==
  ASSUME NEW t \in Nat, format.hours24, cnt < Tries,
         sec = SecondsAt(t), min = MinutesAt(t), hrs = HoursAt(t)
  PROVE  ret = Answered(t)
<1>1. /\ sec = Encoded(t % SecondsPerMinute)
      /\ min = Encoded((t \div SecondsPerMinute) % MinutesPerHour)
      /\ hrs = Encoded(t \div Hour)
  BY DEF SecondsAt, MinutesAt, HoursAt, Hours
<1>2. CASE format.binary
  BY <1>1, <1>2 DEF Encoded, ret, Answered
<1>3. CASE ~ format.binary
  <2>1. /\ Decoded(sec) = t % SecondsPerMinute
        /\ Decoded(min) = (t \div SecondsPerMinute) % MinutesPerHour
        /\ Decoded(hrs) = t \div Hour
    BY <1>1, <1>3, HoursMinutesSeconds, DecodedBcd DEF Encoded
  <2> QED BY <1>3, <2>1, HoursMinutesSeconds DEF ret, Answered
<1> QED BY <1>2, <1>3

\* A number is never taken for a greater one.
LEMMA DecodedBelow ==
  ASSUME NEW n \in Nat
  PROVE  Decoded(n) \in 0 .. n
<1>1. n \div 16 \in Nat /\ n % 16 \in 0 .. 15 /\ n = 16 * (n \div 16) + (n % 16)
  OBVIOUS
<1> QED BY <1>1 DEF Decoded

LEMMA NoLaterAnswer ==
  ASSUME NEW t \in Nat
  PROVE  Answered(t) \in 0 .. t
<1> DEFINE h == t \div Hour
           m == (t \div SecondsPerMinute) % MinutesPerHour
           s == t % SecondsPerMinute
<1>1. /\ h \in Nat /\ m \in Nat /\ s \in Nat /\ t = h * Hour + m * SecondsPerMinute + s
  BY HoursMinutesSeconds
<1>2. Hour \in Nat /\ SecondsPerMinute \in Nat
  BY Units
<1>3. Answered(t) = IF format.binary
                    THEN Decoded(h) * Hour + Decoded(m) * SecondsPerMinute + Decoded(s)
                    ELSE t
  BY DEF Answered
<1> HIDE DEF h, m, s
<1>4. Decoded(h) \in 0 .. h /\ Decoded(m) \in 0 .. m /\ Decoded(s) \in 0 .. s
  BY <1>1, DecodedBelow
<1>5. ASSUME NEW c \in Nat, NEW n \in Nat, NEW d \in 0 .. n
      PROVE  d * c \in 0 .. n * c
  <2>1. (n - d) * c >= 0 /\ (n - d) * c = n * c - d * c /\ d * c >= 0
    OBVIOUS
  <2>2. d * c \in Int /\ n * c \in Int
    OBVIOUS
  <2> QED BY <2>1, <2>2
<1>6. Decoded(h) * Hour \in 0 .. h * Hour
  BY <1>1, <1>2, <1>4, <1>5
<1>7. Decoded(m) * SecondsPerMinute \in 0 .. m * SecondsPerMinute
  BY <1>1, <1>2, <1>4, <1>5
<1>8. h * Hour \in Nat /\ m * SecondsPerMinute \in Nat
  BY <1>1, <1>2
<1> QED BY <1>1, <1>3, <1>4, <1>6, <1>7, <1>8

\* The registers of seconds of two times less than a minute apart differ.
LEMMA SecondsTell ==
  ASSUME NEW t \in Nat, NEW u \in Nat, NEW a \in 0 .. SecondsPerMinute - 1,
         t + a = u \/ t + a = u + Day,
         SecondsAt(t) = SecondsAt(u)
  PROVE  a = 0
<1> DEFINE S == SecondsPerMinute  r == t % S  p == t \div S  q == u \div S  N == MinutesPerHour * HoursPerDay
<1>0. S \in Nat \ {0} /\ t \in Int /\ u \in Int
  BY Units
<1>1. S \in Nat \ {0} /\ S \in Int /\ N \in Nat /\ Day = S * N
  BY Units
<1>2. p \in Int /\ r \in Nat /\ t = S * p + r
  BY <1>0, DivMod
<1>3. q \in Int /\ u % S \in Nat /\ u = S * q + (u % S)
  BY <1>0, DivMod
<1>4. r = u % S
  <2>1. CASE format.binary
    BY <2>1 DEF SecondsAt, Encoded
  <2>2. CASE ~ format.binary
    BY <1>2, <1>3, <2>2, DecodedBcd DEF SecondsAt, Encoded
  <2> QED BY <2>1, <2>2
<1> HIDE DEF S, p, q, r, N
<1>5. S * p \in Int /\ S * q \in Int /\ S * N \in Int
  BY <1>1, <1>2, <1>3
<1>6. CASE t + a = u
  <2>1. a = S * (q - p)
    BY <1>1, <1>2, <1>3, <1>4, <1>5, <1>6
  <2>2. q - p = 0
    BY <1>1, <1>2, <1>3, <2>1, SmallMultiple DEF S
  <2> QED BY <1>1, <2>1, <2>2
<1>7. CASE t + a = u + Day
  <2>1. a = S * (q + N - p)
    BY <1>1, <1>2, <1>3, <1>4, <1>5, <1>7
  <2>2. q + N - p = 0
    BY <1>1, <1>2, <1>3, <2>1, SmallMultiple DEF S
  <2> QED BY <1>1, <2>1, <2>2
<1> QED BY <1>6, <1>7

(****************************************************************************)
(* Clock: a call of time()                                                   *)
(****************************************************************************)
\* The time at which the attempt to read the time began.
Began == IF age <= now THEN now - age ELSE now + Day - age

FirstReads == {"min", "hrs", "sec2"}
Confirmed == pc \in {"min2", "hrs2"} \/ (pc = "decode" /\ cnt < Tries)

ClockTypeOK ==
  /\ now \in 0 .. Day - 1 /\ format \in Formats
  /\ age \in 0 .. MaxAge /\ cnt \in 0 .. Tries
  /\ called \in 0 .. MaxElapsed /\ elapsed \in 0 .. MaxElapsed /\ ran \in 0 .. MaxElapsed
  /\ pc \in {"idle", "sec", "decode", "min2", "hrs2"} \cup FirstReads
  /\ caller \in {"typing", "start", "running", "end", "now"}
  /\ pc = "idle" <=> caller \in {"typing", "running"}
  /\ pc = "idle" => age = 0
  /\ pc \notin {"idle", "decode"} => cnt < Tries

\* What was read in an attempt: the seconds when it began, and the other registers at that
\* time too if the clock has not gone on since then, or after the seconds were found
\* unchanged, because an attempt lasts less than a minute.
ReadsInv ==
  /\ pc \in FirstReads \/ Confirmed => sec = SecondsAt(Began)
  /\ (pc \in {"hrs", "sec2"} /\ age = 0) \/ Confirmed => min = MinutesAt(Began)
  /\ (pc = "sec2" /\ age = 0) \/ Confirmed => hrs = HoursAt(Began)

\* An attempt fails only after the clock has gone on.
CountInv ==
  \/ called = MaxElapsed
  \/ called >= cnt + (IF pc \in FirstReads \cup {"min2", "hrs2"} THEN age ELSE 0)

ClockInv == ClockTypeOK /\ ReadsInv /\ CountInv

\* The beginning of an attempt is that many seconds ago, around midnight too.
LEMMA BeganAgo ==
  ASSUME ClockTypeOK
  PROVE  /\ Began \in 0 .. Day - 1
         /\ Began + age = now \/ Began + age = now + Day
         /\ age = 0 => Began = now
         /\ Began \in Nat /\ now \in Nat /\ age \in 0 .. SecondsPerMinute - 1
BY ClockAssumption, Units DEF ClockTypeOK, Began

\* The clock goes on under an attempt.
LEMMA TickKeepsBegan ==
  ASSUME ClockTypeOK, Tick
  PROVE  /\ now' = (IF now = Day - 1 THEN 0 ELSE now + 1)
         /\ pc # "idle" => Began' = Began /\ age' = age + 1
<1>1. Day \in Nat \ {0} /\ SecondsPerMinute <= Day /\ SecondsPerMinute \in Nat /\ now \in 0 .. Day - 1
  BY Units DEF ClockTypeOK
<1>2. (now + 1) % Day = IF now = Day - 1 THEN 0 ELSE now + 1
  <2>1. CASE now = Day - 1
    <3>1. now + 1 = Day * 1 + 0
      BY <1>1, <2>1
    <3> QED BY <1>1, <2>1, <3>1, DivModUnique
  <2>2. CASE now # Day - 1
    <3>1. now + 1 = Day * 0 + (now + 1) /\ now + 1 \in 0 .. Day - 1
      BY <1>1, <2>2
    <3> QED BY <1>1, <2>2, <3>1, DivModUnique
  <2> QED BY <2>1, <2>2
<1>3. now' = (IF now = Day - 1 THEN 0 ELSE now + 1)
  BY <1>2 DEF Tick
<1>4. ASSUME pc # "idle" PROVE Began' = Began /\ age' = age + 1
  <2>1. age' = age + 1 /\ age \in 0 .. MaxAge /\ age < MaxAge /\ MaxAge \in 0 .. SecondsPerMinute - 1
    BY <1>4, ClockAssumption DEF Tick, ClockTypeOK
  <2> QED BY <1>1, <1>3, <2>1 DEF Began
<1> QED BY <1>3, <1>4

\* No register has changed within the second in which an attempt began.
LEMMA ChangeTakesTime ==
  ASSUME ClockInv, Changed
  PROVE  age > 0
<1> SUFFICES ASSUME age = 0 PROVE FALSE
  BY ClockAssumption DEF ClockInv, ClockTypeOK
<1>1. Began = now
  BY BeganAgo DEF ClockInv
<1> QED BY <1>1 DEF ClockInv, ReadsInv, Confirmed, FirstReads, Changed, SecondsAt, MinutesAt,
                    HoursAt, sec_register, min_register, hrs_register

LEMMA TickInv ==
  ASSUME ClockInv, Tick
  PROVE  ClockInv'
<1>1. ClockTypeOK'
  BY TickKeepsBegan, ClockAssumption, Units
     DEF ClockInv, ClockTypeOK, Tick, callVars, kernelVars, More
<1>2. CASE pc = "idle"
  BY <1>1, <1>2 DEF ClockInv, ReadsInv, CountInv, Confirmed, FirstReads, Tick, callVars
<1>3. CASE pc # "idle"
  <2>1. Began' = Began /\ age' = age + 1 /\ age \in Nat
    BY <1>3, TickKeepsBegan, BeganAgo DEF ClockInv
  <2>2. /\ SecondsAt(Began') = SecondsAt(Began)' /\ SecondsAt(Began)' = SecondsAt(Began)
        /\ MinutesAt(Began)' = MinutesAt(Began) /\ HoursAt(Began)' = HoursAt(Began)
    BY <2>1 DEF Tick, SecondsAt, MinutesAt, HoursAt, Hours, Encoded
  <2>3. ReadsInv'
    BY <2>1, <2>2 DEF ClockInv, ReadsInv, Confirmed, FirstReads, Tick, callVars
  <2>4. CountInv'
    BY <1>3, <2>1, ClockAssumption DEF ClockInv, ClockTypeOK, CountInv, FirstReads, Tick, callVars, More
  <2> QED BY <1>1, <2>3, <2>4 DEF ClockInv
<1> QED BY <1>2, <1>3

LEMMA FirstPassInv ==
  ASSUME ClockInv, FirstPass, UNCHANGED <<now, format, kernelVars, elapsed, ran>>
  PROVE  ClockInv'
<1>0. age \in Nat /\ MaxAge \in Nat
  BY ClockAssumption DEF ClockInv, ClockTypeOK
<1>1. ClockTypeOK'
  BY <1>0, ClockAssumption
     DEF ClockInv, ClockTypeOK, FirstPass, ReadSec, ReadMin, ReadHrs, FirstReads, kernelVars
<1>2. CountInv'
  BY <1>0, ClockAssumption
     DEF ClockInv, ClockTypeOK, CountInv, FirstPass, ReadSec, ReadMin, ReadHrs, FirstReads
<1>3. /\ SecondsAt(now) = sec_register /\ MinutesAt(now) = min_register /\ HoursAt(now) = hrs_register
      /\ \A t : SecondsAt(t)' = SecondsAt(t)
  BY DEF SecondsAt, MinutesAt, HoursAt, sec_register, min_register, hrs_register, Encoded
<1>4. age' = 0 => Began' = now
  BY <1>0, Units DEF ClockInv, ClockTypeOK, Began
<1>5. ReadsInv'
  <2>1. CASE ReadSec
    BY <1>3, <1>4, <2>1 DEF ReadsInv, Confirmed, FirstReads, FirstPass, ReadSec
  <2>2. CASE ReadMin \/ ReadHrs
    <3>1. age' = age /\ Began' = Began /\ (age = 0 => Began = now)
      BY <2>2, BeganAgo DEF ClockInv, FirstPass, ReadMin, ReadHrs, Began
    <3>2. SecondsAt(Began)' = SecondsAt(Began) /\ MinutesAt(Began)' = MinutesAt(Began)
            /\ HoursAt(Began)' = HoursAt(Began)
      BY <3>1 DEF SecondsAt, MinutesAt, HoursAt, Hours, Encoded
    <3> QED BY <1>3, <2>2, <3>1, <3>2
            DEF ClockInv, ReadsInv, Confirmed, FirstReads, ReadMin, ReadHrs
  <2> QED BY <2>1, <2>2 DEF FirstPass
<1> QED BY <1>1, <1>2, <1>5 DEF ClockInv

\* An attempt that finds a change is counted and given up.
LEMMA TryAgainInv ==
  ASSUME ClockInv, TryAgain, UNCHANGED <<now, format, kernelVars, elapsed, ran>>
  PROVE  ClockInv'
<1>1. age \in Nat /\ age > 0
  BY ChangeTakesTime, ClockAssumption DEF TryAgain, ClockInv, ClockTypeOK
<1>2. ClockTypeOK'
  BY <1>1, ClockAssumption DEF ClockInv, ClockTypeOK, TryAgain, FirstReads, kernelVars, OneMore, Tries
<1>3. CountInv'
  BY <1>1, ClockAssumption
     DEF ClockInv, ClockTypeOK, CountInv, TryAgain, FirstReads, OneMore, Tries
<1>4. ReadsInv'
  BY DEF ClockInv, ClockTypeOK, ReadsInv, Confirmed, FirstReads, TryAgain, OneMore, Tries
<1> QED BY <1>2, <1>3, <1>4 DEF ClockInv

\* Seconds that have not changed confirm the minutes and the hours.
LEMMA SecondPassInv ==
  ASSUME ClockInv, SecondPass, UNCHANGED <<now, format, kernelVars, elapsed, ran>>
  PROVE  ClockInv'
<1>1. ClockTypeOK'
  BY ClockAssumption DEF ClockInv, ClockTypeOK, SecondPass, FirstReads, kernelVars
<1>2. CountInv'
  BY ClockAssumption DEF ClockInv, ClockTypeOK, CountInv, SecondPass, FirstReads
<1>3. Began' = Began /\ SecondsAt(Began)' = SecondsAt(Began) /\ MinutesAt(Began)' = MinutesAt(Began)
        /\ HoursAt(Began)' = HoursAt(Began)
  BY DEF SecondPass, Began, SecondsAt, MinutesAt, HoursAt, Hours, Encoded
<1>4. CASE pc = "sec2"
  <2>1. SecondsAt(Began) = SecondsAt(now)
    BY <1>4 DEF ClockInv, ReadsInv, FirstReads, SecondPass, Changed, SecondsAt, sec_register
  <2>2. age = 0
    BY <2>1, BeganAgo, SecondsTell DEF ClockInv
  <2> QED BY <1>1, <1>2, <1>3, <1>4, <2>2
          DEF ClockInv, ReadsInv, FirstReads, Confirmed, SecondPass
<1>5. CASE pc # "sec2"
  BY <1>1, <1>2, <1>3, <1>5 DEF ClockInv, ReadsInv, FirstReads, Confirmed, SecondPass
<1> QED BY <1>4, <1>5

\* The kernel begins and ends calls, and programs.
LEMMA KernelInv ==
  ASSUME ClockInv, Kernel \/ Returns
  PROVE  ClockInv'
<1>0. /\ MaxElapsed \in Nat \ {0} /\ MaxAge \in Nat /\ age \in 0 .. MaxAge
  BY ClockAssumption, Units DEF ClockInv, ClockTypeOK, Tries
<1>1. /\ now' = now /\ format' = format /\ age' = 0 /\ called' = 0 /\ cnt' = 0
      /\ elapsed' \in 0 .. MaxElapsed /\ ran' \in 0 .. MaxElapsed
      /\ \/ pc' = "sec" /\ caller' \in {"start", "end", "now"}
         \/ pc' = "idle" /\ caller' \in {"typing", "running"}
  BY <1>0 DEF ClockInv, ClockTypeOK, Kernel, Returns, DispatchProgram, DispatchOther, ProgramReturns,
              StartReturns, EndReturns, NowReturns, Call, BeginCall, Forget
<1>2. ClockTypeOK'
  BY <1>0, <1>1 DEF ClockInv, ClockTypeOK, FirstReads, Tries
<1>3. ReadsInv' /\ CountInv'
  BY <1>1 DEF ReadsInv, CountInv, FirstReads, Confirmed
<1> QED BY <1>2, <1>3 DEF ClockInv

LEMMA ClockInvStep == ClockInv /\ [Tick \/ Cpu \/ Kernel]_clockVars => ClockInv'
<1> SUFFICES ASSUME ClockInv, [Tick \/ Cpu \/ Kernel]_clockVars PROVE ClockInv'
  OBVIOUS
<1>1. CASE Tick
  BY <1>1, TickInv
<1>2. CASE ReadRegisters
  BY <1>2, FirstPassInv, TryAgainInv, SecondPassInv DEF ReadRegisters
<1>3. CASE Returns \/ Kernel
  BY <1>3, KernelInv
<1>4. CASE UNCHANGED clockVars
  BY <1>4 DEF clockVars, callVars, kernelVars, watchVars, ClockInv, ClockTypeOK, ReadsInv, CountInv,
              FirstReads, Confirmed, Began, SecondsAt, MinutesAt, HoursAt, Hours, Encoded
<1> QED BY <1>1, <1>2, <1>3, <1>4 DEF Cpu

LEMMA ClockInvariant == ClockSpec => []ClockInv
<1>1. ClockInit => ClockInv
  BY ClockAssumption, Units
     DEF ClockInit, ClockInv, ClockTypeOK, ReadsInv, CountInv, FirstReads, Confirmed, Tries
<1>2. ClockInv /\ [Tick \/ Cpu \/ Kernel]_clockVars => ClockInv'
  BY ClockInvStep
<1> QED BY <1>1, <1>2, PTL DEF ClockSpec

\* What time() answers is what it makes of the time its last attempt began, or that it
\* failed, which is no time.
LEMMA Answer ==
  ASSUME ClockInv, pc = "decode"
  PROVE  /\ format.hours24 /\ cnt < Tries => ret = Answered(Began) /\ ret # FAILED
         /\ ~ (format.hours24 /\ cnt < Tries) => ret = FAILED
<1>1. ASSUME format.hours24, cnt < Tries PROVE ret = Answered(Began) /\ ret # FAILED
  <2>1. ret = Answered(Began)
    BY <1>1, BeganAgo, AnswerOf DEF ClockInv, ReadsInv, Confirmed
  <2>2. Answered(Began) \in 0 .. Began
    BY BeganAgo, NoLaterAnswer DEF ClockInv
  <2>3. Began \in 0 .. Day - 1 /\ Day <= FAILED /\ Day \in Nat
    BY BeganAgo, ClockAssumption, Units DEF ClockInv
  <2> QED BY <2>1, <2>2, <2>3 DEF FAILED
<1>2. ASSUME ~ (format.hours24 /\ cnt < Tries) PROVE ret = FAILED
  BY <1>2 DEF ret
<1> QED BY <1>1, <1>2

\* On every clock, in BCD or in binary: time() answers what it makes of a time the clock
\* showed during its last attempt, and fails only after the clock went on in each of its
\* attempts.
THEOREM TimesWereShown == ClockSpec => []AnswersAreTrue
<1>1. ASSUME ClockInv, pc = "decode" PROVE TimeWasShown
  <2> SUFFICES ASSUME ret # FAILED PROVE \E a \in 0 .. age : ret = Answered((now - a) % Day)
    BY DEF TimeWasShown
  <2>1. ret = Answered(Began) /\ Began \in 0 .. Day - 1 /\ age \in Nat /\ now \in 0 .. Day - 1
    BY <1>1, Answer, BeganAgo DEF ClockInv, ClockTypeOK
  <2>2. now - age = Day * 0 + Began \/ now - age = Day * (-1) + Began
    BY <1>1, <2>1, BeganAgo, Units DEF ClockInv
  <2>3. (now - age) % Day = Began
    BY <2>1, <2>2, DivModUnique, Units
  <2> QED BY <2>1, <2>3
<1>2. ASSUME ClockInv, pc = "decode" PROVE FailsOnlyOnChanges
  <2> SUFFICES ASSUME ret = FAILED, format.hours24 PROVE called >= Tries
    BY DEF FailsOnlyOnChanges
  <2>1. cnt = Tries
    BY <1>2, Answer DEF ClockInv, ClockTypeOK, Tries
  <2> QED BY <1>2, <2>1, ClockAssumption DEF ClockInv, CountInv, FirstReads, Tries
<1>3. ClockInv => AnswersAreTrue
  BY <1>1, <1>2 DEF AnswersAreTrue
<1> QED BY <1>3, ClockInvariant, PTL

(****************************************************************************)
(* Clock: the duration of a program                                          *)
(****************************************************************************)
\* Since the time that was taken at the start, as many seconds have passed as were
\* counted, the seconds of the program and of the attempt going on among them.
DurationInv ==
  caller \in {"running", "end"} =>
    /\ elapsed = MaxElapsed \/ ran + age <= elapsed
    /\ ~ format.binary /\ start_cycles # FAILED /\ elapsed < MaxElapsed =>
         /\ start_cycles \in 0 .. Day - 1
         /\ start_cycles + elapsed = now \/ start_cycles + elapsed = now + Day

LEMMA DurationStep ==
  ASSUME ClockInv, DurationInv, [Tick \/ Cpu \/ Kernel]_clockVars
  PROVE  DurationInv'
<1>0. /\ MaxElapsed \in Nat \ {0} /\ MaxElapsed <= Day /\ Day \in Nat \ {0} /\ age \in Nat
      /\ now \in 0 .. Day - 1 /\ elapsed \in 0 .. MaxElapsed /\ ran \in 0 .. MaxElapsed
  BY ClockAssumption, Units DEF ClockInv, ClockTypeOK, Tries
<1>1. CASE Tick
  <2>1. /\ now' = IF now = Day - 1 THEN 0 ELSE now + 1
        /\ age' = IF pc = "idle" THEN age ELSE age + 1
        /\ UNCHANGED <<caller, start_cycles, format>>
    BY <1>1, TickKeepsBegan DEF ClockInv, Tick, kernelVars
  <2>2. pc = "idle" <=> caller \in {"typing", "running"}
    BY DEF ClockInv, ClockTypeOK
  <2>3. CASE caller = "running"
    BY <1>0, <1>1, <2>1, <2>2, <2>3 DEF DurationInv, Tick, More
  <2>4. CASE caller = "end"
    BY <1>0, <1>1, <2>1, <2>2, <2>4 DEF DurationInv, Tick, More
  <2> QED BY <2>1, <2>3, <2>4 DEF DurationInv
<1>2. CASE StartReturns
  <2>1. /\ caller' = "running" /\ start_cycles' = ret /\ now' = now /\ age' = 0 /\ ran' = 0
        /\ elapsed' = (IF age < MaxElapsed THEN age ELSE MaxElapsed)
        /\ pc = "decode" /\ format' = format
    BY <1>2 DEF StartReturns, Forget
  <2>2. ~ format.binary /\ ret # FAILED => ret = Began
    BY <2>1, Answer DEF Answered
  <2>3. /\ Began \in 0 .. Day - 1
        /\ Began + age = now \/ Began + age = now + Day
    BY BeganAgo DEF ClockInv
  <2> QED BY <1>0, <2>1, <2>2, <2>3 DEF DurationInv
<1>3. CASE ReadRegisters
  <2>1. /\ UNCHANGED <<now, format, caller, start_cycles, elapsed, ran>>
        /\ age' = age \/ age' = 0
    BY <1>3 DEF ReadRegisters, kernelVars, FirstPass, TryAgain, SecondPass
  <2> QED BY <1>0, <2>1 DEF DurationInv
<1>4. CASE ProgramReturns
  BY <1>0, <1>4 DEF DurationInv, ProgramReturns, Call, Forget
<1>5. CASE EndReturns \/ NowReturns \/ DispatchProgram \/ DispatchOther
  BY <1>5 DEF DurationInv, EndReturns, NowReturns, DispatchProgram, DispatchOther, Call
<1>6. CASE UNCHANGED clockVars
  BY <1>6 DEF DurationInv, clockVars, kernelVars, watchVars
<1> QED BY <1>1, <1>2, <1>3, <1>4, <1>5, <1>6 DEF Cpu, Returns, Kernel

LEMMA DurationShown ==
  ASSUME ClockInv, DurationInv, EndReturns, ~ format.binary,
         FAILED \notin {ret, start_cycles}, elapsed < MaxElapsed
  PROVE  duration_cycles' % Day \in ran .. elapsed
<1>1. /\ MaxElapsed <= Day /\ Day \in Nat \ {0} /\ MaxElapsed \in Nat /\ age \in Nat
      /\ elapsed \in Nat /\ ran \in Nat /\ now \in Nat
  BY ClockAssumption, Units DEF ClockInv, ClockTypeOK, Tries
<1>2. duration_cycles' = Began - start_cycles
  BY Answer DEF EndReturns, duration, Answered
<1>3. /\ Began \in 0 .. Day - 1
      /\ Began + age = now \/ Began + age = now + Day
  BY BeganAgo DEF ClockInv
<1>4. /\ ran + age <= elapsed
      /\ start_cycles \in 0 .. Day - 1
      /\ start_cycles + elapsed = now \/ start_cycles + elapsed = now + Day
  BY <1>1 DEF DurationInv, EndReturns
<1>5. elapsed - age \in 0 .. Day - 1 /\ elapsed - age \in ran .. elapsed
  BY <1>1, <1>4
<1>6. \E q \in {-1, 0, 1} : duration_cycles' = Day * q + (elapsed - age)
  <2>1. \/ duration_cycles' = Day * (-1) + (elapsed - age)
        \/ duration_cycles' = Day * 0 + (elapsed - age)
        \/ duration_cycles' = Day * 1 + (elapsed - age)
    BY <1>1, <1>2, <1>3, <1>4
  <2> QED BY <2>1
<1>7. duration_cycles' % Day = elapsed - age
  <2>1. PICK q \in {-1, 0, 1} : duration_cycles' = Day * q + (elapsed - age)
    BY <1>6
  <2>2. duration_cycles' \in Int /\ q \in Int
    BY <1>2, <1>3, <1>4
  <2> QED BY <1>1, <1>5, <2>1, <2>2, DivModUnique
<1> QED BY <1>5, <1>7

\* On every clock in BCD: the duration the dispatcher prints is, but for whole days, a time
\* between that of the program and that from the first call of time() to the second.
THEOREM DurationsAreElapsed == ClockSpec => DurationIsElapsed
<1>1. ClockInit => DurationInv
  BY DEF ClockInit, DurationInv
<1>2. ClockInv /\ DurationInv /\ [Tick \/ Cpu \/ Kernel]_clockVars => DurationInv'
  BY DurationStep
<1>3. ClockInv /\ DurationInv =>
        [EndReturns /\ ~ format.binary /\ FAILED \notin {ret, start_cycles} /\ elapsed < MaxElapsed =>
           duration_cycles' % Day \in ran .. elapsed]_clockVars
  BY DurationShown
<1> QED BY <1>1, <1>2, <1>3, ClockInvariant, PTL DEF ClockSpec, DurationIsElapsed

(***************************************************************************)
(* Clock: how long a call can take                                         *)
(***************************************************************************)
\* The reads that a call has before it at most: those of this attempt, and six for every
\* attempt that it may still make.
Reading == {"sec", "min", "hrs", "sec2", "min2", "hrs2"}
ReadsAhead ==
  CASE pc = "sec" -> 6 [] pc = "min" -> 5 [] pc = "hrs" -> 4
    [] pc = "sec2" -> 3 [] pc = "min2" -> 2 [] pc = "hrs2" -> 1
ReadsLeft == 6 * (Tries - 1 - cnt) + ReadsAhead

ReadsBounded == pc \in Reading => ReadsLeft \in 1 .. 6 * Tries

\* In a call nothing happens but that the clock goes on, which leaves as many reads as there
\* were, and that a register is read, which leaves fewer or ends the reading.
GetsOn ==
  pc \in Reading =>
    \/ Tick /\ pc' = pc /\ ReadsLeft' = ReadsLeft
    \/ ReadRegisters /\ (pc' = "decode" \/ (pc' \in Reading /\ ReadsLeft' < ReadsLeft))
CallsGetOn == [][GetsOn]_clockVars

LEMMA ReadsAheadIs ==
  ASSUME pc \in Reading
  PROVE  ReadsAhead \in 1 .. 6
BY DEF Reading, ReadsAhead

LEMMA AttemptsAreFew ==
  ASSUME ClockInv, pc \in Reading
  PROVE  cnt \in 0 .. Tries - 1
BY DEF ClockInv, ClockTypeOK, Reading, Tries

LEMMA RegisterRead ==
  ASSUME ClockInv, pc \in Reading, ReadRegisters
  PROVE  pc' = "decode" \/ (pc' \in Reading /\ ReadsLeft' < ReadsLeft)
<1>1. cnt \in 0 .. Tries - 1 /\ Tries = 4
  BY AttemptsAreFew DEF Tries
<1>2. ASSUME cnt' = cnt, pc' \in Reading, ReadsAhead' = ReadsAhead - 1
      PROVE  ReadsLeft' < ReadsLeft
  BY <1>1, <1>2, ReadsAheadIs DEF ReadsLeft
<1>3. CASE FirstPass
  <2>1. cnt' = cnt
    BY <1>3 DEF FirstPass
  <2>2. pc' \in Reading /\ ReadsAhead' = ReadsAhead - 1
    BY <1>3 DEF FirstPass, ReadSec, ReadMin, ReadHrs, Reading, ReadsAhead
  <2> QED BY <1>2, <2>1, <2>2
<1>4. CASE SecondPass
  <2>1. cnt' = cnt /\ pc \in {"sec2", "min2", "hrs2"}
    BY <1>4 DEF SecondPass
  <2>2. CASE pc = "hrs2"
    BY <1>4, <2>2 DEF SecondPass
  <2>3. CASE pc = "sec2"
    <3>1. pc' = "min2"
      BY <1>4, <2>3 DEF SecondPass
    <3> QED BY <1>2, <2>1, <2>3, <3>1 DEF Reading, ReadsAhead
  <2>4. CASE pc = "min2"
    <3>1. pc' = "hrs2"
      BY <1>4, <2>4 DEF SecondPass
    <3> QED BY <1>2, <2>1, <2>4, <3>1 DEF Reading, ReadsAhead
  <2> QED BY <2>1, <2>2, <2>3, <2>4
<1>5. CASE TryAgain
  <2>1. cnt' = cnt + 1 /\ pc' = (IF cnt + 1 < Tries THEN "sec" ELSE "decode")
    BY <1>5 DEF TryAgain, OneMore
  <2>2. CASE cnt + 1 < Tries
    <3>1. pc' = "sec" /\ pc' \in Reading
      BY <2>1, <2>2 DEF Reading
    <3>2. ReadsAhead' = 6
      BY <3>1 DEF ReadsAhead
    <3>3. ReadsLeft' < ReadsLeft
      BY <1>1, <2>1, <3>2, ReadsAheadIs DEF ReadsLeft
    <3> QED BY <3>1, <3>3
  <2>3. CASE ~ (cnt + 1 < Tries)
    BY <2>1, <2>3
  <2> QED BY <2>2, <2>3
<1> QED BY <1>3, <1>4, <1>5 DEF ReadRegisters

\* On every clock a call of time() makes at most 24 reads, however often the clock goes
\* on between them, and nothing but its reads brings it on.
THEOREM CallsAreBounded == ClockSpec => []ReadsBounded /\ CallsGetOn
<1>1. ClockInv => ReadsBounded
  <2> SUFFICES ASSUME ClockInv, pc \in Reading PROVE ReadsLeft \in 1 .. 6 * Tries
    BY DEF ReadsBounded
  <2>1. cnt \in 0 .. Tries - 1 /\ Tries = 4 /\ ReadsAhead \in 1 .. 6
    BY AttemptsAreFew, ReadsAheadIs DEF Tries
  <2> QED BY <2>1 DEF ReadsLeft
<1>2. ASSUME ClockInv, Tick \/ Cpu \/ Kernel, pc \in Reading
      PROVE  \/ Tick /\ pc' = pc /\ ReadsLeft' = ReadsLeft
             \/ ReadRegisters /\ (pc' = "decode" \/ (pc' \in Reading /\ ReadsLeft' < ReadsLeft))
  <2>1. CASE Tick
    <3>1. pc' = pc /\ cnt' = cnt
      BY <2>1 DEF Tick, callVars
    <3> QED BY <2>1, <3>1 DEF ReadsLeft, ReadsAhead
  <2>2. CASE Cpu
    <3>1. ReadRegisters
      BY <1>2, <2>2 DEF Cpu, Returns, StartReturns, EndReturns, NowReturns, Reading
    <3> QED BY <1>2, <3>1, RegisterRead
  <2>3. CASE Kernel
    <3>1. caller \in {"typing", "running"}
      BY <2>3 DEF Kernel, DispatchProgram, DispatchOther, ProgramReturns
    <3>2. pc = "idle"
      BY <1>2, <3>1 DEF ClockInv, ClockTypeOK
    <3> QED BY <1>2, <3>2 DEF Reading
  <2> QED BY <1>2, <2>1, <2>2, <2>3
<1>3. ClockInv /\ [Tick \/ Cpu \/ Kernel]_clockVars => [GetsOn]_clockVars
  BY <1>2 DEF GetsOn
<1> QED BY <1>1, <1>3, ClockInvariant, PTL DEF ClockSpec, CallsGetOn

(****************************************************************************)
(* Malloc: blocks                                                            *)
(****************************************************************************)
\* The blocks lie between the start of the array and the pointer.
BlocksBelow ==
  \A b \in blocks :
    /\ b.ptr \in Nat /\ b.size \in Nat
    /\ noosrt_mem <= b.ptr /\ b.ptr + b.size <= mem_ptr

\* Only bytes of blocks are written.
WrittenInBlocks == \A a \in written : \E b \in blocks : a \in Block(b.ptr, b.size)

\* The inductive invariant: what is handed out lies below the pointer, what is free
\* above it.
MallocInv == FreeIsTheRest /\ BlocksBelow /\ BlocksDisjoint /\ WrittenInBlocks

\* A size_t is not negative.
LEMMA UnsignedIsNat ==
  ASSUME NEW n \in Int
  PROVE  Unsigned(n) \in Nat
BY MallocAssumption, SMT DEF Unsigned

\* The bytes malloctst fills are those malloc() counted: its loop does not run for a
\* negative size, and a size it accepts fits a size_t.
LEMMA FilledAreCounted ==
  ASSUME NEW size \in Sizes, size <= SizeLimit, NEW ptr \in Nat
  PROVE  Block(ptr, size) \subseteq Block(ptr, Unsigned(size))
<1>0. size \in Int /\ Unsigned(size) \in Nat
  BY MallocAssumption, UnsignedIsNat
<1>1. CASE size < 0
  BY <1>0, <1>1 DEF Block
<1>2. CASE size >= 0
  <2>1. size \in 0 .. Word - 1
    BY <1>0, <1>2, MallocAssumption, SMT
  <2>2. Unsigned(size) = size
    BY <2>1, MallocAssumption, SMT DEF Unsigned
  <2> QED BY <2>2
<1> QED BY <1>0, <1>1, <1>2

\* What malloc() does keeps the blocks apart.
LEMMA TakeInv ==
  ASSUME MallocInv, NEW size \in Sizes, Take(size)
  PROVE  (FreeIsTheRest /\ BlocksBelow /\ BlocksDisjoint)' /\ blocks \subseteq blocks'
<1>0. size \in Int /\ Unsigned(size) \in Nat
  BY MallocAssumption, UnsignedIsNat
<1>1. CASE ~ Fits(size)
  BY <1>1 DEF Take, MallocInv, FreeIsTheRest, BlocksBelow, BlocksDisjoint
<1>2. CASE Fits(size)
  <2> DEFINE new == [ptr |-> mem_ptr, size |-> Unsigned(size)]
  <2>1. /\ mem_ptr' = mem_ptr + Unsigned(size)
        /\ free_mem' = free_mem - Unsigned(size)
        /\ blocks' = blocks \cup {new}
        /\ Unsigned(size) <= free_mem
    BY <1>2 DEF Take, Remaining, Advanced, Fits
  <2>2. FreeIsTheRest'
    BY <1>0, <2>1, MallocAssumption DEF MallocInv, FreeIsTheRest
  <2>3. new.ptr = mem_ptr /\ new.size = Unsigned(size)
    OBVIOUS
  <2>4. mem_ptr \in Nat /\ noosrt_mem <= mem_ptr
    BY MallocAssumption DEF MallocInv, FreeIsTheRest
  <2>5. BlocksBelow'
    <3> SUFFICES ASSUME NEW b \in blocks'
                 PROVE  /\ b.ptr \in Nat /\ b.size \in Nat
                        /\ noosrt_mem <= b.ptr /\ b.ptr + b.size <= mem_ptr'
      BY DEF BlocksBelow
    <3>1. CASE b \in blocks
      BY <3>1, <1>0, <2>1, <2>4 DEF MallocInv, BlocksBelow
    <3>2. CASE b = new
      BY <3>2, <1>0, <2>1, <2>3, <2>4
    <3> QED BY <3>1, <3>2, <2>1
  <2>6. ASSUME NEW b \in blocks
        PROVE  Block(b.ptr, b.size) \cap Block(new.ptr, new.size) = {}
    <3>1. b.ptr \in Nat /\ b.size \in Nat /\ b.ptr + b.size <= mem_ptr
      BY <2>6 DEF MallocInv, BlocksBelow
    <3> QED BY <3>1, <2>3, <2>4, <1>0 DEF Block
  <2>7. BlocksDisjoint'
    <3> SUFFICES ASSUME NEW b \in blocks', NEW c \in blocks', b # c
                 PROVE  Block(b.ptr, b.size) \cap Block(c.ptr, c.size) = {}
      BY DEF BlocksDisjoint
    <3>1. CASE b \in blocks /\ c \in blocks
      BY <3>1 DEF MallocInv, BlocksDisjoint
    <3>2. CASE b \in blocks /\ c = new
      BY <3>2, <2>6
    <3>3. CASE c \in blocks /\ b = new
      BY <3>3, <2>6
    <3> QED BY <3>1, <3>2, <3>3, <2>1
  <2> QED BY <2>1, <2>2, <2>5, <2>7
<1> QED BY <1>1, <1>2

\* The blocks stay apart, inside the array and the only ones written, at every step.
LEMMA MallocInvStep == MallocInv /\ [MallocNext]_mallocVars => MallocInv'
<1> SUFFICES ASSUME MallocInv, [MallocNext]_mallocVars PROVE MallocInv'
  OBVIOUS
<1>1. CASE Restart
  BY <1>1, MallocAssumption
     DEF Restart, MallocInv, FreeIsTheRest, BlocksBelow, BlocksDisjoint, WrittenInBlocks
<1>2. CASE UNCHANGED mallocVars
  BY <1>2 DEF mallocVars, MallocInv, FreeIsTheRest, BlocksBelow, BlocksDisjoint, WrittenInBlocks
<1>3. ASSUME NEW size \in Sizes, Malloctst(size), size <= SizeLimit
      PROVE  MallocInv'
  <2>1. Take(size) /\ written' = IF Malloc(size) = NULL THEN written
                                 ELSE written \cup Block(Malloc(size), size)
    <3>1. ~ (size > SizeLimit)
      BY <1>3, MallocAssumption
    <3> QED BY <1>3, <3>1 DEF Malloctst
  <2>2. (FreeIsTheRest /\ BlocksBelow /\ BlocksDisjoint)' /\ blocks \subseteq blocks'
    BY <2>1, TakeInv
  <2>3. WrittenInBlocks'
    <3> SUFFICES ASSUME NEW a \in written'
                 PROVE  \E b \in blocks' : a \in Block(b.ptr, b.size)
      BY DEF WrittenInBlocks
    <3>1. CASE a \in written
      BY <3>1, <2>2 DEF MallocInv, WrittenInBlocks
    <3>2. CASE a \notin written
      <4>1. Malloc(size) # NULL /\ a \in Block(Malloc(size), size)
        BY <2>1, <3>2
      <4>2. Fits(size) /\ Malloc(size) = mem_ptr
        BY <4>1 DEF Malloc
      <4>3. a \in Block(mem_ptr, Unsigned(size))
        BY <4>1, <4>2, <1>3, FilledAreCounted DEF MallocInv, FreeIsTheRest
      <4>4. [ptr |-> mem_ptr, size |-> Unsigned(size)] \in blocks'
        BY <2>1, <4>2 DEF Take
      <4> QED BY <4>3, <4>4
    <3> QED BY <3>1, <3>2
  <2> QED BY <2>2, <2>3 DEF MallocInv
<1>4. ASSUME NEW size \in Sizes, Malloctst(size), size > SizeLimit
      PROVE  MallocInv'
  BY <1>4, <1>2 DEF Malloctst
<1>5. \A size \in Sizes : size <= SizeLimit \/ size > SizeLimit
  BY MallocAssumption
<1> QED BY <1>1, <1>2, <1>3, <1>4, <1>5 DEF MallocNext

LEMMA MallocInvariant == MallocSpec => []MallocInv
<1>1. MallocInit => MallocInv
  BY MallocAssumption
     DEF MallocInit, MallocInv, FreeIsTheRest, BlocksBelow, BlocksDisjoint, WrittenInBlocks
<1> QED BY <1>1, MallocInvStep, PTL DEF MallocSpec

\* The pointer and the counter of free memory always describe the same place.
THEOREM PointerAndCounterAgree == MallocSpec => []FreeIsTheRest
<1>1. MallocInv => FreeIsTheRest
  BY DEF MallocInv
<1> QED BY <1>1, MallocInvariant, PTL

\* Two blocks never share a byte.
THEOREM BlocksNeverOverlap == MallocSpec => []BlocksDisjoint
<1>1. MallocInv => BlocksDisjoint
  BY DEF MallocInv
<1> QED BY <1>1, MallocInvariant, PTL

\* Nobody writes outside the array of the kernel, nor outside a block.
THEOREM ProgramsStayInTheirBlocks == MallocSpec => []WritesInBlocks
<1>1. ASSUME MallocInv PROVE WritesInBlocks
  <2>1. ASSUME NEW a \in written PROVE a \in Pool
    <3>1. PICK b \in blocks : a \in Block(b.ptr, b.size)
      BY <1>1, <2>1 DEF MallocInv, WrittenInBlocks
    <3>2. /\ b.ptr \in Nat /\ b.size \in Nat
          /\ noosrt_mem <= b.ptr /\ b.ptr + b.size <= mem_ptr
      BY <1>1 DEF MallocInv, BlocksBelow
    <3> QED BY <1>1, <3>1, <3>2, MallocAssumption DEF MallocInv, FreeIsTheRest, Pool, Block
  <2> QED BY <1>1, <2>1 DEF WritesInBlocks, MallocInv, WrittenInBlocks
<1> QED BY <1>1, MallocInvariant, PTL

(****************************************************************************)
(* Terminal: the cursor and what is written                                  *)
(****************************************************************************)
\* The inductive invariant.
TerminalInv == DOMAIN terminal_buffer = Memory /\ CursorOnScreen /\ WritesOnScreen

\* A place on the screen has its cell there.
LEMMA PlaceHasCell ==
  ASSUME NEW row \in 0 .. VGA_HEIGHT - 1, NEW col \in 0 .. VGA_WIDTH - 1
  PROVE  Index(row, col) \in Screen
<1> DEFINE W == VGA_WIDTH  H == VGA_HEIGHT
<1>1. W \in Nat /\ H \in Nat /\ row \in Nat /\ col \in Nat
  BY TerminalAssumption
<1>2. row * W \in Nat /\ W * H \in Nat
  BY <1>1
<1>3. (H - 1 - row) * W >= 0
  BY <1>1
<1>4. (H - 1 - row) * W = W * H - W - row * W
  BY <1>1
<1>5. row * W + col <= W * H - 1
  BY <1>1, <1>2, <1>3, <1>4
<1> QED BY <1>1, <1>2, <1>5 DEF Index, Screen

\* The screen is a part of the memory.
LEMMA ScreenInMemory == Screen \subseteq Memory
<1>1. VGA_WIDTH * VGA_HEIGHT \in Nat
  BY TerminalAssumption
<1> QED BY <1>1, TerminalAssumption DEF Screen, Memory

\* Putting a character on the screen changes nothing outside it.
LEMMA PutOnScreen ==
  ASSUME NEW buffer, DOMAIN buffer = Memory, NEW c,
         NEW row \in 0 .. VGA_HEIGHT - 1, NEW col \in 0 .. VGA_WIDTH - 1
  PROVE  /\ DOMAIN PutEntryAt(buffer, c, col, row) = Memory
         /\ \A i \in Memory \ Screen : PutEntryAt(buffer, c, col, row)[i] = buffer[i]
<1>1. Index(row, col) \in Screen
  BY PlaceHasCell
<1> QED BY <1>1 DEF PutEntryAt

\* Neither does scrolling.
LEMMA ScrollOnScreen ==
  ASSUME NEW buffer
  PROVE  /\ DOMAIN Scroll(buffer) = Memory
         /\ \A i \in Memory \ Screen : Scroll(buffer)[i] = buffer[i]
BY DEF Scroll

\* Every character keeps the cursor and the writes on the screen.
LEMMA PutcharStep == TerminalInv /\ [terminal_putchar]_terminalVars => TerminalInv'
<1> SUFFICES ASSUME TerminalInv, [terminal_putchar]_terminalVars PROVE TerminalInv'
  OBVIOUS
<1>0. /\ terminal_row \in 0 .. VGA_HEIGHT - 1 /\ terminal_column \in Int
      /\ VGA_HEIGHT \in Nat \ {0} /\ VGA_WIDTH \in Nat \ {0, 1}
      /\ ~ strayed => terminal_column \in 0 .. VGA_WIDTH - 1
      /\ ~ strayed => \A i \in Memory \ Screen : terminal_buffer[i] = Beyond
      /\ DOMAIN terminal_buffer = Memory
  BY TerminalAssumption DEF TerminalInv, CursorOnScreen, WritesOnScreen
<1>1. CASE Put(NewLine) /\ PutNewLine
  <2>1. ~ strayed' => ~ strayed
    BY <1>1 DEF Put
  <2>2. CASE AtBottom
    BY <1>0, <1>1, <2>1, <2>2, ScrollOnScreen
       DEF PutNewLine, TerminalInv, CursorOnScreen, WritesOnScreen
  <2>3. CASE ~ AtBottom
    BY <1>0, <1>1, <2>1, <2>3 DEF PutNewLine, AtBottom, TerminalInv, CursorOnScreen, WritesOnScreen
  <2> QED BY <2>2, <2>3
<1>2. CASE Put(Tab) /\ PutTab
  <2>1. ~ strayed' => ~ strayed /\ ~ Strays(Tab)
    BY <1>2 DEF Put
  <2>2. ~ strayed' => terminal_column + TabWidth < VGA_WIDTH
    BY <1>0, <2>1 DEF Strays, TabWidth
  <2> QED BY <1>0, <1>2, <2>1, <2>2
          DEF PutTab, TabWidth, TerminalInv, CursorOnScreen, WritesOnScreen
<1>3. CASE Put(Backspace) /\ PutBackspace
  <2>1. ~ strayed' => ~ strayed /\ ~ Strays(Backspace)
    BY <1>3 DEF Put
  <2>2. ~ strayed' => ~ strayed /\ terminal_column # 0
    BY <2>1 DEF Strays
  <2>3. DOMAIN terminal_buffer' = Memory
    BY <1>0, <1>3 DEF PutBackspace, PutEntryAt
  <2>4. CursorOnScreen'
    BY <1>0, <1>3, <2>2 DEF PutBackspace, CursorOnScreen
  <2>5. ASSUME ~ strayed' PROVE \A i \in Memory \ Screen : terminal_buffer'[i] = Beyond
    <3>1. terminal_column \in 0 .. VGA_WIDTH - 1 /\ terminal_column - 1 \in 0 .. VGA_WIDTH - 1
      BY <1>0, <2>2, <2>5
    <3> DEFINE first == PutEntryAt(terminal_buffer, Blank, terminal_column, terminal_row)
    <3>2. DOMAIN first = Memory /\ \A i \in Memory \ Screen : first[i] = terminal_buffer[i]
      BY <1>0, <3>1, PutOnScreen
    <3>3. \A i \in Memory \ Screen :
            PutEntryAt(first, Blank, terminal_column - 1, terminal_row)[i] = first[i]
      <4> HIDE DEF first
      <4> QED BY <1>0, <3>1, <3>2, PutOnScreen
    <3> QED BY <1>0, <1>3, <2>2, <2>5, <3>2, <3>3 DEF PutBackspace
  <2> QED BY <2>3, <2>4, <2>5 DEF TerminalInv, WritesOnScreen
<1>4. ASSUME NEW c \in Char, Put(c), PutPlain(c) PROVE TerminalInv'
  <2>1. ~ strayed' => ~ strayed
    BY <1>4 DEF Put
  <2>2. DOMAIN terminal_buffer' = Memory
    BY <1>0, <1>4 DEF PutPlain, PutEntryAt
  <2>3. CursorOnScreen'
    BY <1>0, <1>4, <2>1 DEF PutPlain, AtBottom, CursorOnScreen
  <2>4. ASSUME ~ strayed' PROVE \A i \in Memory \ Screen : terminal_buffer'[i] = Beyond
    BY <1>0, <1>4, <2>1, <2>4, PutOnScreen DEF PutPlain
  <2> QED BY <2>2, <2>3, <2>4 DEF TerminalInv, WritesOnScreen
<1>5. CASE UNCHANGED terminalVars
  BY <1>5 DEF terminalVars, TerminalInv, CursorOnScreen, WritesOnScreen
<1> QED BY <1>1, <1>2, <1>3, <1>4, <1>5 DEF terminal_putchar

LEMMA TerminalInvariant == TerminalSpec => []TerminalInv
<1>1. TerminalInit => TerminalInv
  BY TerminalAssumption
     DEF TerminalInit, TerminalInv, CursorOnScreen, WritesOnScreen
<1> QED BY <1>1, PutcharStep, PTL DEF TerminalSpec

\* On every screen the cursor stays in a row, whatever is printed, and in a column while
\* the output keeps to what the code handles.
THEOREM CursorStaysOnScreen == TerminalSpec => []CursorOnScreen
<1>1. TerminalInv => CursorOnScreen
  BY DEF TerminalInv
<1> QED BY <1>1, TerminalInvariant, PTL

\* On every screen such output never changes the memory before or behind it.
THEOREM TerminalWritesOnScreen == TerminalSpec => []WritesOnScreen
<1>1. TerminalInv => WritesOnScreen
  BY DEF TerminalInv
<1> QED BY <1>1, TerminalInvariant, PTL

(***************************************************************************)
(* Terminal: the screen shows the end of the text                          *)
(***************************************************************************)
\* A cell shows the character of a place of the roll, or is blank if there is none.
Agrees(cell, shown) == IF shown = {} THEN cell = Blank ELSE cell \in shown

\* What the roll and the screen have in common while nothing has strayed: the column, the
\* rows down to the cursor, and that nothing stands below it.
SameCursor == paper.row \in Int /\ paper.col = terminal_column
NothingBelow == \A r, c \in Int : r > paper.row => CharactersAt(paper, r, c) = {}
SameText ==
  \A row \in 0 .. VGA_HEIGHT - 1, col \in 0 .. VGA_WIDTH - 1 :
    Agrees(terminal_buffer[Index(row, col)],
           CharactersAt(paper, paper.row - terminal_row + row, col))

PaperInv == ~ strayed /\ ~ over => SameCursor /\ NothingBelow /\ SameText

\* Two places of the screen have two cells.
LEMMA PlacesHaveOwnCells ==
  ASSUME NEW row \in Int, NEW row2 \in Int, NEW col \in 0 .. VGA_WIDTH - 1,
         NEW col2 \in 0 .. VGA_WIDTH - 1, Index(row, col) = Index(row2, col2)
  PROVE  row = row2 /\ col = col2
<1> DEFINE W == VGA_WIDTH
<1>1. W \in Nat /\ W > 0 /\ col \in Nat /\ col2 \in Nat /\ col < W /\ col2 < W
  BY TerminalAssumption
<1>2. row * W + col = row2 * W + col2
  BY DEF Index
<1>3. ~ row < row2
  <2> SUFFICES ASSUME row < row2 PROVE FALSE
    OBVIOUS
  <2>1. (row2 - row - 1) * W >= 0
    BY <1>1
  <2>2. (row2 - row - 1) * W = row2 * W - row * W - W
    BY <1>1
  <2>3. row * W \in Int /\ row2 * W \in Int
    BY <1>1
  <2> QED BY <1>1, <1>2, <2>1, <2>2, <2>3
<1>4. ~ row2 < row
  <2> SUFFICES ASSUME row2 < row PROVE FALSE
    OBVIOUS
  <2>1. (row - row2 - 1) * W >= 0
    BY <1>1
  <2>2. (row - row2 - 1) * W = row * W - row2 * W - W
    BY <1>1
  <2>3. row * W \in Int /\ row2 * W \in Int
    BY <1>1
  <2> QED BY <1>1, <1>2, <2>1, <2>2, <2>3
<1>5. row = row2
  BY <1>3, <1>4
<1>6. row * W \in Int
  BY <1>1
<1> QED BY <1>1, <1>2, <1>5, <1>6

\* Putting a character on the screen changes its own place only.
LEMMA PutOnPlace ==
  ASSUME NEW buffer, DOMAIN buffer = Memory, NEW c,
         NEW row \in 0 .. VGA_HEIGHT - 1, NEW col \in 0 .. VGA_WIDTH - 1,
         NEW row2 \in 0 .. VGA_HEIGHT - 1, NEW col2 \in 0 .. VGA_WIDTH - 1
  PROVE  PutEntryAt(buffer, c, col, row)[Index(row2, col2)] =
           IF row2 = row /\ col2 = col THEN c ELSE buffer[Index(row2, col2)]
<1>1. Index(row, col) \in DOMAIN buffer /\ Index(row2, col2) \in DOMAIN buffer
  BY PlaceHasCell, ScreenInMemory
<1>2. Index(row, col) = Index(row2, col2) => row = row2 /\ col = col2
  BY PlacesHaveOwnCells, TerminalAssumption
<1> QED BY <1>1, <1>2 DEF PutEntryAt

\* Scrolling brings each row one up; what comes up last is from behind the screen.
LEMMA ScrolledPlace ==
  ASSUME NEW buffer, NEW row \in 0 .. VGA_HEIGHT - 1, NEW col \in 0 .. VGA_WIDTH - 1
  PROVE  /\ Scroll(buffer)[Index(row, col)] = buffer[Index(row + 1, col)]
         /\ row = VGA_HEIGHT - 1 => Index(row + 1, col) \in Memory \ Screen
<1> DEFINE W == VGA_WIDTH  H == VGA_HEIGHT
<1>1. W \in Nat /\ H \in Nat /\ row \in Nat /\ col \in Nat /\ col < W
      /\ Margin \in Nat /\ Margin >= W
  BY TerminalAssumption
<1>2. Index(row, col) + W = Index(row + 1, col)
  BY <1>1 DEF Index
<1>3. Index(row, col) \in Screen /\ Index(row, col) \in Memory
  BY PlaceHasCell, ScreenInMemory
<1>4. Scroll(buffer)[Index(row, col)] = buffer[Index(row + 1, col)]
  BY <1>2, <1>3 DEF Scroll
<1>5. ASSUME row = H - 1
      PROVE  Index(row + 1, col) \in Memory \ Screen
  <2>1. row + 1 = H /\ H * W = W * H /\ W * H \in Nat
    BY <1>1, <1>5
  <2>2. Index(row + 1, col) = W * H + col
    BY <2>1 DEF Index
  <2> QED BY <1>1, <2>1, <2>2 DEF Memory, Screen
<1> QED BY <1>4, <1>5

\* Each kind of character on the roll.
LEMMA RolledControls ==
  ASSUME NEW roll
  PROVE  /\ LET next == OnRoll(roll, NewLine)
            IN  next.row = roll.row + 1 /\ next.col = 0 /\ next.marks = roll.marks
         /\ LET next == OnRoll(roll, Tab)
            IN  /\ next.row = roll.row /\ next.col = roll.col + TabWidth
                /\ next.marks = roll.marks
         /\ LET next == OnRoll(roll, Backspace)
            IN  /\ next.row = roll.row /\ next.col = roll.col - 1
                /\ next.marks = Erase(roll.marks, roll.row, {roll.col, roll.col - 1})
<1>1. NewLine # Tab /\ NewLine # Backspace /\ Tab # Backspace
  BY DEF NewLine, Tab, Backspace
<1> QED BY <1>1 DEF OnRoll

LEMMA RolledPlain ==
  ASSUME NEW roll, NEW c \in Char
  PROVE  LET wraps == roll.col + 1 = VGA_WIDTH
             next == OnRoll(roll, c)
         IN  /\ next.row = IF wraps THEN roll.row + 1 ELSE roll.row
             /\ next.col = IF wraps THEN 0 ELSE roll.col + 1
             /\ next.marks = Erase(roll.marks, roll.row, {roll.col})
                               \cup {[row |-> roll.row, col |-> roll.col, char |-> c]}
<1>1. c # NewLine /\ c # Tab /\ c # Backspace
  BY CharAssumption
<1> QED BY <1>1 DEF OnRoll

\* What stands on the roll after a character was written.
LEMMA WrittenAt ==
  ASSUME NEW roll, NEW c \in Char, NEW r, NEW k
  PROVE  CharactersAt(OnRoll(roll, c), r, k) =
           IF r = roll.row /\ k = roll.col THEN {c} ELSE CharactersAt(roll, r, k)
<1> DEFINE new == OnRoll(roll, c).marks
           row == roll.row
           col == roll.col
           mark == [row |-> row, col |-> col, char |-> c]
<1>1. mark.row = row /\ mark.col = col /\ mark.char = c
  OBVIOUS
<1>2. new = {m \in roll.marks : ~ (m.row = row /\ m.col \in {col})} \cup {mark}
  BY RolledPlain DEF Erase
<1> HIDE DEF mark, new, row, col
<1>3. CharactersAt(OnRoll(roll, c), r, k) = {m.char : m \in {n \in new : n.row = r /\ n.col = k}}
  BY DEF CharactersAt, new
<1>4. CASE r = row /\ k = col
  <2>1. {n \in new : n.row = r /\ n.col = k} = {mark}
    BY <1>1, <1>2, <1>4
  <2> QED BY <1>1, <1>3, <1>4, <2>1 DEF row, col
<1>5. CASE ~ (r = row /\ k = col)
  <2>1. {n \in new : n.row = r /\ n.col = k} = {n \in roll.marks : n.row = r /\ n.col = k}
    BY <1>1, <1>2, <1>5
  <2> QED BY <1>3, <1>5, <2>1 DEF CharactersAt, row, col
<1> QED BY <1>4, <1>5

\* A new line: the screen scrolls exactly when the roll goes on below it.
LEMMA NewLineShown ==
  ASSUME BlankBeyond, TerminalInv, PaperInv, ~ strayed', ~ over', Put(NewLine), PutNewLine
  PROVE  SameCursor' /\ NothingBelow' /\ SameText'
<1>1. /\ ~ strayed /\ ~ over /\ paper' = OnRoll(paper, NewLine)
      /\ paper.row \in Int /\ paper.col = terminal_column
  BY DEF Put, PaperInv, SameCursor
<1>2. paper'.row = paper.row + 1 /\ paper'.col = 0 /\ paper'.marks = paper.marks
  BY <1>1, RolledControls
<1>3. \A r, c : CharactersAt(paper', r, c) = CharactersAt(paper, r, c)
  BY <1>2 DEF CharactersAt
<1>4. SameCursor'
  BY <1>1, <1>2 DEF PutNewLine, SameCursor
<1>5. NothingBelow'
  BY <1>1, <1>2, <1>3 DEF PaperInv, NothingBelow
<1>6. terminal_row \in 0 .. VGA_HEIGHT - 1 /\ VGA_HEIGHT \in Nat /\ VGA_WIDTH \in Nat
  BY TerminalAssumption DEF TerminalInv, CursorOnScreen
<1>7. SameText'
  <2> SUFFICES ASSUME NEW row \in 0 .. VGA_HEIGHT - 1, NEW col \in 0 .. VGA_WIDTH - 1
               PROVE  Agrees(terminal_buffer'[Index(row, col)],
                             CharactersAt(paper', paper'.row - terminal_row' + row, col))
    BY DEF SameText
  <2>1. CASE ~ AtBottom
    <3>1. terminal_buffer' = terminal_buffer /\ terminal_row' = terminal_row + 1
      BY <2>1 DEF PutNewLine
    <3>2. paper'.row - terminal_row' + row = paper.row - terminal_row + row
      BY <1>1, <1>2, <1>6, <3>1
    <3> QED BY <1>1, <1>3, <3>1, <3>2 DEF PaperInv, SameText
  <2>2. CASE AtBottom
    <3>1. /\ terminal_buffer' = Scroll(terminal_buffer)
          /\ terminal_row = VGA_HEIGHT - 1 /\ terminal_row' = VGA_HEIGHT - 1
      BY <1>6, <2>2 DEF PutNewLine, AtBottom
    <3>2. terminal_buffer'[Index(row, col)] = terminal_buffer[Index(row + 1, col)]
      BY <3>1, ScrolledPlace
    <3>3. paper'.row - terminal_row' + row = paper.row - terminal_row + (row + 1)
      BY <1>1, <1>2, <1>6, <3>1
    <3>4. CASE row + 1 \in 0 .. VGA_HEIGHT - 1
      BY <1>1, <1>3, <3>2, <3>3, <3>4 DEF PaperInv, SameText
    <3>5. CASE row = VGA_HEIGHT - 1
      <4>1. terminal_buffer[Index(row + 1, col)] = Blank
        BY <1>1, <3>5, ScrolledPlace DEF TerminalInv, WritesOnScreen, BlankBeyond
      <4>2. paper'.row - terminal_row' + row = paper.row + 1 /\ col \in Int
        BY <1>1, <1>2, <1>6, <3>1, <3>5
      <4>3. CharactersAt(paper, paper.row + 1, col) = {}
        BY <1>1, <4>2 DEF PaperInv, NothingBelow
      <4> QED BY <1>3, <3>2, <4>1, <4>2, <4>3 DEF Agrees
    <3> QED BY <1>6, <3>4, <3>5
  <2> QED BY <2>1, <2>2
<1> QED BY <1>4, <1>5, <1>7

LEMMA TabShown ==
  ASSUME TerminalInv, PaperInv, ~ strayed', ~ over', Put(Tab), PutTab
  PROVE  SameCursor' /\ NothingBelow' /\ SameText'
<1>1. /\ ~ strayed /\ ~ over /\ paper' = OnRoll(paper, Tab)
      /\ terminal_column' = terminal_column + TabWidth
      /\ terminal_row' = terminal_row /\ terminal_buffer' = terminal_buffer
  BY DEF Put, PutTab
<1>2. /\ paper'.row = paper.row /\ paper'.col = paper.col + TabWidth
      /\ paper'.marks = paper.marks
  BY <1>1, RolledControls
<1>3. \A r, c : CharactersAt(paper', r, c) = CharactersAt(paper, r, c)
  BY <1>2 DEF CharactersAt
<1> QED BY <1>1, <1>2, <1>3 DEF PaperInv, SameCursor, NothingBelow, SameText

\* A backspace blanks the place of the cursor and the one before it.
LEMMA BackspaceShown ==
  ASSUME TerminalInv, PaperInv, ~ strayed', ~ over', Put(Backspace), PutBackspace
  PROVE  SameCursor' /\ NothingBelow' /\ SameText'
<1> DEFINE x == terminal_column
           y == terminal_row
           first == PutEntryAt(terminal_buffer, Blank, x, y)
<1>1. /\ ~ strayed /\ ~ over /\ paper' = OnRoll(paper, Backspace) /\ x # 0
      /\ terminal_column' = x - 1 /\ terminal_row' = y
      /\ terminal_buffer' = PutEntryAt(first, Blank, x - 1, y)
  BY DEF Put, Strays, PutBackspace
<1>2. /\ y \in 0 .. VGA_HEIGHT - 1 /\ x \in 0 .. VGA_WIDTH - 1 /\ x - 1 \in 0 .. VGA_WIDTH - 1
      /\ DOMAIN terminal_buffer = Memory /\ paper.row \in Int /\ paper.col = x
      /\ VGA_HEIGHT \in Nat /\ VGA_WIDTH \in Nat
  BY <1>1, TerminalAssumption DEF TerminalInv, CursorOnScreen, PaperInv, SameCursor
<1>3. /\ paper'.row = paper.row /\ paper'.col = x - 1
      /\ paper'.marks = Erase(paper.marks, paper.row, {x, x - 1})
  BY <1>1, <1>2, RolledControls
<1>4. \A r, c : CharactersAt(paper', r, c) =
                  IF r = paper.row /\ c \in {x, x - 1} THEN {} ELSE CharactersAt(paper, r, c)
  BY <1>3 DEF Erase, CharactersAt
<1>5. SameCursor'
  BY <1>1, <1>2, <1>3 DEF SameCursor
<1>6. NothingBelow'
  BY <1>1, <1>3, <1>4 DEF PaperInv, NothingBelow
<1>7. SameText'
  <2> SUFFICES ASSUME NEW row \in 0 .. VGA_HEIGHT - 1, NEW col \in 0 .. VGA_WIDTH - 1
               PROVE  Agrees(terminal_buffer'[Index(row, col)],
                             CharactersAt(paper', paper'.row - terminal_row' + row, col))
    BY DEF SameText
  <2>1. first[Index(row, col)] = IF row = y /\ col = x THEN Blank
                                 ELSE terminal_buffer[Index(row, col)]
    BY <1>2, PutOnPlace
  <2>2. DOMAIN first = Memory
    BY <1>2 DEF PutEntryAt
  <2>3. terminal_buffer'[Index(row, col)] = IF row = y /\ col = x - 1 THEN Blank
                                            ELSE first[Index(row, col)]
    <3> HIDE DEF first
    <3> QED BY <1>1, <1>2, <2>2, PutOnPlace
  <2>4. /\ paper'.row - terminal_row' + row = paper.row - y + row
        /\ paper.row - y + row = paper.row <=> row = y
    BY <1>1, <1>2, <1>3
  <2>5. Agrees(terminal_buffer[Index(row, col)], CharactersAt(paper, paper.row - y + row, col))
    BY <1>1 DEF PaperInv, SameText
  <2> HIDE DEF first, x, y
  <2>6. CASE row = y /\ col \in {x, x - 1}
    BY <1>4, <2>1, <2>3, <2>4, <2>6 DEF Agrees
  <2>7. CASE ~ (row = y /\ col \in {x, x - 1})
    BY <1>4, <2>1, <2>3, <2>4, <2>5, <2>7
  <2> QED BY <2>6, <2>7
<1> QED BY <1>5, <1>6, <1>7

\* Any other character stands on the roll where it stands on the screen.
LEMMA PlainShown ==
  ASSUME TerminalInv, PaperInv, ~ strayed', ~ over', NEW c \in Char, Put(c), PutPlain(c)
  PROVE  SameCursor' /\ NothingBelow' /\ SameText'
<1> DEFINE x == terminal_column
           y == terminal_row
           wraps == x + 1 = VGA_WIDTH
<1>1. /\ ~ strayed /\ ~ over /\ paper' = OnRoll(paper, c) /\ ~ (AtBottom /\ wraps)
      /\ terminal_buffer' = PutEntryAt(terminal_buffer, c, x, y)
  BY DEF Put, RunsOn, PutPlain
<1>2. /\ terminal_column' = IF wraps THEN 0 ELSE x + 1
      /\ terminal_row' = IF wraps THEN y + 1 ELSE y
  BY <1>1 DEF PutPlain
<1>3. /\ y \in 0 .. VGA_HEIGHT - 1 /\ x \in 0 .. VGA_WIDTH - 1
      /\ DOMAIN terminal_buffer = Memory /\ paper.row \in Int /\ paper.col = x
      /\ VGA_HEIGHT \in Nat /\ VGA_WIDTH \in Nat
  BY <1>1, TerminalAssumption DEF TerminalInv, CursorOnScreen, PaperInv, SameCursor
<1>4. /\ paper'.row = IF wraps THEN paper.row + 1 ELSE paper.row
      /\ paper'.col = IF wraps THEN 0 ELSE x + 1
  BY <1>1, <1>3, RolledPlain
<1>5. \A r, k : CharactersAt(paper', r, k) =
                  IF r = paper.row /\ k = x THEN {c} ELSE CharactersAt(paper, r, k)
  BY <1>1, <1>3, WrittenAt
<1>6. SameCursor'
  BY <1>2, <1>3, <1>4 DEF SameCursor
<1>7. NothingBelow'
  <2> SUFFICES ASSUME NEW r \in Int, NEW k \in Int, r > paper'.row
               PROVE  CharactersAt(paper', r, k) = {}
    BY DEF NothingBelow
  <2>1. r > paper.row /\ r # paper.row
    BY <1>3, <1>4
  <2>2. CharactersAt(paper, r, k) = {}
    BY <1>1, <2>1 DEF PaperInv, NothingBelow
  <2> QED BY <1>5, <2>1, <2>2
<1>8. SameText'
  <2> SUFFICES ASSUME NEW row \in 0 .. VGA_HEIGHT - 1, NEW col \in 0 .. VGA_WIDTH - 1
               PROVE  Agrees(terminal_buffer'[Index(row, col)],
                             CharactersAt(paper', paper'.row - terminal_row' + row, col))
    BY DEF SameText
  <2>1. terminal_buffer'[Index(row, col)] =
          IF row = y /\ col = x THEN c ELSE terminal_buffer[Index(row, col)]
    BY <1>1, <1>3, PutOnPlace
  <2>2. /\ paper'.row - terminal_row' + row = paper.row - y + row
        /\ paper.row - y + row = paper.row <=> row = y
    BY <1>2, <1>3, <1>4
  <2>3. Agrees(terminal_buffer[Index(row, col)], CharactersAt(paper, paper.row - y + row, col))
    BY <1>1 DEF PaperInv, SameText
  <2> HIDE DEF x, y
  <2>4. CASE row = y /\ col = x
    BY <1>5, <2>1, <2>2, <2>4 DEF Agrees
  <2>5. CASE ~ (row = y /\ col = x)
    BY <1>5, <2>1, <2>2, <2>3, <2>5
  <2> QED BY <2>4, <2>5
<1> QED BY <1>6, <1>7, <1>8

LEMMA PaperStep ==
  ASSUME BlankBeyond, TerminalInv, PaperInv, [terminal_putchar]_terminalVars
  PROVE  PaperInv'
<1> SUFFICES ASSUME ~ strayed', ~ over' PROVE SameCursor' /\ NothingBelow' /\ SameText'
  BY DEF PaperInv
<1>1. CASE UNCHANGED terminalVars
  BY <1>1 DEF terminalVars, PaperInv, SameCursor, NothingBelow, SameText
<1> QED BY <1>1, NewLineShown, TabShown, BackspaceShown, PlainShown DEF terminal_putchar

LEMMA PaperAtFirst == TerminalInit => PaperInv
<1> SUFFICES ASSUME TerminalInit PROVE SameCursor /\ NothingBelow /\ SameText
  BY DEF PaperInv
<1>1. paper.row = 0 /\ paper.col = 0 /\ paper.marks = {}
  BY DEF TerminalInit, EmptyRoll
<1>2. \A r, c : CharactersAt(paper, r, c) = {}
  BY <1>1 DEF CharactersAt
<1>3. SameText
  <2> SUFFICES ASSUME NEW row \in 0 .. VGA_HEIGHT - 1, NEW col \in 0 .. VGA_WIDTH - 1
               PROVE  terminal_buffer[Index(row, col)] = Blank
    BY <1>2 DEF SameText, Agrees
  <2>1. Index(row, col) \in Screen /\ Index(row, col) \in Memory
    BY PlaceHasCell, ScreenInMemory
  <2> QED BY <2>1 DEF TerminalInit
<1> QED BY <1>1, <1>2, <1>3 DEF TerminalInit, SameCursor, NothingBelow

\* On every screen with a blank row behind it, whatever is printed of what the code handles,
\* in whatever order and however often it scrolls: the screen shows the end of the text.
THEOREM ScreenAlwaysShowsTheEnd ==
  ASSUME BlankBeyond
  PROVE  TerminalSpec => []ScreenShowsTheEnd
<1>1. PaperInv => ScreenShowsTheEnd
  BY DEF PaperInv, SameText, Agrees, ScreenShowsTheEnd
<1>2. TerminalInit => PaperInv
  BY PaperAtFirst
<1>3. TerminalInv /\ PaperInv /\ [terminal_putchar]_terminalVars => PaperInv'
  BY PaperStep
<1> QED BY <1>1, <1>2, <1>3, TerminalInvariant, PTL DEF TerminalSpec
=============================================================================
