----------------------------- MODULE NumberText ------------------------------
(***************************************************************************)
(* How printf() writes numbers (NoOSrt/src/tty.c): ltoa1 for %d and %x and *)
(* for small %ld, _noosrt_ltoa2_div10 for the others, which finds each     *)
(* digit by subtracting a power of ten until it no longer goes.            *)
(*                                                                         *)
(* A character is the number added to '0' (or to 'a' - 10) to make it: a   *)
(* digit of the base, or something else when it is negative.               *)
(***************************************************************************)
EXTENDS Integers, Sequences

CONSTANTS
  IntLimit,       \* 2^31: an int is in -IntLimit .. IntLimit - 1
  DirectLimit,    \* 0x7ffffff, the last long that ltoa1 writes
  MaxPower,       \* 18, the power of ten that div10 begins with
  TextSize,       \* 32, the size of the buffers
  Ints, Longs     \* the numbers that programs print

VARIABLES
  conversion,     \* "d", "x" or "ld"
  number,         \* the argument of printf
  stage,          \* "ltoa1", "div10", "cut" or "done"
  value, sign, text, len,
  cnt, result     \* of div10

numberVars == <<conversion, number, stage, value, sign, text, len, cnt, result>>

\* b multiplied n times, as the loop of div10 does.
Power(b, n) == LET power[i \in 0 .. n] == IF i = 0 THEN 1 ELSE power[i - 1] * b IN power[n]

\* The buffers hold every int, and every long that div10 is made for.
ASSUME NumberAssumption ==
  /\ IntLimit \in Nat /\ DirectLimit \in 9 .. IntLimit - 1 /\ MaxPower \in Nat \ {0}
  /\ TextSize \in Nat /\ MaxPower + 1 < TextSize /\ IntLimit < Power(10, TextSize - 2)
  /\ Ints \subseteq -IntLimit .. IntLimit - 1
  /\ Longs \subseteq -Power(10, MaxPower + 1) .. Power(10, MaxPower + 1) - 1

base == IF conversion = "x" THEN 16 ELSE 10
Terminator == -48

\* The division of C, which rounds towards 0, and its remainder.
Quotient(a, b) == IF a >= 0 THEN a \div b ELSE - ((-a) \div b)
Rest(a, b) == a - b * Quotient(a, b)

\* value *= -1 of an int.  For the least one C leaves the product open; in the build (-Os,
\* -m32) it is an instruction that wraps, and the divisions that follow are signed.
NotNegated(n) == n                  \* seeded bug: the sign is noted and left
Negated(n) == IF n = -IntLimit THEN n ELSE -n

StartPrinting(c, n) ==
  /\ conversion = c /\ number = n
  /\ stage = IF c = "ld" /\ n \notin 0 .. DirectLimit THEN "div10" ELSE "ltoa1"
  /\ LET negative == n < 0 /\ stage = "ltoa1"
     IN  /\ sign = (IF negative THEN 1 ELSE 0)
         /\ value = (IF negative THEN Negated(n) ELSE n)
         /\ len = sign
  /\ text = <<>>
  /\ cnt = MaxPower /\ result = 0

NumberInit ==
  \/ \E c \in {"d", "x"}, n \in Ints : StartPrinting(c, n)
  \/ \E n \in Longs : StartPrinting("ld", n)

(***************************************************************************)
(* ltoa1: a digit a turn, the last first                                   *)
(***************************************************************************)
AppendDigit(d) == Append(text, d)   \* seeded bug: the digits in the order they are found
PrependDigit(d) == <<d>> \o text

LastDigit ==
  /\ stage = "ltoa1"
  /\ text' = PrependDigit(Rest(value, base))
  /\ value' = Quotient(value, base)
  /\ len' = len + 1
  /\ stage' = IF value' # 0 /\ len' < TextSize - 1 THEN "ltoa1" ELSE "done"
  /\ UNCHANGED <<conversion, number, sign, cnt, result>>

(***************************************************************************)
(* _noosrt_ltoa2_div10: a power of ten a turn, the greatest first          *)
(***************************************************************************)
\* _noosrt_posdiv_
Greater(x, y) == x > y              \* seeded bug: > for >=
Goes(x, y) == x >= y

\* _noosrt_insert_char_
InsertChar(digit) == IF Len(text) + 1 < TextSize THEN Append(text, digit) ELSE text

Subtract ==
  /\ stage = "div10" /\ cnt >= 1
  /\ Goes(value, Power(10, cnt))
  /\ value' = value - Power(10, cnt)
  /\ result' = result + 1
  /\ UNCHANGED <<conversion, number, stage, sign, text, len, cnt>>

EveryZero == FALSE                  \* seeded bug: zeros in front are written
\* skip_all: no power so far has gone into the number.
skip_all == text = <<>> /\ result = 0

NextPower ==
  /\ stage = "div10" /\ cnt >= 1
  /\ ~ Goes(value, Power(10, cnt))
  /\ text' = IF skip_all THEN text ELSE InsertChar(result)
  /\ len' = Len(text')
  /\ cnt' = cnt - 1
  /\ result' = 0
  /\ UNCHANGED <<conversion, number, stage, value, sign>>

NoPowerLeft == cnt = 0

\* The remainder of the last power is the last digit.
LastRemainder ==
  /\ stage = "div10" /\ NoPowerLeft
  /\ text' = InsertChar(value)
  /\ len' = Len(text')
  /\ stage' = "cut"
  /\ UNCHANGED <<conversion, number, value, sign, cnt, result>>

\* ptr[len-1] = '\0' of _noosrt_ltoa2.
Cut ==
  /\ stage = "cut"
  /\ text' = [text EXCEPT ![len] = Terminator]
  /\ stage' = "done"
  /\ UNCHANGED <<conversion, number, value, sign, len, cnt, result>>

NumberNext == LastDigit \/ Subtract \/ NextPower \/ LastRemainder \/ Cut
NumberSpec == NumberInit /\ [][NumberNext]_numberVars

(***************************************************************************)
(* Properties                                                              *)
(***************************************************************************)
\* The number that digits read as, and digits that read as a number.
Read(b, digits) ==
  LET read[n \in 0 .. Len(digits)] == IF n = 0 THEN 0 ELSE read[n - 1] * b + digits[n]
  IN  read[Len(digits)]
IsNumeral(b, digits) ==
  /\ digits # <<>> /\ \A i \in DOMAIN digits : digits[i] \in 0 .. b - 1
  /\ Len(digits) > 1 => digits[1] # 0

\* The characters of a number that is negative to the end lie before '0' (for %x too): as
\* far as the digits they stand for lie behind it.
numeral == IF number = -IntLimit THEN [i \in DOMAIN text |-> - text[i]] ELSE text

\* "value *= -1; // slow but effective": what %d and %x print is the number, digit by digit,
\* and the count that print() is given is its length; so it is with %ld of a small number.
\* The least int, which cannot be negated, gets the right count and the right digits on the
\* wrong side of '0'.
PrintsTheInt ==
  stage = "done" /\ (conversion # "ld" \/ number \in 0 .. DirectLimit) =>
    /\ IsNumeral(base, numeral)
    /\ number = (IF sign = 1 THEN - Read(base, numeral) ELSE Read(base, numeral))
    /\ len = sign + Len(text)

\* The powers of ten take the number apart without losing anything: at every turn the
\* digits found, the digit being counted and what is left make up the number, and a digit
\* never reaches ten.  "ptr[len-1] = '\\0'" then takes exactly one digit away: what is
\* left for printf() is the number divided by ten.
PowersKeepTheNumber ==
  stage # "ltoa1" /\ conversion = "ld" /\ number > DirectLimit =>
    LET digits == CASE stage = "div10" -> Append(text, result)
                    [] stage = "cut" -> text
                    [] stage = "done" -> SubSeq(text, 1, Len(text) - 1)
    IN  /\ \A i \in DOMAIN digits : digits[i] \in 0 .. 9
        /\ stage = "div10" /\ cnt >= 1 => number = Read(10, digits) * Power(10, cnt) + value
        /\ stage = "cut" => IsNumeral(10, digits) /\ Read(10, digits) = number
        /\ stage = "done" => /\ IsNumeral(10, digits) /\ Read(10, digits) = number \div 10
                             /\ text = Append(digits, Terminator) /\ len = Len(text)
=============================================================================
