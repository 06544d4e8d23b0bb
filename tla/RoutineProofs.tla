--------------------------- MODULE RoutineProofs ----------------------------
(****************************************************************************)
(* NumberText, PathNames, ImageOrder and BobSort: numbers, names, images and *)
(* arrays of every size.                                                     *)
(****************************************************************************)
EXTENDS NumberText, PathNames, ImageOrder, BobSort, WellFoundedInduction, TLAPS

(***************************************************************************)
(* PathNames: names and paths                                              *)
(***************************************************************************)
\* A string that C can hold, and a buffer that holds it from its start.
Character == STRING \cup {"/"}
IsString(s) == s \in Seq(Character) /\ \A k \in 1 .. Len(s) : s[k] # NUL
Holds(b, room, s) ==
  /\ DOMAIN b = Offsets(room) /\ Len(s) < room
  /\ \A k \in Offsets(Len(s)) : b[k] = s[k + 1]
  /\ b[Len(s)] = NUL

\* The path of a name, and the field of a header that holds it.
Path(n) == Mount \o <<"/">> \o n
NameField(n) == [k \in Offsets(NameSize) |-> IF k < Len(n) THEN n[k + 1] ELSE NUL]

LEMMA PassedString ==
  ASSUME NEW s \in Name \cup {Mount}
  PROVE  IsString(s)
<1>1. s \in Seq(STRING) /\ NUL \notin Range(s)
  BY PathAssumption
<1>2. /\ Len(s) \in Nat /\ s = [k \in 1 .. Len(s) |-> s[k]]
      /\ \A k \in 1 .. Len(s) : s[k] \in Character
  BY <1>1 DEF Character
<1>3. s \in Seq(Character)
  BY <1>2
<1> QED BY <1>1, <1>3 DEF IsString, Range

LEMMA BufferSizes ==
  /\ NameSize \in Nat \ {0} /\ PathSize \in Nat /\ PathSize >= NameSize /\ TempSize \in Nat
  /\ IsString(Mount) /\ Len(Mount) \in Nat /\ Len(Mount) > 1
  /\ Mount[1] = "/" /\ \A k \in 2 .. Len(Mount) : Mount[k] # "/"
<1>1. IsString(Mount)
  BY PassedString
<1>2. ASSUME NEW k \in 2 .. Len(Mount) PROVE Mount[k] # "/"
  <2>1. Mount \in Seq(Character) /\ Len(Mount) \in Nat /\ Len(Mount) > 1
    BY <1>1, PathAssumption DEF IsString
  <2>2. Mount[k] = Tail(Mount)[k - 1] /\ k - 1 \in DOMAIN Tail(Mount)
    BY <1>2, <2>1
  <2> QED BY <2>2, PathAssumption DEF Range
<1> QED BY <1>1, <1>2, PathAssumption

LEMMA Names ==
  ASSUME NEW n \in Name
  PROVE  IsString(n) /\ Len(n) \in Nat /\ Len(Mount) + 1 + Len(n) < TempSize
BY PassedString, PathAssumption DEF IsString

\* strlen finds the end of a string, whatever lies behind it.
LEMMA StringHeld ==
  ASSUME NEW b, NEW room \in Nat, NEW s, IsString(s), Holds(b, room, s)
  PROVE  strlen(b) = Len(s) /\ StringOf(b) = s
<1>1. Len(s) \in Nat /\ s = [k \in 1 .. Len(s) |-> s[k]] /\ \A k \in Offsets(Len(s)) : b[k] # NUL
  BY DEF IsString, Holds, Offsets
<1> DEFINE End(j) == j \in DOMAIN b /\ b[j] = NUL /\ \A k \in 0 .. j - 1 : b[k] # NUL
<1>2. End(Len(s))
  BY <1>1 DEF Holds, Offsets
<1>3. \A j \in DOMAIN b : End(j) => j = Len(s)
  BY <1>1 DEF Holds, Offsets
<1>4. strlen(b) \in DOMAIN b /\ End(strlen(b))
  BY <1>2 DEF strlen
<1>5. strlen(b) = Len(s)
  BY <1>3, <1>4
<1>6. StringOf(b) = [k \in 1 .. Len(s) |-> s[k]]
  BY <1>1, <1>5 DEF StringOf, Holds, Offsets
<1> QED BY <1>1, <1>5, <1>6

LEMMA Joined ==
  ASSUME NEW s, NEW t, IsString(s), IsString(t)
  PROVE  /\ IsString(s \o t) /\ Len(s \o t) = Len(s) + Len(t)
         /\ Len(s) \in Nat /\ Len(t) \in Nat
         /\ \A k \in 1 .. Len(s) + Len(t) :
              (s \o t)[k] = IF k <= Len(s) THEN s[k] ELSE t[k - Len(s)]
<1>1. s \in Seq(Character) /\ t \in Seq(Character)
  BY DEF IsString
<1>2. /\ s \o t \in Seq(Character) /\ Len(s \o t) = Len(s) + Len(t)
      /\ Len(s) \in Nat /\ Len(t) \in Nat
      /\ \A k \in 1 .. Len(s) + Len(t) :
           (s \o t)[k] = IF k <= Len(s) THEN s[k] ELSE t[k - Len(s)]
  BY <1>1
<1>3. ASSUME NEW k \in 1 .. Len(s) + Len(t) PROVE (s \o t)[k] # NUL
  BY <1>2 DEF IsString
<1> QED BY <1>2, <1>3 DEF IsString

\* A string stored at the end of another makes one of both.
LEMMA StoredBehind ==
  ASSUME NEW b, NEW room \in Nat, NEW s, NEW t, IsString(s), IsString(t), Holds(b, room, s),
         Len(s) + Len(t) < room
  PROVE  Holds(StoreAt(b, Len(s), t), room, s \o t)
<1> DEFINE c == StoreAt(b, Len(s), t)
<1>1. /\ Len(s) \in Nat /\ Len(t) \in Nat /\ Len(s \o t) = Len(s) + Len(t)
      /\ \A k \in 1 .. Len(s) + Len(t) :
           (s \o t)[k] = IF k <= Len(s) THEN s[k] ELSE t[k - Len(s)]
  BY Joined
<1>2. /\ DOMAIN c = Offsets(room)
      /\ \A k \in Offsets(room) :
           c[k] = IF k \in Len(s) .. Len(s) + Len(t) - 1 THEN t[k - Len(s) + 1]
                  ELSE IF k = Len(s) + Len(t) THEN NUL ELSE b[k]
  BY DEF StoreAt, Holds
<1> HIDE DEF c
<1>3. ASSUME NEW k \in Offsets(Len(s) + Len(t)) PROVE c[k] = (s \o t)[k + 1]
  <2>1. k \in Offsets(room) /\ k + 1 \in 1 .. Len(s) + Len(t)
    BY <1>1 DEF Offsets
  <2>2. CASE k < Len(s)
    <3>1. c[k] = b[k] /\ b[k] = s[k + 1] /\ (s \o t)[k + 1] = s[k + 1]
      BY <1>1, <1>2, <2>1, <2>2 DEF Holds, Offsets
    <3> QED BY <3>1
  <2>3. CASE ~ (k < Len(s))
    <3>1. c[k] = t[k - Len(s) + 1] /\ (s \o t)[k + 1] = t[k + 1 - Len(s)]
      BY <1>1, <1>2, <2>1, <2>3 DEF Offsets
    <3>2. k - Len(s) + 1 = k + 1 - Len(s)
      BY <1>1 DEF Offsets
    <3> QED BY <3>1, <3>2
  <2> QED BY <2>2, <2>3
<1>4. c[Len(s) + Len(t)] = NUL
  BY <1>1, <1>2 DEF Offsets
<1> QED BY <1>1, <1>2, <1>3, <1>4 DEF Holds, c

LEMMA StoredAtStart ==
  ASSUME NEW b, NEW room \in Nat, NEW t, DOMAIN b = Offsets(room), IsString(t), Len(t) < room
  PROVE  Holds(strcpy(b, t), room, t)
<1>1. Len(t) \in Nat
  BY DEF IsString
<1> QED BY <1>1 DEF strcpy, StoreAt, Holds, Offsets

\* NoOSfs puts the path together in its buffer, whatever an earlier one left there.
LEMMA PathHeld ==
  ASSUME NEW n \in Name, DOMAIN tempname = Offsets(TempSize)
  PROVE  /\ DOMAIN PathTo(n) = Offsets(TempSize)
         /\ IsString(Path(n)) /\ StringOf(PathTo(n)) = Path(n)
<1> DEFINE slash == <<"/">>
           b == strcpy(tempname, Mount)  c == strcat(b, slash)
<1>1. /\ IsString(Mount) /\ IsString(n) /\ Len(Mount) \in Nat /\ Len(n) \in Nat
      /\ Len(Mount) + 1 + Len(n) < TempSize /\ TempSize \in Nat
  BY BufferSizes, Names
<1>2. IsString(slash) /\ Len(slash) = 1
  <2>1. slash \in Seq(Character) /\ Len(slash) = 1 /\ slash[1] = "/"
    <3>1. "/" \in Character
      BY DEF Character
    <3> QED BY <3>1
  <2>2. \A k \in 1 .. 1 : k = 1
    OBVIOUS
  <2>3. "/" # NUL
    BY DEF NUL
  <2> HIDE DEF slash
  <2> QED BY <2>1, <2>2, <2>3 DEF IsString
<1>3. Holds(b, TempSize, Mount)
  BY <1>1, StoredAtStart
<1> HIDE DEF b, slash
<1>4. c = StoreAt(b, Len(Mount), slash)
  BY <1>1, <1>3, StringHeld DEF strcat
<1>5. Holds(c, TempSize, Mount \o slash) /\ IsString(Mount \o slash) /\ Len(Mount \o slash) = Len(Mount) + 1
  <2>1. Len(Mount) + Len(slash) < TempSize
    BY <1>1, <1>2
  <2>2. Holds(c, TempSize, Mount \o slash)
    BY <1>1, <1>2, <1>3, <1>4, <2>1, StoredBehind
  <2>3. IsString(Mount \o slash) /\ Len(Mount \o slash) = Len(Mount) + Len(slash)
    BY <1>1, <1>2, Joined
  <2> QED BY <1>2, <2>2, <2>3
<1> HIDE DEF c
<1>6. strcat(c, n) = StoreAt(c, Len(Mount \o slash), n)
  BY <1>1, <1>5, StringHeld DEF strcat
<1>7. Holds(strcat(c, n), TempSize, Mount \o slash \o n) /\ IsString(Mount \o slash \o n)
  BY <1>1, <1>5, <1>6, StoredBehind, Joined
<1>8. PathTo(n) = strcat(c, n) /\ Path(n) = Mount \o slash \o n
  BY DEF PathTo, Path, b, c, slash
<1> QED BY <1>1, <1>7, <1>8, StringHeld DEF Holds

LEMMA PathParts ==
  ASSUME NEW n \in Name
  PROVE  /\ Path(n) \in Seq(Character) /\ Len(Path(n)) = Len(Mount) + 1 + Len(n)
         /\ \A k \in 1 .. Len(Mount) : Path(n)[k] = Mount[k]
         /\ Path(n)[Len(Mount) + 1] = "/"
         /\ \A k \in 1 .. Len(n) : Path(n)[Len(Mount) + 1 + k] = n[k]
<1>1. /\ Mount \in Seq(Character) /\ n \in Seq(Character) /\ <<"/">> \in Seq(Character)
      /\ Len(Mount) \in Nat /\ Len(n) \in Nat
  BY BufferSizes, Names DEF IsString
<1> DEFINE m == Mount \o <<"/">>
<1>2. /\ m \in Seq(Character) /\ Len(m) = Len(Mount) + 1
      /\ \A k \in 1 .. Len(Mount) : m[k] = Mount[k]
      /\ m[Len(Mount) + 1] = "/"
  BY <1>1
<1> HIDE DEF m
<1>3. /\ m \o n \in Seq(Character) /\ Len(m \o n) = Len(m) + Len(n)
      /\ \A k \in 1 .. Len(m) + Len(n) :
           (m \o n)[k] = IF k <= Len(m) THEN m[k] ELSE n[k - Len(m)]
  BY <1>1, <1>2
<1>4. Path(n) = m \o n
  BY DEF Path, m
<1> QED BY <1>1, <1>2, <1>3, <1>4

\* A nonempty set of natural numbers has a least element.
LEMMA LeastElement ==
  ASSUME NEW S \in SUBSET Nat, S # {}
  PROVE  \E m \in S : \A k \in S : m <= k
<1> DEFINE R == OpToRel(<, Nat)
<1>1. PICK x \in S : \A y \in S : <<y, x>> \notin R
  BY NatLessThanWellFounded, WFMin
<1>2. \A y \in S : y < x => <<y, x>> \in R
  BY DEF OpToRel
<1> HIDE DEF R
<1>3. \A y \in S : ~ (y < x)
  BY <1>1, <1>2
<1> QED BY <1>3

\* The least of a set, when it has one.
LEMMA MinIs ==
  ASSUME NEW S \in SUBSET Int, NEW m \in S, \A x \in S : m <= x
  PROVE  Min(S) = m
<1> DEFINE c == CHOOSE x \in S : \A y \in S : x <= y
<1>1. c \in S /\ \A y \in S : c <= y
  OBVIOUS
<1>2. Min(S) = c
  BY DEF Min
<1> HIDE DEF c
<1> QED BY <1>1, <1>2

\* The second slash of a path is the one behind the mount point.
LEMMA SlashBehindMount ==
  ASSUME NEW n \in Name
  PROVE  SecondSlash(Path(n)) = Len(Mount) + 1
<1> DEFINE s == Path(n)  S == {j \in 2 .. Len(s) : s[j] = "/"}
<1>1. /\ Len(s) = Len(Mount) + 1 + Len(n) /\ s[Len(Mount) + 1] = "/"
      /\ \A k \in 1 .. Len(Mount) : s[k] = Mount[k]
      /\ Len(Mount) \in Nat /\ Len(n) \in Nat /\ Len(Mount) > 1
      /\ \A k \in 2 .. Len(Mount) : Mount[k] # "/"
  BY PathParts, BufferSizes, Names
<1> HIDE DEF s
<1>2. Len(Mount) + 1 \in S /\ S \in SUBSET Int
  BY <1>1
<1>3. ASSUME NEW j \in S PROVE Len(Mount) + 1 <= j
  <2>1. j \in 2 .. Len(s) /\ s[j] = "/"
    OBVIOUS
  <2>2. ~ (j <= Len(Mount))
    BY <1>1, <2>1
  <2> QED BY <1>1, <2>1, <2>2
<1> HIDE DEF S
<1>4. Min(S) = Len(Mount) + 1
  BY <1>2, <1>3, MinIs
<1> QED BY <1>4 DEF SecondSlash, S, s

\* strncpy fills a cleared buffer with a string that fits in it.
LEMMA CopyHeld ==
  ASSUME NEW room \in Nat, NEW s, IsString(s), NEW n \in Nat, Len(s) <= n, n <= room, Len(s) < room
  PROVE  /\ Holds(strncpy(Zeros(room), s, n), room, s)
         /\ \A k \in Offsets(room) : k >= Len(s) => strncpy(Zeros(room), s, n)[k] = NUL
<1>1. Len(s) \in Nat
  BY DEF IsString
<1>2. /\ DOMAIN strncpy(Zeros(room), s, n) = Offsets(room)
      /\ \A k \in Offsets(room) :
           strncpy(Zeros(room), s, n)[k] = IF k >= n THEN NUL ELSE IF k < Len(s) THEN s[k + 1] ELSE NUL
  BY DEF strncpy, Zeros
<1> QED BY <1>1, <1>2 DEF Holds, Offsets

\* At most n characters of a string: those before its n-th.
LEMMA PrefixCopied ==
  ASSUME NEW b, NEW s, NEW t, NEW n \in Nat, Len(t) = n, n <= Len(s), Len(s) \in Nat,
         \A k \in 1 .. n : s[k] = t[k], DOMAIN b \subseteq Nat
  PROVE  strncpy(b, s, n) = strncpy(b, t, n)
BY DEF strncpy

\* EEFS_SplitPath takes a path apart where NoOSfs put it together.
LEMMA PathSplit ==
  ASSUME NEW n \in Name, DOMAIN tempname = Offsets(TempSize), SplitPath(PathTo(n)).ok
  PROVE  /\ Holds(SplitPath(PathTo(n)).MountPoint, PathSize, Mount)
         /\ Holds(SplitPath(PathTo(n)).Filename, PathSize, n)
         /\ \A k \in Offsets(PathSize) : k >= Len(n) => SplitPath(PathTo(n)).Filename[k] = NUL
<1> DEFINE s == Path(n)  j == SecondSlash(s)  rest == SubSeq(s, j + 1, Len(s))
<1>0. /\ IsString(Mount) /\ IsString(n) /\ Len(Mount) \in Nat /\ Len(n) \in Nat /\ PathSize \in Nat
      /\ Mount \in Seq(Character) /\ n \in Seq(Character)
  BY BufferSizes, Names DEF IsString
<1>1. StringOf(PathTo(n)) = s
  BY PathHeld
<1>2. j = Len(Mount) + 1
  BY SlashBehindMount
<1>3. /\ s \in Seq(Character) /\ Len(s) = Len(Mount) + 1 + Len(n)
      /\ \A k \in 1 .. Len(Mount) : s[k] = Mount[k]
      /\ \A k \in 1 .. Len(n) : s[Len(Mount) + 1 + k] = n[k]
  BY PathParts
<1>4. /\ Len(s) < PathSize
      /\ SplitPath(PathTo(n)).MountPoint = strncpy(Zeros(PathSize), s, j - 1)
      /\ SplitPath(PathTo(n)).Filename = strncpy(Zeros(PathSize), rest, PathSize)
  BY <1>1 DEF SplitPath
<1> HIDE DEF s, j
<1>5. rest = n
  <2>1. rest \in Seq(Character) /\ Len(rest) = Len(n)
    BY <1>0, <1>2, <1>3
  <2>2. ASSUME NEW k \in 1 .. Len(n) PROVE rest[k] = n[k]
    BY <1>0, <1>2, <1>3
  <2> HIDE DEF rest
  <2>3. rest = [k \in 1 .. Len(n) |-> rest[k]] /\ n = [k \in 1 .. Len(n) |-> n[k]]
    BY <1>0, <2>1
  <2> QED BY <2>2, <2>3
<1> HIDE DEF rest
<1>6. strncpy(Zeros(PathSize), s, j - 1) = strncpy(Zeros(PathSize), Mount, Len(Mount))
  <2>1. DOMAIN Zeros(PathSize) \subseteq Nat
    BY DEF Zeros, Offsets
  <2>2. j - 1 = Len(Mount)
    BY <1>0, <1>2
  <2> QED BY <1>0, <1>3, <2>1, <2>2, PrefixCopied
<1> QED BY <1>0, <1>3, <1>4, <1>5, <1>6, CopyHeld

(****************************************************************************)
(* PathNames: the names in the headers                                       *)
(****************************************************************************)
Field == [Offsets(NameSize) -> Character \cup {NUL}]
Header == [InUse : BOOLEAN, meant : Name, Filename : Field]

ValidName(n) == Len(n) < NameSize /\ Len(n) > 0

\* The inductive invariant: every header holds the name that was meant, and nothing behind
\* it.
NamesInv ==
  /\ DOMAIN tempname = Offsets(TempSize)
  /\ header \in Seq(Header)
  /\ \A j \in 1 .. Len(header) :
       /\ ValidName(header[j].meant)
       /\ header[j].Filename = NameField(header[j].meant)

LEMMA FieldOf ==
  ASSUME NEW n \in Name
  PROVE  NameField(n) \in Field
<1>1. n \in Seq(Character) /\ Len(n) \in Nat
  BY Names DEF IsString
<1>2. ASSUME NEW k \in Offsets(NameSize)
      PROVE  (IF k < Len(n) THEN n[k + 1] ELSE NUL) \in Character \cup {NUL}
  BY <1>1, <1>2 DEF Offsets
<1> QED BY <1>2 DEF NameField, Field

\* Fields tell names apart that are short enough for them.
LEMMA FieldsTell ==
  ASSUME NEW n \in Name, NEW m \in Name, ValidName(n), ValidName(m),
         \A k \in Offsets(NameSize) : NameField(n)[k] = NameField(m)[k]
  PROVE  n = m
<1>1. /\ IsString(n) /\ Len(n) \in Nat /\ IsString(m) /\ Len(m) \in Nat /\ NameSize \in Nat
      /\ n = [k \in 1 .. Len(n) |-> n[k]] /\ m = [k \in 1 .. Len(m) |-> m[k]]
  BY Names, BufferSizes DEF IsString
<1>0. Len(n) \in Nat /\ Len(m) \in Nat
  BY Names DEF IsString
<1>2. /\ \A k \in 1 .. Len(n) : n[k] # NUL
      /\ \A k \in 1 .. Len(m) : m[k] # NUL
  BY <1>1 DEF IsString
<1>3. \A k \in Offsets(NameSize) :
        (IF k < Len(n) THEN n[k + 1] ELSE NUL) = (IF k < Len(m) THEN m[k + 1] ELSE NUL)
  BY DEF NameField
<1>4. Len(n) \in Offsets(NameSize) /\ Len(m) \in Offsets(NameSize)
  BY <1>1 DEF ValidName, Offsets
<1>5. Len(n) = Len(m)
  <2>1. CASE Len(n) < Len(m)
    <3>1. m[Len(n) + 1] = NUL
      BY <1>1, <1>3, <1>4, <2>1
    <3>2. Len(n) + 1 \in 1 .. Len(m)
      BY <1>0, <2>1
    <3> QED BY <1>2, <3>1, <3>2
  <2>2. CASE Len(m) < Len(n)
    <3>1. n[Len(m) + 1] = NUL
      BY <1>1, <1>3, <1>4, <2>2
    <3>2. Len(m) + 1 \in 1 .. Len(n)
      BY <1>0, <2>2
    <3> QED BY <1>2, <3>1, <3>2
  <2> QED BY <1>0, <2>1, <2>2
<1>6. ASSUME NEW k \in 1 .. Len(n) PROVE n[k] = m[k]
  <2>1. k - 1 \in Offsets(NameSize) /\ k - 1 < Len(n) /\ k - 1 + 1 = k
    BY <1>1, <1>4 DEF Offsets
  <2> QED BY <1>1, <1>3, <1>5, <2>1
<1> QED BY <1>1, <1>5, <1>6

\* What EEFS_SplitPath leaves in the buffer of the name, as far as strncmp looks.
LEMMA SplitField ==
  ASSUME NEW n \in Name, DOMAIN tempname = Offsets(TempSize), SplitPath(PathTo(n)).ok
  PROVE  LET b == SplitPath(PathTo(n)).Filename
         IN  /\ strlen(b) = Len(n) /\ StringOf(b) = n
             /\ IsValidFilename(b) <=> ValidName(n)
             /\ \A k \in Offsets(NameSize) : b[k] = NameField(n)[k]
<1> DEFINE b == SplitPath(PathTo(n)).Filename
<1>1. /\ IsString(n) /\ Len(n) \in Nat /\ PathSize \in Nat /\ NameSize \in Nat /\ NameSize <= PathSize
  BY Names, BufferSizes
<1>2. Holds(b, PathSize, n) /\ \A k \in Offsets(PathSize) : k >= Len(n) => b[k] = NUL
  BY PathSplit
<1> HIDE DEF b
<1>3. strlen(b) = Len(n) /\ StringOf(b) = n
  BY <1>1, <1>2, StringHeld
<1>4. ASSUME NEW k \in Offsets(NameSize) PROVE b[k] = NameField(n)[k]
  <2>1. k \in Offsets(PathSize) /\ k \in Nat
    BY <1>1 DEF Offsets
  <2>2. CASE k < Len(n)
    <3>1. b[k] = n[k + 1]
      BY <1>1, <1>2, <2>1, <2>2 DEF Holds, Offsets
    <3> QED BY <2>2, <3>1 DEF NameField
  <2>3. CASE ~ (k < Len(n))
    BY <1>1, <1>2, <2>1, <2>3 DEF NameField
  <2> QED BY <2>2, <2>3
<1>5. IsValidFilename(b) <=> ValidName(n)
  BY <1>3 DEF IsValidFilename, ValidName
<1> QED BY <1>3, <1>4, <1>5 DEF b

\* A valid name is found in the headers that are in use and were meant by it.
LEMMA FoundIsMeant ==
  ASSUME NamesInv, NEW n \in Name, ValidName(n), NEW b,
         \A k \in Offsets(NameSize) : b[k] = NameField(n)[k]
  PROVE  /\ {j \in DOMAIN header : header[j].InUse /\ SameField(b, header[j].Filename, NameSize)}
              = {j \in DOMAIN header : header[j].InUse /\ header[j].meant = n}
         /\ FindFile(b) \in 0 .. Len(header)
<1>1. header \in Seq(Header) /\ DOMAIN header = 1 .. Len(header) /\ Len(header) \in Nat
  BY DEF NamesInv
<1>2. ASSUME NEW j \in DOMAIN header
      PROVE  SameField(b, header[j].Filename, NameSize) <=> header[j].meant = n
  <2>1. /\ header[j].meant \in Name /\ ValidName(header[j].meant)
        /\ header[j].Filename = NameField(header[j].meant)
    <3>1. header[j] \in Header
      BY <1>1, <1>2
    <3>2. ValidName(header[j].meant) /\ header[j].Filename = NameField(header[j].meant)
      BY <1>1, <1>2 DEF NamesInv
    <3> QED BY <3>1, <3>2 DEF Header
  <2>2. ASSUME SameField(b, header[j].Filename, NameSize) PROVE header[j].meant = n
    <3>1. \A k \in Offsets(NameSize) : NameField(n)[k] = NameField(header[j].meant)[k]
      BY <2>1, <2>2 DEF SameField
    <3> QED BY <2>1, <3>1, FieldsTell
  <2>3. ASSUME header[j].meant = n PROVE SameField(b, header[j].Filename, NameSize)
    BY <2>1, <2>3 DEF SameField
  <2> QED BY <2>2, <2>3
<1> DEFINE found == {j \in DOMAIN header : header[j].InUse /\ SameField(b, header[j].Filename, NameSize)}
<1>3. found = {j \in DOMAIN header : header[j].InUse /\ header[j].meant = n}
  BY <1>2
<1>4. FindFile(b) \in 0 .. Len(header)
  <2>1. CASE found = {}
    BY <1>1, <2>1 DEF FindFile
  <2>2. CASE found # {}
    <3>1. found \in SUBSET Nat /\ found \subseteq 1 .. Len(header)
      BY <1>1
    <3> HIDE DEF found
    <3>2. PICK m \in found : \A x \in found : m <= x
      BY <2>2, <3>1, LeastElement
    <3>3. Min(found) = m
      BY <3>1, <3>2, MinIs
    <3>4. FindFile(b) = Min(found)
      BY <2>2 DEF FindFile, found
    <3> QED BY <3>1, <3>3, <3>4
  <2> QED BY <2>1, <2>2
<1> QED BY <1>3, <1>4

\* Every call passes its path through the buffer.
LEMMA BufferStays ==
  ASSUME NamesInv, NEW n \in Name
  PROVE  DOMAIN PathTo(n) = Offsets(TempSize)
BY PathHeld DEF NamesInv

LEMMA CreateInv ==
  ASSUME NamesInv, NEW n \in Name, noosfs_create(n)
  PROVE  NamesInv'
<1> DEFINE path == SplitPath(PathTo(n))
<1>1. DOMAIN tempname' = Offsets(TempSize)
  BY BufferStays DEF noosfs_create
<1>2. CASE UNCHANGED header
  BY <1>1, <1>2 DEF NamesInv
<1>3. CASE ~ UNCHANGED header
  <2>1. /\ path.ok /\ IsValidFilename(path.Filename)
        /\ \E g \in Garbage :
             header' = Append(header,
                         [InUse |-> TRUE, meant |-> n,
                          Filename |-> strncpy(g, StringOf(path.Filename), NameSize)])
    BY <1>3 DEF noosfs_create
  <2>2. PICK g \in Garbage :
          header' = Append(header,
                      [InUse |-> TRUE, meant |-> n,
                       Filename |-> strncpy(g, StringOf(path.Filename), NameSize)])
    BY <2>1
  <2>3. StringOf(path.Filename) = n /\ ValidName(n)
    BY <2>1, SplitField DEF NamesInv
  <2> HIDE DEF path
  <2>4. strncpy(g, n, NameSize) = NameField(n)
    <3>1. DOMAIN g = Offsets(NameSize) /\ NameSize \in Nat
      BY PathAssumption DEF Offsets
    <3> QED BY <3>1 DEF strncpy, NameField, Offsets
  <2> DEFINE h == [InUse |-> TRUE, meant |-> n, Filename |-> NameField(n)]
  <2>5. h \in Header /\ h.meant = n /\ h.Filename = NameField(n)
    BY FieldOf DEF Header
  <2>6. header' = Append(header, h)
    BY <2>2, <2>3, <2>4
  <2> HIDE DEF h
  <2>7. header \in Seq(Header) /\ Len(header) \in Nat
    BY DEF NamesInv
  <2>8. /\ header' \in Seq(Header) /\ Len(header') = Len(header) + 1
        /\ \A j \in 1 .. Len(header) + 1 :
             header'[j] = IF j <= Len(header) THEN header[j] ELSE h
    BY <2>5, <2>6, <2>7
  <2>9. ASSUME NEW j \in 1 .. Len(header')
        PROVE  ValidName(header'[j].meant) /\ header'[j].Filename = NameField(header'[j].meant)
    <3>1. CASE j <= Len(header)
      BY <2>7, <2>8, <3>1 DEF NamesInv
    <3>2. CASE ~ (j <= Len(header))
      BY <2>3, <2>5, <2>7, <2>8, <3>2
    <3> QED BY <3>1, <3>2
  <2> QED BY <1>1, <2>8, <2>9 DEF NamesInv
<1> QED BY <1>2, <1>3

LEMMA DeleteInv ==
  ASSUME NamesInv, NEW n \in Name, noosfs_delete(n)
  PROVE  NamesInv'
<1> DEFINE path == SplitPath(PathTo(n))
           slot == IF path.ok /\ IsValidFilename(path.Filename) THEN FindFile(path.Filename) ELSE 0
<1>1. DOMAIN tempname' = Offsets(TempSize)
  BY BufferStays DEF noosfs_delete
<1>2. header' = IF slot = 0 THEN header ELSE [header EXCEPT ![slot].InUse = FALSE]
  BY DEF noosfs_delete
<1>3. slot \in 0 .. Len(header)
  <2>0. Len(header) \in Nat
    BY DEF NamesInv
  <2>1. CASE path.ok /\ IsValidFilename(path.Filename)
    <3>1. ValidName(n) /\ \A k \in Offsets(NameSize) : path.Filename[k] = NameField(n)[k]
      BY <2>1, SplitField DEF NamesInv
    <3>2. FindFile(path.Filename) \in 0 .. Len(header)
      BY <3>1, FoundIsMeant
    <3> QED BY <2>1, <3>2
  <2>2. CASE ~ (path.ok /\ IsValidFilename(path.Filename))
    BY <2>0, <2>2
  <2> QED BY <2>1, <2>2
<1> HIDE DEF slot
<1>4. CASE slot = 0
  BY <1>1, <1>2, <1>4 DEF NamesInv
<1>5. CASE slot # 0
  <2>1. header \in Seq(Header) /\ Len(header) \in Nat /\ slot \in 1 .. Len(header)
    BY <1>3, <1>5 DEF NamesInv
  <2> DEFINE h == [header[slot] EXCEPT !.InUse = FALSE]
  <2>2. header[slot] \in Header
    BY <2>1
  <2>3. h \in Header /\ h.meant = header[slot].meant /\ h.Filename = header[slot].Filename
    BY <2>2 DEF Header
  <2>4. header' = [header EXCEPT ![slot] = h]
    BY <1>2, <1>5
  <2> HIDE DEF h
  <2>5. /\ header' \in Seq(Header) /\ Len(header') = Len(header)
        /\ \A j \in 1 .. Len(header) : header'[j] = IF j = slot THEN h ELSE header[j]
    BY <2>1, <2>3, <2>4
  <2>6. ASSUME NEW j \in 1 .. Len(header')
        PROVE  ValidName(header'[j].meant) /\ header'[j].Filename = NameField(header'[j].meant)
    BY <2>1, <2>3, <2>5 DEF NamesInv
  <2> QED BY <1>1, <2>5, <2>6 DEF NamesInv
<1> QED BY <1>4, <1>5

LEMMA NamesInvariant == NamesSpec => []NamesInv
<1>1. NamesInit => NamesInv
  BY DEF NamesInit, NamesInv, Zeros
<1>2. NamesInv /\ [NamesNext]_namesVars => NamesInv'
  <2> SUFFICES ASSUME NamesInv, [NamesNext]_namesVars PROVE NamesInv'
    OBVIOUS
  <2>1. ASSUME NEW n \in Name, noosfs_open(n) PROVE NamesInv'
    BY <2>1, BufferStays DEF noosfs_open, NamesInv
  <2>2. CASE UNCHANGED namesVars
    BY <2>2 DEF namesVars, NamesInv
  <2> QED BY <2>1, <2>2, CreateInv, DeleteInv DEF NamesNext
<1> QED BY <1>1, <1>2, PTL DEF NamesSpec

\* Whatever names programs pass and whatever buffers held before: a path splits into what it
\* was put together from, and a name finds the file that was created under it and no other.
THEOREM FilesAreFoundByName == NamesSpec => []FindsByName
<1>1. ASSUME NamesInv, NEW n \in Name, SplitPath(PathTo(n)).ok
      PROVE  LET slots == {j \in DOMAIN header : header[j].InUse /\ header[j].meant = n}
                 path == SplitPath(PathTo(n))
             IN  /\ StringOf(path.MountPoint) = Mount /\ StringOf(path.Filename) = n
                 /\ IsValidFilename(path.Filename) =>
                      FindFile(path.Filename) = IF slots = {} THEN 0 ELSE Min(slots)
  <2> DEFINE path == SplitPath(PathTo(n))
             slots == {j \in DOMAIN header : header[j].InUse /\ header[j].meant = n}
  <2>1. StringOf(path.MountPoint) = Mount
    <3>1. Holds(path.MountPoint, PathSize, Mount)
      BY <1>1, PathSplit DEF NamesInv
    <3> QED BY <3>1, BufferSizes, StringHeld
  <2>2. /\ StringOf(path.Filename) = n
        /\ IsValidFilename(path.Filename) <=> ValidName(n)
        /\ \A k \in Offsets(NameSize) : path.Filename[k] = NameField(n)[k]
    BY <1>1, SplitField DEF NamesInv
  <2> HIDE DEF path
  <2>3. ASSUME IsValidFilename(path.Filename)
        PROVE  FindFile(path.Filename) = IF slots = {} THEN 0 ELSE Min(slots)
    <3>1. {j \in DOMAIN header : header[j].InUse /\ SameField(path.Filename, header[j].Filename, NameSize)}
            = slots
      BY <1>1, <2>2, <2>3, FoundIsMeant
    <3> QED BY <3>1 DEF FindFile
  <2> QED BY <2>1, <2>2, <2>3 DEF path
<1>2. NamesInv => FindsByName
  BY <1>1 DEF FindsByName
<1> QED BY <1>2, NamesInvariant, PTL

(***************************************************************************)
(* ImageOrder: the byte order of an image                                  *)
(***************************************************************************)
\* A word of an image, the same word swapped, and the count the loop runs up to.
Stored(n) == Encode(n, order)
Turned(n) == SwapUInt32(Encode(n, order))
Turns == Value(Turned(meant.table["NumberOfFiles"]))

\* The inductive invariant: what has been swapped is what was meant to be, in the order of
\* the loop, which runs up to the count as it reads once it is swapped, or out of the table.
ImageInv ==
  /\ order \in Orders
  /\ \A f \in TableField : meant.table[f] \in Nat
  /\ meant.table["NumberOfFiles"] <= EEFS_MAX_FILES
  /\ \A k \in 1 .. EEFS_MAX_FILES, f \in EntryField : meant.file[k][f] \in Nat
  /\ \A f \in FileField : meant.fileHeader[f] \in Nat
  /\ swapping \in {"table", "entries", "file header", "done"}
  /\ \A f \in TableField :
       table[f] = IF swapping = "table" THEN Stored(meant.table[f]) ELSE Turned(meant.table[f])
  /\ DOMAIN file = 1 .. EEFS_MAX_FILES
  /\ \A k \in 1 .. EEFS_MAX_FILES, f \in EntryField :
       file[k][f] = IF k <= entry THEN Turned(meant.file[k][f]) ELSE Stored(meant.file[k][f])
  /\ \A f \in FileField :
       fileHeader[f] = IF swapping = "done" THEN Turned(meant.fileHeader[f])
                       ELSE Stored(meant.fileHeader[f])
  /\ overrun \in BOOLEAN
  /\ entry \in Nat /\ entry <= Turns
  /\ IF overrun THEN entry = EEFS_MAX_FILES + 1 ELSE entry <= EEFS_MAX_FILES
  /\ swapping = "table" => entry = 0
  /\ swapping \in {"file header", "done"} => entry = Turns /\ ~ overrun

LEMMA ByteSizes ==
  /\ ByteValues \in Nat /\ ByteValues >= 2
  /\ EEFS_MAX_FILES \in Nat /\ EEFS_MAX_FILES < ByteValues /\ Number \subseteq Nat
  /\ Machine \in Orders
<1>1. Number \subseteq Nat
  BY ImageAssumption
<1> QED BY <1>1, ImageAssumption

\* The lowest byte of a number and the bytes above it put together again.
LEMMA LowAndHigh ==
  ASSUME NEW n \in Nat
  PROVE  /\ Low(n) \in Nat /\ Low(n) < ByteValues /\ High(n) \in Nat
         /\ Low(n) + ByteValues * High(n) = n
<1>1. \A B \in Nat : B >= 2 => /\ n % B \in Nat /\ n % B < B /\ n \div B \in Nat
                               /\ (n % B) + B * (n \div B) = n
  BY Z3
<1> QED BY <1>1, ByteSizes DEF Low, High

LEMMA BytesMakeUp ==
  ASSUME NEW n \in Nat
  PROVE  MadeUp(LittleEndian(n)) = n
<1>1. High(n) \in Nat /\ High(High(n)) \in Nat
  BY LowAndHigh
<1>2. /\ Low(n) + ByteValues * High(n) = n
      /\ Low(High(n)) + ByteValues * High(High(n)) = High(n)
      /\ Low(High(High(n))) + ByteValues * High(High(High(n))) = High(High(n))
  BY <1>1, LowAndHigh
<1> QED BY <1>2 DEF MadeUp, LittleEndian

LEMMA ReversedWord ==
  ASSUME NEW a, NEW b, NEW c, NEW d
  PROVE  Reverse(<<a, b, c, d>>) = <<d, c, b, a>>
BY DEF Reverse

\* The bytes of a number as a machine has them in its words, read by the other machine.
LEMMA WordTurned ==
  ASSUME NEW n \in Nat, NEW reader \in Orders, order \in Orders
  PROVE  Decode(Turned(n), reader) =
           IF reader = order THEN MadeUp(Reverse(LittleEndian(n))) ELSE MadeUp(LittleEndian(n))
<1> DEFINE b1 == Low(n)  b2 == Low(High(n))  b3 == Low(High(High(n)))  b4 == High(High(High(n)))
<1>1. LittleEndian(n) = <<b1, b2, b3, b4>>
  BY DEF LittleEndian
<1> HIDE DEF b1, b2, b3, b4
<1>2. Reverse(<<b1, b2, b3, b4>>) = <<b4, b3, b2, b1>> /\ Reverse(<<b4, b3, b2, b1>>) = <<b1, b2, b3, b4>>
  BY ReversedWord
<1>3. Encode(n, order) = IF order = "LITTLE_ENDIAN" THEN <<b1, b2, b3, b4>> ELSE <<b4, b3, b2, b1>>
  BY <1>1, <1>2 DEF Encode
<1>4. Turned(n) = IF order = "LITTLE_ENDIAN" THEN <<b4, b3, b2, b1>> ELSE <<b1, b2, b3, b4>>
  BY <1>3 DEF Turned, SwapUInt32
<1>5. CASE order = "LITTLE_ENDIAN"
  BY <1>1, <1>2, <1>4, <1>5 DEF Decode, Orders
<1>6. CASE order = "BIG_ENDIAN"
  BY <1>1, <1>2, <1>4, <1>6 DEF Decode, Orders
<1> QED BY <1>5, <1>6 DEF Orders

LEMMA TheOther ==
  ASSUME order \in Orders
  PROVE  Other(order) \in Orders /\ Other(order) # order /\ (order # Machine => Machine = Other(order))
BY ImageAssumption DEF Orders, Other

\* A swapped word reads as the number it was written with, on the machine of the other order.
LEMMA SwappedReads ==
  ASSUME NEW n \in Nat, order \in Orders
  PROVE  /\ Decode(Turned(n), Other(order)) = n
         /\ order # Machine => Value(Turned(n)) = n
<1>1. Decode(Turned(n), Other(order)) = n
  BY TheOther, WordTurned, BytesMakeUp
<1> QED BY <1>1, TheOther DEF Value

\* The loop of an image of the other order runs up to the number of files; that of an image
\* of this machine's own up to a number that no table has room for.
LEMMA TurnsOfTheLoop ==
  ASSUME order \in Orders, meant.table["NumberOfFiles"] \in Nat,
         meant.table["NumberOfFiles"] <= EEFS_MAX_FILES
  PROVE  /\ Turns \in Nat
         /\ order # Machine => Turns = meant.table["NumberOfFiles"]
         /\ meant.table["NumberOfFiles"] = 0 => Turns = 0
         /\ order = Machine /\ meant.table["NumberOfFiles"] > 0 => Turns > EEFS_MAX_FILES + 1
<1> DEFINE c == meant.table["NumberOfFiles"]
<1>1. CASE order # Machine
  BY <1>1, SwappedReads DEF Turns
<1>2. CASE order = Machine
  <2>1. c \in Nat /\ c < ByteValues
    BY ByteSizes
  <2>2. Low(c) = c /\ High(c) = 0
    <3>1. \A B \in Nat, x \in Nat : x < B => x % B = x /\ x \div B = 0
      BY Z3
    <3> QED BY <2>1, <3>1, ByteSizes DEF Low, High
  <2>3. Low(0) = 0 /\ High(0) = 0
    <3>1. \A B \in Nat : 0 < B => 0 % B = 0 /\ 0 \div B = 0
      BY Z3
    <3> QED BY <3>1, ByteSizes DEF Low, High
  <2>4. LittleEndian(c) = <<c, 0, 0, 0>>
    BY <2>2, <2>3 DEF LittleEndian
  <2>5. Reverse(LittleEndian(c)) = <<0, 0, 0, c>>
    BY <2>4, ReversedWord
  <2>6. MadeUp(<<0, 0, 0, c>>) = ByteValues * (ByteValues * (ByteValues * c))
    <3>1. /\ ByteValues * c \in Nat /\ ByteValues * (ByteValues * c) \in Nat
          /\ ByteValues * (ByteValues * (ByteValues * c)) \in Nat
      BY <2>1, ByteSizes
    <3> QED BY <3>1 DEF MadeUp
  <2>7. Turns = ByteValues * (ByteValues * (ByteValues * c))
    BY <1>2, <2>1, <2>5, <2>6, WordTurned, ByteSizes DEF Turns, Value
  <2>8. \A B \in Nat, x \in Nat : B >= 2 /\ x >= 1 => B * x \in Nat /\ B * x >= B /\ B * x >= 2 * x
    OBVIOUS
  <2>9. ASSUME c > 0 PROVE Turns \in Nat /\ Turns > EEFS_MAX_FILES + 1
    <3>1. ByteValues * c \in Nat /\ ByteValues * c >= ByteValues
      BY <2>1, <2>8, <2>9, ByteSizes
    <3>2. ByteValues * (ByteValues * c) \in Nat /\ ByteValues * (ByteValues * c) >= 2 * (ByteValues * c)
      BY <2>8, <3>1, ByteSizes
    <3>3. Turns \in Nat /\ Turns >= 2 * (ByteValues * (ByteValues * c))
      BY <2>7, <2>8, <3>1, <3>2, ByteSizes
    <3> QED BY <3>1, <3>2, <3>3, ByteSizes
  <2>10. ASSUME c = 0 PROVE Turns = 0
    BY <2>7, <2>10, ByteSizes
  <2> QED BY <1>2, <2>1, <2>9, <2>10
<1> QED BY <1>1, <1>2

\* The same of a state of the invariant, and the count that the loop reads.
LEMMA LoopCount ==
  ASSUME ImageInv
  PROVE  /\ Turns \in Nat /\ meant.table["NumberOfFiles"] \in Nat
         /\ swapping # "table" => Value(table["NumberOfFiles"]) = Turns
<1>1. "NumberOfFiles" \in TableField
  BY DEF TableField
<1>2. Turns \in Nat /\ meant.table["NumberOfFiles"] \in Nat
  BY <1>1, TurnsOfTheLoop DEF ImageInv
<1>3. swapping # "table" => table["NumberOfFiles"] = Turned(meant.table["NumberOfFiles"])
  BY <1>1 DEF ImageInv
<1> QED BY <1>2, <1>3 DEF Turns

LEMMA ImageInitInv == ImageInit => ImageInv
<1> SUFFICES ASSUME ImageInit PROVE ImageInv
  OBVIOUS
<1>1. PICK from \in Orders, offset \in Number, length \in Number, files \in 0 .. EEFS_MAX_FILES,
           used \in {0, 1} :
        LET tableNumber == [f \in TableField |->
                          IF f = "NumberOfFiles" THEN files
                          ELSE IF f = "FreeMemoryOffset" THEN offset ELSE length]
            entryNumber == [k \in 1 .. EEFS_MAX_FILES |-> [f \in EntryField |->
                          IF f = "MaxFileSize" THEN length ELSE offset]]
            fileNumber == [f \in FileField |->
                          IF f = "InUse" THEN used ELSE IF f = "FileSize" THEN length ELSE offset]
        IN  /\ order = from
            /\ meant = [table |-> tableNumber, file |-> entryNumber, fileHeader |-> fileNumber]
            /\ table = [f \in TableField |-> Encode(tableNumber[f], from)]
            /\ file = [k \in 1 .. EEFS_MAX_FILES |-> [f \in EntryField |-> Encode(entryNumber[k][f], from)]]
            /\ fileHeader = [f \in FileField |-> Encode(fileNumber[f], from)]
            /\ swapping = "table" /\ entry = 0 /\ overrun = FALSE
  BY DEF ImageInit
<1>2. /\ offset \in Nat /\ length \in Nat /\ used \in Nat
      /\ files \in Nat /\ files <= EEFS_MAX_FILES /\ EEFS_MAX_FILES \in Nat
  BY ByteSizes
<1>3. /\ order = from
      /\ \A f \in TableField : meant.table[f] \in Nat /\ table[f] = Stored(meant.table[f])
      /\ meant.table["NumberOfFiles"] = files
  BY <1>1, <1>2 DEF Stored, TableField
<1>4. /\ DOMAIN file = 1 .. EEFS_MAX_FILES
      /\ \A k \in 1 .. EEFS_MAX_FILES, f \in EntryField :
           meant.file[k][f] \in Nat /\ file[k][f] = Stored(meant.file[k][f])
  BY <1>1, <1>2 DEF Stored
<1>5. \A f \in FileField : meant.fileHeader[f] \in Nat /\ fileHeader[f] = Stored(meant.fileHeader[f])
  BY <1>1, <1>2 DEF Stored
<1>6. swapping = "table" /\ entry = 0 /\ overrun = FALSE
  BY <1>1
<1>7. entry \in Nat /\ entry <= Turns /\ entry <= EEFS_MAX_FILES
  <2>1. Turns \in Nat
    BY <1>2, <1>3, TurnsOfTheLoop
  <2> QED BY <1>2, <1>6, <2>1
<1>8. \A k \in 1 .. EEFS_MAX_FILES : ~ (k <= entry)
  BY <1>2, <1>6
<1>9. overrun \in BOOLEAN /\ swapping \notin {"file header", "done"} /\ order \in Orders
  BY <1>3, <1>6
<1> QED BY <1>2, <1>3, <1>4, <1>5, <1>6, <1>7, <1>8, <1>9 DEF ImageInv

\* One turn of the loop swaps the next entry, or leaves the table.
LEMMA SwapEntryInv ==
  ASSUME ImageInv, SwapEntry
  PROVE  ImageInv'
<1>1. /\ swapping = "entries" /\ entry \in Nat /\ ~ overrun
      /\ UNCHANGED <<order, table, fileHeader, meant, swapping>> /\ entry' = entry + 1
      /\ Turns' = Turns
  BY DEF SwapEntry, ImageInv, Turns, Turned, Value
<1>2. Turns \in Nat /\ entry < Turns
  BY <1>1, LoopCount DEF SwapEntry
<1>3. entry' \in Nat /\ entry' <= Turns'
  BY <1>1, <1>2
<1>4. EEFS_MAX_FILES \in Nat /\ entry <= EEFS_MAX_FILES
  BY <1>1, ByteSizes DEF ImageInv
<1>5. \A k \in 1 .. EEFS_MAX_FILES, f \in EntryField :
        file[k][f] = IF k <= entry THEN Turned(meant.file[k][f]) ELSE Stored(meant.file[k][f])
  BY DEF ImageInv
<1>6. CASE entry < EEFS_MAX_FILES
  <2>1. /\ file' = [file EXCEPT ![entry + 1] = [f \in EntryField |-> SwapUInt32(@[f])]]
        /\ overrun' = FALSE /\ entry' <= EEFS_MAX_FILES
    BY <1>1, <1>4, <1>6 DEF SwapEntry, ImageInv
  <2>2. DOMAIN file' = 1 .. EEFS_MAX_FILES
    BY <2>1 DEF ImageInv
  <2>3. ASSUME NEW k \in 1 .. EEFS_MAX_FILES, NEW f \in EntryField
        PROVE  file'[k][f] = IF k <= entry' THEN Turned(meant.file[k][f]) ELSE Stored(meant.file[k][f])
    <3>1. CASE k = entry + 1
      <4>1. file'[k][f] = SwapUInt32(file[k][f])
        BY <2>1, <3>1 DEF ImageInv
      <4>2. file[k][f] = Stored(meant.file[k][f])
        BY <1>1, <1>5, <3>1
      <4> QED BY <1>1, <3>1, <4>1, <4>2 DEF Turned, Stored
    <3>2. CASE k # entry + 1
      <4>1. file'[k][f] = file[k][f]
        BY <2>1, <3>2 DEF ImageInv
      <4>2. k <= entry <=> k <= entry'
        BY <1>1, <3>2
      <4> QED BY <1>5, <4>1, <4>2
    <3> QED BY <3>1, <3>2
  <2> QED BY <1>1, <1>3, <2>1, <2>2, <2>3 DEF ImageInv, Stored, Turned
<1>7. CASE entry = EEFS_MAX_FILES
  <2>1. /\ UNCHANGED file /\ overrun' = TRUE /\ entry' = EEFS_MAX_FILES + 1
    BY <1>1, <1>4, <1>7 DEF SwapEntry
  <2>2. ASSUME NEW k \in 1 .. EEFS_MAX_FILES
        PROVE  k <= entry /\ k <= entry'
    BY <1>4, <1>7, <2>1
  <2> QED BY <1>1, <1>3, <2>1, <2>2 DEF ImageInv, Stored, Turned
<1> QED BY <1>1, <1>4, <1>6, <1>7

LEMMA ImageStep ==
  ASSUME ImageInv, [ImageNext]_imageVars
  PROVE  ImageInv'
<1>1. CASE SwapTableHeader
  <2>1. \A f \in TableField : table'[f] = Turned(meant.table[f])
    BY <1>1 DEF SwapTableHeader, SwappedFields, ImageInv, Turned, Stored
  <2>2. Turns' = Turns /\ Turns \in Nat
    BY <1>1, LoopCount DEF SwapTableHeader, Turns, Turned, Value
  <2> QED BY <1>1, <2>1, <2>2 DEF SwapTableHeader, ImageInv, Turned, Stored
<1>2. CASE SwapEntry
  BY <1>2, SwapEntryInv
<1>3. CASE EntriesDone
  <2>1. /\ swapping = "entries" /\ ~ overrun /\ entry >= Value(table["NumberOfFiles"])
        /\ entry \in Nat /\ entry <= Turns
    BY <1>3 DEF EntriesDone, ImageInv
  <2>2. entry = Turns
    BY <2>1, LoopCount
  <2>3. Turns' = Turns
    BY <1>3 DEF EntriesDone, Turns, Turned, Value
  <2> QED BY <1>3, <2>1, <2>2, <2>3 DEF EntriesDone, ImageInv, Turned, Stored
<1>4. CASE SwapFileHeader
  <2>1. \A f \in FileField : fileHeader'[f] = Turned(meant.fileHeader[f])
    BY <1>4 DEF SwapFileHeader, ImageInv, Turned, Stored
  <2>2. Turns' = Turns
    BY <1>4 DEF SwapFileHeader, Turns, Turned, Value
  <2> QED BY <1>4, <2>1, <2>2 DEF SwapFileHeader, ImageInv, Turned, Stored
<1>5. CASE UNCHANGED imageVars
  BY <1>5 DEF imageVars, ImageInv, Turned, Stored, Turns, Value
<1> QED BY <1>1, <1>2, <1>3, <1>4, <1>5 DEF ImageNext

\* An image of either order, with any number of files and any numbers in it, reads on the
\* other machine as meant once it has been swapped; the loop keeps to the table with an image
\* of the other order, and leaves it with every image of this one that has a file.
THEOREM ImagesReadAsMeant == ImageSpec => []ReadsAsMeant
<1>1. ASSUME ImageInv PROVE ReadsAsMeant
  <2> DEFINE files == meant.table["NumberOfFiles"]
  <2>1. /\ order \in Orders /\ EEFS_MAX_FILES \in Nat /\ files \in Nat /\ files <= EEFS_MAX_FILES
        /\ Turns \in Nat
    BY <1>1, LoopCount, ByteSizes DEF ImageInv
  <2>2. /\ order # Machine => Turns = files
        /\ files = 0 => Turns = 0
        /\ order = Machine /\ files > 0 => Turns > EEFS_MAX_FILES + 1
    BY <2>1, TurnsOfTheLoop
  <2>3. overrun => order = Machine /\ files > 0
    <3>1. overrun => entry = EEFS_MAX_FILES + 1 /\ entry <= Turns
      BY <1>1 DEF ImageInv
    <3> QED BY <2>1, <2>2, <3>1
  <2>4. ASSUME swapping \in {"file header", "done"}
        PROVE  entry = Turns /\ Turns = files /\ (order # Machine \/ files = 0)
    <3>1. entry = Turns /\ entry <= EEFS_MAX_FILES
      BY <1>1, <2>4 DEF ImageInv
    <3> QED BY <2>1, <2>2, <3>1
  <2>5. ASSUME swapping = "done", NEW f \in TableField
        PROVE  Decode(table[f], Other(order)) = meant.table[f]
    BY <1>1, <2>5, SwappedReads DEF ImageInv
  <2>6. ASSUME swapping = "done", NEW k \in 1 .. files, NEW f \in EntryField
        PROVE  Decode(file[k][f], Other(order)) = meant.file[k][f]
    <3>1. k \in 1 .. EEFS_MAX_FILES /\ k <= entry
      BY <2>1, <2>4, <2>6
    <3> QED BY <1>1, <2>6, <3>1, SwappedReads DEF ImageInv
  <2>7. ASSUME swapping = "done", NEW f \in FileField
        PROVE  Decode(fileHeader[f], Other(order)) = meant.fileHeader[f]
    BY <1>1, <2>7, SwappedReads DEF ImageInv
  <2> QED BY <2>3, <2>4, <2>5, <2>6, <2>7 DEF ReadsAsMeant
<1>2. ImageInv /\ [ImageNext]_imageVars => ImageInv'
  BY ImageStep
<1> QED BY <1>1, <1>2, ImageInitInv, PTL DEF ImageSpec

(****************************************************************************)
(* BobSort: a sorted array                                                   *)
(****************************************************************************)
\* The passes over the numbers from the greatest to the least: pass p has left the
\* numbers above top in place, and carries top from the front to where it belongs.
Top(p) == size - 1 - p
Carried(p) == IF i < Top(p) THEN i ELSE Top(p)
NumberAt(p, k) ==
  IF k > Top(p) THEN k
  ELSE IF k < Carried(p) THEN Top(p) - 1 - k
  ELSE IF k = Carried(p) THEN Top(p)
  ELSE Top(p) - k

InPass(p) ==
  /\ \A k \in Used : sortdata[k] = NumberAt(p, k)
  /\ 2 * swaps = p * (2 * size - 1 - p) + 2 * Carried(p)
  /\ sorted <=> Carried(p) = 0

\* The inductive invariant: numbers that begin in order are left alone, the others are
\* in one of the passes.
Sorting ==
  /\ size \in Int /\ size <= max_sort_size /\ i \in Nat /\ swaps \in Int
  /\ size < 1 => sorted /\ swaps = 0
  /\ size >= 1 /\ ascending => /\ \A k \in Used : sortdata[k] = k
                               /\ sorted /\ swaps = 0
  /\ size >= 1 /\ ~ ascending =>
       \E p \in 0 .. size - 1 : InPass(p) /\ (pc = "end" => p = size - 1)

SortInv ==
  /\ DOMAIN sortdata = Cells
  /\ pc \in {"typing", "scan", "end"}
  /\ pc # "typing" => Sorting

LEMMA BeginInv ==
  ASSUME SortInv, NEW s \in Sizes, NEW up \in BOOLEAN, Begin(s, up)
  PROVE  SortInv'
<1>0. s \in Int /\ max_sort_size \in Nat
  BY SortAssumption
<1>1. CASE s > max_sort_size
  BY <1>1 DEF Begin, SortInv
<1>2. CASE ~ (s > max_sort_size)
  <2>1. /\ size' = s /\ ascending' = up /\ i' = 0 /\ sorted' = TRUE /\ swaps' = 0 /\ pc' = "scan"
        /\ sortdata' = [k \in Cells |-> IF k >= s THEN sortdata[k] ELSE IF up THEN k ELSE s - k - 1]
    BY <1>2 DEF Begin
  <2>2. \A k \in Used' : sortdata'[k] = IF up THEN k ELSE s - k - 1
    BY <1>0, <1>2, <2>1 DEF Used, Cells
  <2>3. ASSUME s >= 1, ~ up PROVE InPass(0)' /\ 0 \in 0 .. s - 1
    <3>1. Top(0)' = s - 1 /\ Carried(0)' = 0
      BY <1>0, <2>1, <2>3 DEF Top, Carried
    <3>2. \A k \in Used' : sortdata'[k] = NumberAt(0, k)'
      BY <1>0, <2>1, <2>2, <2>3, <3>1 DEF NumberAt, Used
    <3> QED BY <1>0, <2>1, <2>3, <3>1, <3>2 DEF InPass
  <2>4. Sorting'
    BY <1>0, <1>2, <2>1, <2>2, <2>3 DEF Sorting
  <2> QED BY <2>1, <2>4 DEF SortInv
<1> QED BY <1>1, <1>2

\* A comparison: while the greatest number is carried it goes on to the next place, and
\* behind it nothing is out of order.
LEMMA ComparePass ==
  ASSUME SortInv, Compare, size >= 1, ~ ascending, NEW p \in 0 .. size - 1, InPass(p)
  PROVE  InPass(p)'
<1>0. /\ size \in Int /\ i \in Nat /\ i < size - 1 /\ p \in Int /\ swaps \in Int
      /\ i \in Used /\ i + 1 \in Used /\ Used \subseteq Cells
      /\ size' = size /\ i' = i + 1 /\ Used' = Used
  BY SortAssumption DEF SortInv, Sorting, Compare, LastPair, Used, Cells
<1>1. sortdata[i] = NumberAt(p, i) /\ sortdata[i + 1] = NumberAt(p, i + 1)
  BY <1>0 DEF InPass
<1>2. Top(p) \in Nat /\ Top(p) <= size - 1 /\ Top(p)' = Top(p)
  BY <1>0 DEF Top
<1>3. CASE i < Top(p)
  <2>1. Carried(p) = i /\ Carried(p)' = i + 1
    BY <1>0, <1>2, <1>3 DEF Carried
  <2>2. sortdata[i] = Top(p) /\ sortdata[i + 1] = Top(p) - (i + 1)
    BY <1>0, <1>1, <1>2, <1>3, <2>1 DEF NumberAt
  <2>3. OutOfOrder(sortdata[i], sortdata[i + 1])
    BY <1>0, <1>2, <2>2 DEF OutOfOrder
  <2>4. /\ sortdata' = [sortdata EXCEPT ![i] = sortdata[i + 1], ![i + 1] = sortdata[i]]
        /\ sorted' = FALSE /\ swaps' = swaps + 1
    BY <2>3 DEF Compare
  <2>5. ASSUME NEW k \in Used PROVE sortdata'[k] = NumberAt(p, k)'
    <3>1. sortdata'[k] = IF k = i + 1 THEN sortdata[i] ELSE IF k = i THEN sortdata[i + 1] ELSE sortdata[k]
      BY <1>0, <2>4 DEF SortInv
    <3>2. sortdata[k] = NumberAt(p, k) /\ k \in Nat
      BY DEF InPass, Used
    <3> QED BY <1>0, <1>2, <1>3, <2>1, <2>2, <3>1, <3>2 DEF NumberAt
  <2>6. 2 * swaps' = p * (2 * size' - 1 - p) + 2 * Carried(p)'
    <3> DEFINE n == p * (2 * size - 1 - p)
    <3>1. 2 * swaps = n + 2 * i /\ n \in Int /\ n' = n
      BY <1>0, <2>1 DEF InPass
    <3> HIDE DEF n
    <3>2. 2 * swaps' = n' + 2 * Carried(p)'
      BY <1>0, <2>1, <2>4, <3>1
    <3> QED BY <3>2 DEF n
  <2>7. sorted' <=> Carried(p)' = 0
    BY <1>0, <2>1, <2>4
  <2> QED BY <1>0, <2>5, <2>6, <2>7 DEF InPass
<1>4. CASE ~ (i < Top(p))
  <2>1. Carried(p) = Top(p) /\ Carried(p)' = Top(p)
    BY <1>0, <1>2, <1>4 DEF Carried
  <2>2. sortdata[i] = i /\ sortdata[i + 1] = i + 1
    BY <1>0, <1>1, <1>2, <1>4, <2>1 DEF NumberAt
  <2>3. ~ OutOfOrder(sortdata[i], sortdata[i + 1])
    BY <1>0, <2>2 DEF OutOfOrder
  <2>4. UNCHANGED <<sortdata, sorted, swaps>>
    BY <2>3 DEF Compare
  <2>5. \A k \in Used : NumberAt(p, k)' = NumberAt(p, k)
    BY <1>2, <2>1 DEF NumberAt
  <2> QED BY <1>0, <1>2, <2>1, <2>4, <2>5 DEF InPass
<1> QED BY <1>3, <1>4

LEMMA CompareInv ==
  ASSUME SortInv, Compare
  PROVE  SortInv'
<1>0. /\ size \in Int /\ i \in Nat /\ i < size - 1 /\ size <= max_sort_size /\ swaps \in Int
      /\ i \in Used /\ i + 1 \in Used /\ size >= 1
      /\ size' = size /\ i' = i + 1 /\ Used' = Used /\ pc = "scan" /\ pc' = pc /\ ascending' = ascending
  BY SortAssumption DEF SortInv, Sorting, Compare, LastPair, Used
<1>1. DOMAIN sortdata' = Cells /\ swaps' \in Int
  <2>1. CASE OutOfOrder(sortdata[i], sortdata[i + 1])
    <3>1. /\ sortdata' = [sortdata EXCEPT ![i] = sortdata[i + 1], ![i + 1] = sortdata[i]]
          /\ sorted' = FALSE /\ swaps' = swaps + 1
      BY <2>1 DEF Compare
    <3>2. DOMAIN sortdata' = DOMAIN sortdata
      BY <3>1
    <3> QED BY <1>0, <3>1, <3>2 DEF SortInv
  <2>2. CASE ~ OutOfOrder(sortdata[i], sortdata[i + 1])
    <3>1. UNCHANGED <<sortdata, sorted, swaps>>
      BY <2>2 DEF Compare
    <3> QED BY <1>0, <3>1 DEF SortInv
  <2> QED BY <2>1, <2>2
<1>2. CASE ascending
  <2>1. sortdata[i] = i /\ sortdata[i + 1] = i + 1
    BY <1>0, <1>2 DEF SortInv, Sorting
  <2>2. ~ OutOfOrder(sortdata[i], sortdata[i + 1])
    BY <1>0, <2>1 DEF OutOfOrder
  <2>3. UNCHANGED <<sortdata, sorted, swaps>>
    BY <2>2 DEF Compare
  <2> QED BY <1>0, <1>1, <1>2, <2>3 DEF SortInv, Sorting
<1>3. CASE ~ ascending
  <2>1. PICK p \in 0 .. size - 1 : InPass(p)
    BY <1>0, <1>3 DEF SortInv, Sorting
  <2>2. InPass(p)'
    BY <1>0, <1>3, <2>1, ComparePass
  <2> QED BY <1>0, <1>1, <1>3, <2>1, <2>2 DEF SortInv, Sorting
<1> QED BY <1>2, <1>3

\* The end of a pass: the greatest number has arrived, and there is another pass unless
\* it was there already.
LEMMA NextPassInv ==
  ASSUME SortInv, NextPass
  PROVE  SortInv'
<1>0. /\ size \in Int /\ i \in Nat /\ i >= size - 1 /\ size <= max_sort_size /\ swaps \in Int
      /\ size' = size /\ Used' = Used /\ pc = "scan" /\ ascending' = ascending
      /\ sortdata' = sortdata /\ swaps' = swaps
  BY DEF SortInv, Sorting, NextPass, LastPair, Used
<1>1. CASE sorted
  <2>1. pc' = "end" /\ UNCHANGED <<i, sorted>>
    BY <1>1 DEF NextPass
  <2>2. ASSUME size >= 1, ~ ascending, NEW p \in 0 .. size - 1, InPass(p)
        PROVE  InPass(p)' /\ p = size - 1
    <3>1. Carried(p) = 0
      BY <1>1, <2>2 DEF InPass
    <3>2. Carried(p) = Top(p)
      BY <1>0, <2>2 DEF Carried, Top
    <3>3. p = size - 1
      BY <1>0, <3>1, <3>2 DEF Top
    <3> QED BY <1>0, <2>1, <2>2, <3>3 DEF InPass, NumberAt, Carried, Top
  <2> QED BY <1>0, <2>1, <2>2 DEF SortInv, Sorting
<1>2. CASE ~ sorted
  <2>1. pc' = pc /\ i' = 0 /\ sorted' = TRUE
    BY <1>0, <1>2 DEF NextPass, Again
  <2>2. size >= 1 /\ ~ ascending
    BY <1>0, <1>2 DEF SortInv, Sorting
  <2>3. PICK p \in 0 .. size - 1 : InPass(p)
    BY <1>0, <2>2 DEF SortInv, Sorting
  <2>4. p \in Int /\ Carried(p) = Top(p) /\ Top(p) # 0 /\ Top(p) \in Nat
    BY <1>0, <1>2, <2>3 DEF InPass, Carried, Top
  <2>5. p + 1 \in 0 .. size - 1 /\ Top(p + 1)' = Top(p) - 1 /\ Carried(p + 1)' = 0
    BY <1>0, <2>1, <2>4 DEF Top, Carried
  <2>6. ASSUME NEW k \in Used PROVE sortdata'[k] = NumberAt(p + 1, k)'
    <3>1. sortdata'[k] = NumberAt(p, k) /\ k \in Nat
      BY <1>0, <2>3 DEF InPass, Used
    <3> QED BY <1>0, <2>1, <2>4, <2>5, <3>1 DEF NumberAt
  <2>7. 2 * swaps' = (p + 1) * (2 * size' - 1 - (p + 1)) + 2 * Carried(p + 1)'
    <3>1. 2 * swaps = p * (2 * size - 1 - p) + 2 * (size - 1 - p)
      BY <2>3, <2>4 DEF InPass, Top
    <3>2. (p + 1) * (2 * size - 1 - (p + 1)) = p * (2 * size - 1 - p) + 2 * (size - 1 - p)
      BY <1>0, <2>4
    <3> QED BY <1>0, <2>5, <3>1, <3>2
  <2>8. InPass(p + 1)'
    BY <1>0, <2>1, <2>5, <2>6, <2>7 DEF InPass
  <2> QED BY <1>0, <2>1, <2>2, <2>5, <2>8 DEF SortInv, Sorting
<1> QED BY <1>0, <1>1, <1>2

LEMMA SortInvariant == SortSpec => []SortInv
<1>1. SortInit => SortInv
  BY DEF SortInit, SortInv
<1>2. SortInv /\ [SortNext]_sortVars => SortInv'
  <2> SUFFICES ASSUME SortInv, [SortNext]_sortVars PROVE SortInv'
    OBVIOUS
  <2>1. CASE Return
    BY <2>1 DEF Return, SortInv
  <2>2. CASE UNCHANGED sortVars
    BY <2>2 DEF sortVars, SortInv, Sorting, InPass, NumberAt, Carried, Top, Used
  <2> QED BY <2>1, <2>2, BeginInv, CompareInv, NextPassInv DEF SortNext, Program
<1> QED BY <1>1, <1>2, PTL DEF SortSpec

\* Arrays of every size are sorted, whatever stood in them, with the number of swaps that
\* the program reports.
THEOREM ArraysAreSorted == SortSpec => []SortedAtTheEnd
<1>1. ASSUME SortInv, pc = "end" PROVE SortedAtTheEnd
  <2>0. Sorting /\ size \in Int /\ swaps \in Int
    BY <1>1 DEF SortInv, Sorting
  <2>1. CASE size < 1
    BY <2>0, <2>1 DEF Sorting, SortedAtTheEnd, Used
  <2>2. CASE size >= 1 /\ ascending
    BY <2>0, <2>2 DEF Sorting, SortedAtTheEnd, Used
  <2>3. CASE size >= 1 /\ ~ ascending
    <3>1. size - 1 \in 0 .. size - 1 /\ InPass(size - 1)
      BY <1>1, <2>0, <2>3 DEF Sorting
    <3>2. Top(size - 1) = 0 /\ Carried(size - 1) = 0
      BY <2>0, <3>1 DEF Top, Carried, SortInv, Sorting
    <3>3. \A k \in Used : sortdata[k] = k
      BY <2>0, <3>1, <3>2 DEF InPass, NumberAt, Used
    <3>4. 2 * swaps = size * (size - 1)
      <4>1. 2 * swaps = (size - 1) * (2 * size - 1 - (size - 1)) + 2 * 0
        BY <3>1, <3>2 DEF InPass
      <4>2. 2 * size - 1 - (size - 1) = size
        BY <2>0
      <4>3. (size - 1) * size = size * (size - 1) /\ (size - 1) * size \in Int
        BY <2>0
      <4> QED BY <4>1, <4>2, <4>3
    <3>5. swaps = (size * (size - 1)) \div 2
      <4> DEFINE n == size * (size - 1)
      <4>1. 2 * swaps = n
        BY <3>4
      <4> HIDE DEF n
      <4>2. swaps = n \div 2
        BY <2>0, <4>1
      <4> QED BY <4>2 DEF n
    <3>6. size < 2 => swaps = 0
      <4>1. size < 2 => size = 1
        BY <2>0, <2>3
      <4> QED BY <2>0, <3>4, <4>1
    <3> QED BY <2>3, <3>3, <3>5, <3>6 DEF SortedAtTheEnd
  <2> QED BY <2>0, <2>1, <2>2, <2>3
<1>2. SortInv => SortedAtTheEnd
  BY <1>1 DEF SortedAtTheEnd
<1> QED BY <1>2, SortInvariant, PTL

(***************************************************************************)
(* NumberText: powers and numerals                                         *)
(***************************************************************************)
\* A set with 0, and with n + 1 for every n, has all natural numbers.
LEMMA AllNaturals ==
  ASSUME NEW S, 0 \in S, \A n \in Nat : n \in S => n + 1 \in S
  PROVE  Nat \subseteq S
<1> DEFINE Missing == {n \in Nat : n \notin S}
<1> SUFFICES ASSUME Missing # {} PROVE FALSE
  OBVIOUS
<1>1. PICK m \in Missing : \A k \in Missing : m <= k
  <2> HIDE DEF Missing
  <2>1. Missing \in SUBSET Nat
    BY DEF Missing
  <2> QED BY <2>1, LeastElement
<1>2. m \in Nat /\ m \notin S /\ m # 0
  OBVIOUS
<1>3. m - 1 \in Nat /\ m - 1 + 1 = m /\ ~ (m <= m - 1)
  BY <1>2
<1>4. m - 1 \in S
  BY <1>1, <1>3
<1> QED BY <1>2, <1>3, <1>4

\* The loop that computes a power: what it holds after each turn.
PowersUpTo(power, b, n) == power = [j \in 0 .. n |-> IF j = 0 THEN 1 ELSE power[j - 1] * b]

LEMMA PowersExist ==
  ASSUME NEW b, NEW n \in Nat
  PROVE  \E power : PowersUpTo(power, b, n)
<1> DEFINE S == {k \in Nat : \E power : PowersUpTo(power, b, k)}
<1>1. 0 \in S
  <2>1. PowersUpTo([j \in 0 .. 0 |-> 1], b, 0)
    BY DEF PowersUpTo
  <2> QED BY <2>1
<1>2. ASSUME NEW k \in Nat, k \in S
      PROVE  k + 1 \in S
  <2>1. PICK power : PowersUpTo(power, b, k)
    BY <1>2
  <2> DEFINE next == [j \in 0 .. k + 1 |-> IF j = k + 1 THEN power[k] * b ELSE power[j]]
  <2>2. ASSUME NEW j \in 0 .. k + 1
        PROVE  next[j] = IF j = 0 THEN 1 ELSE next[j - 1] * b
    <3>1. CASE j = k + 1
      <4>1. j # 0 /\ j - 1 = k /\ k \in 0 .. k + 1 /\ k # k + 1
        BY <3>1
      <4> QED BY <3>1, <4>1
    <3>2. CASE j # k + 1 /\ j # 0
      <4>1. j \in 0 .. k /\ j - 1 \in 0 .. k + 1 /\ j - 1 # k + 1
        BY <3>2
      <4>2. power[j] = power[j - 1] * b
        BY <2>1, <3>2, <4>1 DEF PowersUpTo
      <4> QED BY <3>2, <4>1, <4>2
    <3>3. CASE j = 0
      <4>1. j \in 0 .. k /\ j # k + 1
        BY <3>3
      <4>2. power[j] = 1
        BY <2>1, <3>3, <4>1 DEF PowersUpTo
      <4> QED BY <3>3, <4>1, <4>2
    <3> QED BY <3>1, <3>2, <3>3
  <2>3. next = [j \in 0 .. k + 1 |-> next[j]]
    OBVIOUS
  <2> HIDE DEF next
  <2>4. PowersUpTo(next, b, k + 1)
    BY <2>2, <2>3 DEF PowersUpTo
  <2> QED BY <2>4
<1> HIDE DEF S
<1>3. Nat \subseteq S
  BY <1>1, <1>2, AllNaturals
<1> QED BY <1>3 DEF S

\* However far it goes, it holds the same after as many turns.
LEMMA PowersAgree ==
  ASSUME NEW b, NEW m \in Nat, NEW n \in 0 .. m, NEW p, NEW q,
         PowersUpTo(p, b, n), PowersUpTo(q, b, m)
  PROVE  p[n] = q[n]
<1> DEFINE S == {k \in Nat : k <= n => p[k] = q[k]}
<1>1. 0 \in S
  BY DEF PowersUpTo
<1>2. ASSUME NEW k \in Nat, k \in S
      PROVE  k + 1 \in S
  <2> SUFFICES ASSUME k + 1 <= n PROVE p[k + 1] = q[k + 1]
    OBVIOUS
  <2>1. k + 1 \in 0 .. n /\ k + 1 \in 0 .. m /\ k + 1 # 0 /\ k + 1 - 1 = k /\ k <= n
    OBVIOUS
  <2>2. p[k + 1] = p[k] * b
    BY <2>1 DEF PowersUpTo
  <2>3. q[k + 1] = q[k] * b
    BY <2>1 DEF PowersUpTo
  <2> QED BY <1>2, <2>1, <2>2, <2>3
<1> HIDE DEF S
<1>3. Nat \subseteq S
  BY <1>1, <1>2, AllNaturals
<1> QED BY <1>3 DEF S

LEMMA PowerIs ==
  ASSUME NEW b, NEW n \in Nat
  PROVE  \E power : PowersUpTo(power, b, n) /\ Power(b, n) = power[n]
<1> DEFINE Chosen == CHOOSE power : PowersUpTo(power, b, n)
<1>1. PowersUpTo(Chosen, b, n)
  BY PowersExist
<1>2. Power(b, n) = Chosen[n]
  BY DEF Power, PowersUpTo
<1> QED BY <1>1, <1>2

LEMMA PowerOf ==
  ASSUME NEW b, NEW n \in Nat
  PROVE  Power(b, 0) = 1 /\ Power(b, n + 1) = Power(b, n) * b
<1>1. PICK p : PowersUpTo(p, b, n) /\ Power(b, n) = p[n]
  BY PowerIs
<1>2. PICK q : PowersUpTo(q, b, n + 1) /\ Power(b, n + 1) = q[n + 1]
  BY PowerIs
<1>3. q[n + 1] = q[n] * b
  BY <1>2 DEF PowersUpTo
<1>4. p[n] = q[n]
  BY <1>1, <1>2, PowersAgree
<1>5. PICK r : PowersUpTo(r, b, 0) /\ Power(b, 0) = r[0]
  BY PowerIs
<1>6. r[0] = 1
  BY <1>5 DEF PowersUpTo
<1> QED BY <1>1, <1>2, <1>3, <1>4, <1>5, <1>6

\* Powers are positive, grow with the exponent and are greater for a greater base.
LEMMA PowerGrows ==
  ASSUME NEW b \in Nat, b >= 10, NEW n \in Nat
  PROVE  Power(b, n) \in Nat /\ Power(b, n) > 0 /\ Power(b, n) >= Power(10, n)
         /\ Power(10, n) \in Nat /\ Power(10, n) > 0
<1> DEFINE S == {k \in Nat : /\ Power(b, k) \in Nat /\ Power(b, k) > 0
                             /\ Power(10, k) \in Nat /\ Power(10, k) > 0
                             /\ Power(b, k) >= Power(10, k)}
<1>1. 0 \in S
  <2>1. Power(b, 0) = 1 /\ Power(10, 0) = 1
    BY PowerOf
  <2> QED BY <2>1
<1>2. ASSUME NEW k \in Nat, k \in S
      PROVE  k + 1 \in S
  <2> DEFINE x == Power(b, k)  y == Power(10, k)
  <2>1. x \in Nat /\ x > 0 /\ y \in Nat /\ y > 0 /\ x >= y
    BY <1>2
  <2>2. Power(b, k + 1) = x * b /\ Power(10, k + 1) = y * 10
    BY PowerOf
  <2> HIDE DEF x, y
  <2>3. x * b \in Nat /\ (b - 10) * x >= 0 /\ x * b = (b - 10) * x + 10 * x
    BY <2>1
  <2>4. x * b > 0 /\ x * b >= y * 10 /\ y * 10 \in Nat /\ y * 10 > 0
    BY <2>1, <2>3
  <2> QED BY <2>2, <2>3, <2>4
<1> HIDE DEF S
<1>3. Nat \subseteq S
  BY <1>1, <1>2, AllNaturals
<1> QED BY <1>3 DEF S

\* What the digits read as, digit by digit.
ReadUpTo(read, b, digits) ==
  read = [n \in 0 .. Len(digits) |-> IF n = 0 THEN 0 ELSE read[n - 1] * b + digits[n]]

LEMMA ReadsExist ==
  ASSUME NEW b, NEW digits, Len(digits) \in Nat
  PROVE  \E read : ReadUpTo(read, b, digits)
<1> DEFINE Upto(read, k) ==
             read = [n \in 0 .. k |-> IF n = 0 THEN 0 ELSE read[n - 1] * b + digits[n]]
           S == {k \in Nat : \E read : Upto(read, k)}
<1>1. 0 \in S
  <2>1. Upto([n \in 0 .. 0 |-> 0], 0)
    OBVIOUS
  <2> QED BY <2>1
<1>2. ASSUME NEW k \in Nat, k \in S
      PROVE  k + 1 \in S
  <2>1. PICK read : Upto(read, k)
    BY <1>2
  <2> DEFINE next == [n \in 0 .. k + 1 |-> IF n = k + 1 THEN read[k] * b + digits[k + 1] ELSE read[n]]
  <2>2. ASSUME NEW n \in 0 .. k + 1
        PROVE  next[n] = IF n = 0 THEN 0 ELSE next[n - 1] * b + digits[n]
    <3>1. CASE n = k + 1
      <4>1. n # 0 /\ n - 1 = k /\ k \in 0 .. k + 1 /\ k # k + 1
        BY <3>1
      <4> QED BY <3>1, <4>1
    <3>2. CASE n # k + 1 /\ n # 0
      <4>1. n \in 0 .. k /\ n - 1 \in 0 .. k + 1 /\ n - 1 # k + 1
        BY <3>2
      <4>2. read[n] = read[n - 1] * b + digits[n]
        BY <2>1, <3>2, <4>1
      <4> QED BY <3>2, <4>1, <4>2
    <3>3. CASE n = 0
      <4>1. n \in 0 .. k /\ n # k + 1
        BY <3>3
      <4>2. read[n] = 0
        BY <2>1, <3>3, <4>1
      <4> QED BY <3>3, <4>1, <4>2
    <3> QED BY <3>1, <3>2, <3>3
  <2>3. next = [n \in 0 .. k + 1 |-> next[n]]
    OBVIOUS
  <2> HIDE DEF next
  <2>4. Upto(next, k + 1)
    BY <2>2, <2>3
  <2> QED BY <2>4
<1> HIDE DEF S
<1>3. Nat \subseteq S
  BY <1>1, <1>2, AllNaturals
<1>4. Len(digits) \in S
  BY <1>3
<1> QED BY <1>4 DEF ReadUpTo, S

LEMMA ReadIs ==
  ASSUME NEW b, NEW digits, Len(digits) \in Nat
  PROVE  \E read : ReadUpTo(read, b, digits) /\ Read(b, digits) = read[Len(digits)]
<1> DEFINE Chosen == CHOOSE read : ReadUpTo(read, b, digits)
<1>1. ReadUpTo(Chosen, b, digits)
  BY ReadsExist
<1>2. Read(b, digits) = Chosen[Len(digits)]
  BY DEF Read, ReadUpTo
<1> QED BY <1>1, <1>2

LEMMA ReadNothing ==
  ASSUME NEW b
  PROVE  Read(b, <<>>) = 0
<1>1. Len(<<>>) = 0 /\ 0 \in Nat
  OBVIOUS
<1>2. PICK read : ReadUpTo(read, b, <<>>) /\ Read(b, <<>>) = read[Len(<<>>)]
  BY <1>1, ReadIs
<1> QED BY <1>1, <1>2 DEF ReadUpTo

\* What is read so far is a number.
LEMMA ReadIsNat ==
  ASSUME NEW b \in Nat, NEW digits \in Seq(Nat), NEW read, ReadUpTo(read, b, digits)
  PROVE  \A k \in 0 .. Len(digits) : read[k] \in Nat
<1> DEFINE S == {k \in Nat : k <= Len(digits) => read[k] \in Nat}
<1>1. 0 \in S
  BY DEF ReadUpTo
<1>2. ASSUME NEW k \in Nat, k \in S
      PROVE  k + 1 \in S
  <2> SUFFICES ASSUME k + 1 <= Len(digits) PROVE read[k + 1] \in Nat
    OBVIOUS
  <2>1. k + 1 \in 0 .. Len(digits) /\ k + 1 # 0 /\ k + 1 - 1 = k /\ k <= Len(digits)
    OBVIOUS
  <2>2. read[k + 1] = read[k] * b + digits[k + 1]
    BY <2>1 DEF ReadUpTo
  <2>3. read[k] \in Nat /\ digits[k + 1] \in Nat
    BY <1>2, <2>1
  <2>4. read[k] * b \in Nat
    BY <2>3
  <2> QED BY <2>2, <2>3, <2>4
<1> HIDE DEF S
<1>3. Nat \subseteq S
  BY <1>1, <1>2, AllNaturals
<1> QED BY <1>3 DEF S

LEMMA ReadNat ==
  ASSUME NEW b \in Nat, NEW digits \in Seq(Nat)
  PROVE  Read(b, digits) \in Nat
<1>1. Len(digits) \in Nat
  OBVIOUS
<1>2. PICK read : ReadUpTo(read, b, digits) /\ Read(b, digits) = read[Len(digits)]
  BY <1>1, ReadIs
<1> QED BY <1>1, <1>2, ReadIsNat

\* A digit behind the others.
LEMMA ReadAppended ==
  ASSUME NEW b \in Nat, NEW digits \in Seq(Nat), NEW d \in Nat
  PROVE  Read(b, Append(digits, d)) = Read(b, digits) * b + d
<1> DEFINE longer == Append(digits, d)
           L == Len(digits)
<1>1. /\ L \in Nat /\ Len(longer) = L + 1 /\ Len(longer) \in Nat /\ longer[L + 1] = d
      /\ \A k \in 1 .. L : longer[k] = digits[k]
  OBVIOUS
<1> HIDE DEF longer
<1>2. PICK f : ReadUpTo(f, b, digits) /\ Read(b, digits) = f[L]
  BY <1>1, ReadIs
<1>3. PICK g : ReadUpTo(g, b, longer) /\ Read(b, longer) = g[Len(longer)]
  BY <1>1, ReadIs
<1> DEFINE S == {k \in Nat : k <= L => f[k] = g[k]}
<1>4. 0 \in S
  BY <1>1, <1>2, <1>3 DEF ReadUpTo
<1>5. ASSUME NEW k \in Nat, k \in S
      PROVE  k + 1 \in S
  <2> SUFFICES ASSUME k + 1 <= L PROVE f[k + 1] = g[k + 1]
    OBVIOUS
  <2>1. /\ k + 1 \in 0 .. L /\ k + 1 \in 0 .. Len(longer) /\ k + 1 # 0 /\ k + 1 - 1 = k
        /\ k <= L /\ k + 1 \in 1 .. L
    BY <1>1
  <2>2. f[k + 1] = f[k] * b + digits[k + 1]
    BY <1>2, <2>1 DEF ReadUpTo
  <2>3. g[k + 1] = g[k] * b + longer[k + 1]
    BY <1>3, <2>1 DEF ReadUpTo
  <2> QED BY <1>1, <1>5, <2>1, <2>2, <2>3
<1> HIDE DEF S
<1>6. Nat \subseteq S
  BY <1>4, <1>5, AllNaturals
<1>7. f[L] = g[L]
  BY <1>1, <1>6 DEF S
<1>8. g[L + 1] = g[L] * b + d
  <2>1. L + 1 \in 0 .. Len(longer) /\ L + 1 # 0 /\ L + 1 - 1 = L
    BY <1>1
  <2> QED BY <1>1, <1>3, <2>1 DEF ReadUpTo
<1> QED BY <1>1, <1>2, <1>3, <1>7, <1>8 DEF longer

\* A digit before the others counts as often as they have places.
LEMMA ReadPrepended ==
  ASSUME NEW b \in Nat, b >= 10, NEW digits \in Seq(Nat), NEW d \in Nat
  PROVE  Read(b, <<d>> \o digits) = d * Power(b, Len(digits)) + Read(b, digits)
<1> DEFINE longer == <<d>> \o digits
           L == Len(digits)
<1>1. /\ L \in Nat /\ Len(longer) = L + 1 /\ Len(longer) \in Nat /\ longer[1] = d
      /\ \A k \in 1 .. L : longer[k + 1] = digits[k]
  OBVIOUS
<1> HIDE DEF longer
<1>2. PICK f : ReadUpTo(f, b, digits) /\ Read(b, digits) = f[L]
  BY <1>1, ReadIs
<1>3. PICK g : ReadUpTo(g, b, longer) /\ Read(b, longer) = g[Len(longer)]
  BY <1>1, ReadIs
<1>4. \A k \in 0 .. L : f[k] \in Nat
  BY <1>2, ReadIsNat
<1> DEFINE S == {k \in Nat : k <= L => g[k + 1] = d * Power(b, k) + f[k]}
<1>5. 0 \in S
  <2>1. Power(b, 0) = 1
    BY PowerOf
  <2>2. f[0] = 0 /\ g[0] = 0
    BY <1>1, <1>2, <1>3 DEF ReadUpTo
  <2>3. 1 \in 0 .. Len(longer) /\ 1 # 0 /\ 1 - 1 = 0
    BY <1>1
  <2>4. g[1] = g[0] * b + longer[1]
    BY <1>3, <2>3 DEF ReadUpTo
  <2>5. g[0 + 1] = d
    BY <1>1, <2>2, <2>4
  <2> QED BY <2>1, <2>2, <2>5
<1>6. ASSUME NEW k \in Nat, k \in S
      PROVE  k + 1 \in S
  <2> SUFFICES ASSUME k + 1 <= L
               PROVE  g[k + 1 + 1] = d * Power(b, k + 1) + f[k + 1]
    OBVIOUS
  <2>1. /\ k + 1 \in 0 .. L /\ k + 2 \in 0 .. Len(longer) /\ k + 1 # 0 /\ k + 1 - 1 = k
        /\ k + 2 # 0 /\ k + 2 - 1 = k + 1 /\ k <= L /\ k + 1 \in 1 .. L /\ k \in 0 .. L
        /\ k + 1 + 1 = k + 2
    BY <1>1
  <2>2. f[k + 1] = f[k] * b + digits[k + 1]
    BY <1>2, <2>1 DEF ReadUpTo
  <2>3. g[k + 2] = g[k + 1] * b + longer[k + 2]
    BY <1>3, <2>1 DEF ReadUpTo
  <2>4. longer[k + 2] = digits[k + 1] /\ digits[k + 1] \in Nat
    BY <1>1, <2>1
  <2>5. g[k + 1] = d * Power(b, k) + f[k] /\ f[k] \in Nat
    BY <1>4, <1>6, <2>1
  <2>6. Power(b, k + 1) = Power(b, k) * b /\ Power(b, k) \in Nat
    BY PowerOf, PowerGrows
  <2> DEFINE w == Power(b, k)  x == f[k]  c == digits[k + 1]
  <2>7. w \in Nat /\ x \in Nat /\ c \in Nat
    BY <2>4, <2>5, <2>6
  <2> HIDE DEF w, x, c, S
  <2>8. (d * w + x) * b + c = d * (w * b) + (x * b + c)
    BY <2>7
  <2>9. g[k + 2] = (d * w + x) * b + c /\ f[k + 1] = x * b + c /\ Power(b, k + 1) = w * b
    BY <2>2, <2>3, <2>4, <2>5, <2>6 DEF w, x, c
  <2> QED BY <2>1, <2>8, <2>9
<1> HIDE DEF S
<1>7. Nat \subseteq S
  BY <1>5, <1>6, AllNaturals
<1>8. g[L + 1] = d * Power(b, L) + f[L]
  BY <1>1, <1>7 DEF S
<1> QED BY <1>1, <1>2, <1>3, <1>8 DEF longer

(***************************************************************************)
(* NumberText: what is printed is the number                               *)
(***************************************************************************)
Digits(b, t) == t \in Seq(Nat) /\ \A j \in 1 .. Len(t) : t[j] \in 0 .. b - 1

\* The last digit of v goes to the front of the digits t that are already there.
LEMMA OneDigitMore ==
  ASSUME NEW b \in Nat, b >= 10, NEW v \in Nat, NEW t, Digits(b, t), NEW n \in Nat,
         n = v * Power(b, Len(t)) + Read(b, t)
  PROVE  /\ Quotient(v, b) \in Nat /\ Rest(v, b) \in 0 .. b - 1
         /\ Digits(b, <<Rest(v, b)>> \o t)
         /\ n = Quotient(v, b) * Power(b, Len(t) + 1) + Read(b, <<Rest(v, b)>> \o t)
         /\ Quotient(v, b) = 0 => Rest(v, b) = v
<1> DEFINE w == Quotient(v, b)
           d == Rest(v, b)
           P == Power(b, Len(t))
           r == Read(b, t)
<1>1. w = v \div b /\ d = v - b * w
  BY DEF Quotient, Rest
<1>2. v \div b \in Nat /\ v - b * (v \div b) \in 0 .. b - 1
  <2>1. v = b * (v \div b) + (v % b) /\ v % b \in 0 .. b - 1 /\ v \div b \in Nat
    OBVIOUS
  <2>2. b * (v \div b) \in Nat
    BY <2>1
  <2> QED BY <2>1, <2>2
<1>3. t \in Seq(Nat) /\ Len(t) \in Nat
  BY DEF Digits
<1>4. P \in Nat /\ r \in Nat /\ Power(b, Len(t) + 1) = P * b
  BY <1>3, PowerGrows, PowerOf, ReadNat
<1> HIDE DEF w, d
<1>5. w \in Nat /\ d \in 0 .. b - 1 /\ d \in Nat
  BY <1>1, <1>2
<1>6. Digits(b, <<d>> \o t)
  <2>1. <<d>> \o t \in Seq(Nat) /\ Len(<<d>> \o t) = Len(t) + 1
    BY <1>3, <1>5
  <2>2. ASSUME NEW j \in 1 .. Len(t) + 1 PROVE (<<d>> \o t)[j] \in 0 .. b - 1
    <3>1. CASE j = 1
      BY <1>3, <1>5, <3>1
    <3>2. CASE j # 1
      <4>1. j - 1 \in 1 .. Len(t) /\ (<<d>> \o t)[j] = t[j - 1]
        BY <1>3, <1>5, <3>2
      <4> QED BY <4>1 DEF Digits
    <3> QED BY <3>1, <3>2
  <2> QED BY <2>1, <2>2 DEF Digits
<1>7. Read(b, <<d>> \o t) = d * P + r
  BY <1>3, <1>5, ReadPrepended
<1> HIDE DEF P, r
<1>8. v = w * b + d
  <2>1. b * w \in Int /\ b * w = w * b
    BY <1>5
  <2> QED BY <1>1, <1>5, <2>1
<1>9. (w * b + d) * P + r = w * (P * b) + (d * P + r)
  BY <1>4, <1>5
<1>10. n = w * Power(b, Len(t) + 1) + Read(b, <<d>> \o t)
  BY <1>4, <1>7, <1>8, <1>9 DEF P, r
<1>11. w = 0 => d = v
  BY <1>5, <1>8
<1> QED BY <1>5, <1>6, <1>10, <1>11 DEF w, d

\* No int has as many digits as the buffer has room for.
LEMMA IntsFit ==
  ASSUME NEW b \in Nat, b >= 10, NEW w \in Nat, NEW k \in Nat, NEW r \in Nat,
         w * Power(b, k) + r <= IntLimit, k \in {TextSize - 2, TextSize - 1}
  PROVE  w = 0
<1> DEFINE P == Power(b, k)
           T == Power(10, k)
           U == Power(10, TextSize - 2)
<1>1. TextSize \in Nat /\ TextSize - 2 \in Nat /\ IntLimit \in Nat /\ IntLimit < U
  BY NumberAssumption
<1>2. P \in Nat /\ P >= T /\ T \in Nat /\ U \in Nat
  BY <1>1, PowerGrows
<1>3. T >= U
  <2>1. CASE k = TextSize - 2
    BY <1>2, <2>1
  <2>2. CASE k = TextSize - 1
    <3>1. k = TextSize - 2 + 1
      BY <1>1, <2>2
    <3>2. T = U * 10
      BY <1>1, <3>1, PowerOf
    <3> HIDE DEF T, U
    <3> QED BY <1>2, <3>2
  <2> QED BY <2>1, <2>2
<1> SUFFICES ASSUME w # 0 PROVE FALSE
  OBVIOUS
<1>4. w * P + r <= IntLimit
  OBVIOUS
<1> HIDE DEF P, T, U
<1>5. (w - 1) * P >= 0 /\ w * P = (w - 1) * P + P
  BY <1>2
<1> QED BY <1>1, <1>2, <1>3, <1>4, <1>5

\* C rounds towards 0, so that a number and its negative have quotients and remainders that
\* are each other's negatives.
LEMMA DivisionOfNegative ==
  ASSUME NEW b \in Nat, b >= 10, NEW v \in Nat
  PROVE  Quotient(-v, b) = - Quotient(v, b) /\ Rest(-v, b) = - Rest(v, b)
<1>1. /\ v \div b \in Nat /\ -(-v) = v
      /\ v = b * (v \div b) + (v % b) /\ v % b \in 0 .. b - 1
  OBVIOUS
<1>2. Quotient(v, b) = v \div b
  BY DEF Quotient
<1>3. Quotient(-v, b) = - (v \div b)
  <2>1. CASE v = 0
    <3> DEFINE q == v \div b
           r == v % b
    <3>1. q \in Nat /\ v = b * q + r /\ r \in 0 .. b - 1
      BY <1>1
    <3> HIDE DEF q, r
    <3>2. q = 0
      <4> SUFFICES ASSUME q # 0 PROVE FALSE
        OBVIOUS
      <4>1. b * q = b * (q - 1) + b /\ b * (q - 1) >= 0
        BY <3>1
      <4> QED BY <2>1, <3>1, <4>1
    <3>3. ASSUME NEW z \in {v, q} PROVE -z = z
      BY <2>1, <3>2
    <3>4. -v = v /\ -q = q
      BY <3>3
    <3> QED BY <1>2, <3>4 DEF q
  <2>2. CASE v # 0
    <3>1. ~ (-v >= 0)
      BY <2>2
    <3> QED BY <1>1, <3>1 DEF Quotient
  <2> QED BY <2>1, <2>2
<1>4. b * (- (v \div b)) = - (b * (v \div b)) /\ b * (v \div b) \in Nat
  BY <1>1
<1> QED BY <1>2, <1>3, <1>4 DEF Rest

\* What ltoa1 has written and what is left of the value make up the int, the least one with
\* both of them negative.
Direct == conversion # "ld" \/ number \in 0 .. DirectLimit
Magnitude == IF number < 0 THEN -number ELSE number
Remaining == IF number = -IntLimit THEN -value ELSE value
IntInv ==
  stage \in {"ltoa1", "done"} /\ Direct =>
    /\ Magnitude <= IntLimit
    /\ sign = (IF number < 0 THEN 1 ELSE 0) /\ len = sign + Len(text)
    /\ value \in Int /\ Remaining \in Nat
    /\ text \in Seq(Int) /\ Digits(base, numeral)
    /\ Magnitude = Remaining * Power(base, Len(text)) + Read(base, numeral)
    /\ stage = "ltoa1" => len < TextSize - 1 /\ (text # <<>> => Remaining # 0)
    /\ stage = "done" => Remaining = 0 /\ IsNumeral(base, numeral)

\* The numeral is as long as the text.
LEMMA NumeralLength ==
  ASSUME text \in Seq(Int)
  PROVE  DOMAIN numeral = DOMAIN text /\ Len(numeral) = Len(text) /\ (numeral = <<>> <=> text = <<>>)
<1>1. CASE number = -IntLimit
  <2>1. numeral = [j \in 1 .. Len(text) |-> - text[j]]
    BY <1>1 DEF numeral
  <2>2. numeral \in Seq(Int) /\ Len(numeral) = Len(text) /\ DOMAIN numeral = 1 .. Len(text)
    BY <2>1
  <2> QED BY <2>2
<1>2. CASE number # -IntLimit
  BY <1>2 DEF numeral
<1> QED BY <1>1, <1>2

\* What div10 has written, the digit it counts and what is left make up the long.
LongInv ==
  stage = "div10" /\ number >= 0 =>
    /\ cnt \in 0 .. MaxPower /\ value \in Nat /\ result \in Nat
    /\ cnt = 0 => result = 0
    /\ Digits(10, text) /\ Len(text) + cnt <= MaxPower /\ (text # <<>> => text[1] # 0)
    /\ number = (Read(10, text) * 10 + result) * Power(10, cnt) + value
    /\ result * Power(10, cnt) + value < Power(10, cnt) * 10
CutInv ==
  stage = "cut" /\ number >= 0 =>
    /\ cnt = 0 /\ IsNumeral(10, text) /\ Read(10, text) = number
    /\ Digits(10, text) /\ len = Len(text)

\* A digit less is a tenth of it.
DoneInv ==
  stage = "done" /\ ~ Direct /\ number >= 0 =>
    LET digits == SubSeq(text, 1, Len(text) - 1)
    IN  /\ Digits(10, digits) /\ IsNumeral(10, digits) /\ Read(10, digits) = number \div 10
        /\ text = Append(digits, Terminator) /\ len = Len(text)

NumberInv ==
  /\ number \in Int /\ (conversion # "ld" => number \in Ints)
  /\ stage \in {"ltoa1", "div10", "cut", "done"}
  /\ stage = "ltoa1" => Direct
  /\ stage \in {"div10", "cut"} => ~ Direct
  /\ IntInv /\ LongInv /\ CutInv /\ DoneInv

LEMMA NumberAtFirst == NumberInit => NumberInv
<1> SUFFICES ASSUME NEW c \in {"d", "x", "ld"}, NEW n \in IF c = "ld" THEN Longs ELSE Ints,
                    StartPrinting(c, n)
             PROVE  NumberInv
  BY DEF NumberInit
<1> DEFINE direct == c # "ld" \/ n \in 0 .. DirectLimit
<1>1. /\ IntLimit \in Nat /\ DirectLimit \in Nat /\ DirectLimit < IntLimit
      /\ TextSize \in Nat /\ TextSize >= 3 /\ MaxPower \in Nat \ {0}
  BY NumberAssumption
<1>2. n \in Int /\ (c # "ld" => n \in Ints /\ n < IntLimit)
  <2>1. CASE c # "ld"
    <3>1. n \in Ints /\ n \in -IntLimit .. IntLimit - 1
      BY <2>1, NumberAssumption
    <3> QED BY <1>1, <3>1
  <2>2. CASE c = "ld"
    <3>1. Power(10, MaxPower + 1) \in Nat
      BY <1>1, PowerGrows
    <3>2. n \in -Power(10, MaxPower + 1) .. Power(10, MaxPower + 1) - 1
      BY <2>2, NumberAssumption
    <3> QED BY <2>2, <3>1, <3>2
  <2> QED BY <2>1, <2>2
<1>3. /\ conversion = c /\ number = n /\ text = <<>> /\ cnt = MaxPower /\ result = 0
      /\ stage = IF direct THEN "ltoa1" ELSE "div10"
  BY DEF StartPrinting
<1>4. Direct <=> direct
  BY <1>3 DEF Direct
<1>5. Len(text) = 0 /\ text \in Seq(Int) /\ numeral = <<>> /\ Digits(base, numeral) /\ Digits(10, text)
  <2>1. Len(text) = 0 /\ text \in Seq(Int) /\ Digits(base, <<>>) /\ Digits(10, text)
    BY <1>3 DEF Digits
  <2> QED BY <1>3, <2>1, NumeralLength
<1>6. Read(base, numeral) = 0 /\ Power(base, 0) = 1
  BY <1>5, ReadNothing, PowerOf
<1>7. Read(10, text) = 0
  BY <1>3, ReadNothing
<1>8. ASSUME direct PROVE IntInv
  <2>1. stage = "ltoa1" /\ n \in -IntLimit .. IntLimit - 1
    <3>1. CASE c # "ld"
      BY <1>1, <1>3, <1>8, <3>1, NumberAssumption
    <3>2. CASE n \in 0 .. DirectLimit
      BY <1>1, <1>3, <1>8, <3>2
    <3> QED BY <1>8, <3>1, <3>2
  <2>2. /\ sign = (IF n < 0 THEN 1 ELSE 0) /\ len = sign
        /\ value = IF n < 0 THEN Negated(n) ELSE n
    <3>1. CASE n < 0
      BY <2>1, <3>1 DEF StartPrinting
    <3>2. CASE ~ (n < 0)
      BY <2>1, <3>2 DEF StartPrinting
    <3> QED BY <3>1, <3>2
  <2>3. /\ value \in Int /\ Remaining = Magnitude
        /\ Magnitude \in Nat /\ Magnitude <= IntLimit
    BY <1>1, <1>2, <1>3, <2>1, <2>2 DEF Negated, Magnitude, Remaining
  <2>4. Magnitude = Remaining * Power(base, Len(text)) + Read(base, numeral)
    BY <1>5, <1>6, <2>3
  <2>5. sign = (IF number < 0 THEN 1 ELSE 0) /\ len = sign + Len(text) /\ len < TextSize - 1
    BY <1>1, <1>3, <1>5, <2>2
  <2> QED BY <1>3, <1>5, <2>1, <2>3, <2>4, <2>5 DEF IntInv
<1>9. ASSUME ~ direct, n >= 0 PROVE LongInv
  <2>1. c = "ld" /\ stage = "div10"
    BY <1>3, <1>9
  <2>2. value = n
    BY <2>1 DEF StartPrinting
  <2>3. /\ Power(10, MaxPower + 1) = Power(10, MaxPower) * 10
        /\ Power(10, MaxPower + 1) \in Nat /\ Power(10, MaxPower) \in Nat
    BY <1>1, PowerGrows, PowerOf
  <2>4. n \in -Power(10, MaxPower + 1) .. Power(10, MaxPower + 1) - 1
    BY <2>1, NumberAssumption
  <2>5. value \in Nat /\ value < Power(10, MaxPower) * 10
    BY <1>2, <1>9, <2>2, <2>3, <2>4
  <2>6. /\ cnt \in 0 .. MaxPower /\ result \in Nat /\ cnt # 0 /\ Len(text) + cnt <= MaxPower
    BY <1>1, <1>3, <1>5
  <2>7. /\ number = (Read(10, text) * 10 + result) * Power(10, cnt) + value
        /\ result * Power(10, cnt) + value < Power(10, cnt) * 10
    BY <1>2, <1>3, <1>7, <2>2, <2>3, <2>5
  <2> QED BY <1>3, <1>5, <2>5, <2>6, <2>7 DEF LongInv
<1>10. CASE direct
  <2>1. stage = "ltoa1" /\ Direct /\ number = n
    BY <1>3, <1>4, <1>10
  <2>2. IntInv
    BY <1>8, <1>10
  <2> QED BY <1>2, <1>3, <2>1, <2>2 DEF NumberInv, LongInv, CutInv, DoneInv
<1>11. CASE ~ direct
  <2>1. stage = "div10" /\ ~ Direct /\ number = n
    BY <1>3, <1>4, <1>11
  <2>2. LongInv
    BY <1>9, <1>11, <2>1 DEF LongInv
  <2> QED BY <1>2, <1>3, <2>1, <2>2 DEF NumberInv, IntInv, CutInv, DoneInv
<1> QED BY <1>10, <1>11

LEMMA BaseIs ==
  base \in Nat /\ base >= 10 /\ (conversion = "ld" => base = 10)
BY DEF base

\* A digit before the text is its negative, or itself, before the numeral.
LEMMA NumeralPrepended ==
  ASSUME text \in Seq(Int), number' = number, NEW d \in Int,
         text' = <<IF number = -IntLimit THEN -d ELSE d>> \o text
  PROVE  text' \in Seq(Int) /\ Len(text') = Len(text) + 1 /\ numeral' = <<d>> \o numeral
<1> DEFINE c == IF number = -IntLimit THEN -d ELSE d
<1>1. c \in Int
  OBVIOUS
<1>2. text' = <<c>> \o text
  OBVIOUS
<1>3. IntLimit' = IntLimit
  OBVIOUS
<1> HIDE DEF c
<1>4. /\ text' \in Seq(Int) /\ Len(text') = Len(text) + 1 /\ text'[1] = c
      /\ DOMAIN text' = 1 .. Len(text) + 1
      /\ \A j \in 1 .. Len(text) : text'[j + 1] = text[j]
  BY <1>1, <1>2
<1>5. CASE number = -IntLimit
  <2> DEFINE next == [j \in 1 .. Len(text) + 1 |-> - text'[j]]
             all == [j \in 1 .. Len(text) |-> - text[j]]
  <2>1. numeral' = next
    BY <1>3, <1>4, <1>5 DEF numeral
  <2>2. numeral = all
    BY <1>5 DEF numeral
  <2>3. all \in Seq(Int) /\ Len(all) = Len(text) /\ next \in Seq(Int) /\ Len(next) = Len(text) + 1
    BY <1>4
  <2>4. next[1] = d
    BY <1>4, <1>5 DEF c
  <2>5. ASSUME NEW j \in 1 .. Len(text) PROVE next[j + 1] = all[j]
    BY <1>4
  <2> HIDE DEF next, all
  <2>6. /\ <<d>> \o all \in Seq(Int) /\ Len(<<d>> \o all) = Len(text) + 1 /\ (<<d>> \o all)[1] = d
        /\ \A j \in 1 .. Len(text) : (<<d>> \o all)[j + 1] = all[j]
    BY <2>3
  <2>7. ASSUME NEW j \in 1 .. Len(text) + 1 PROVE next[j] = (<<d>> \o all)[j]
    <3>1. CASE j = 1
      BY <2>4, <2>6, <3>1
    <3>2. CASE j # 1
      <4>1. j - 1 \in 1 .. Len(text) /\ j - 1 + 1 = j
        BY <3>2
      <4> QED BY <2>5, <2>6, <4>1
    <3> QED BY <3>1, <3>2
  <2>8. next = <<d>> \o all
    <3>1. next = [j \in 1 .. Len(text) + 1 |-> next[j]]
      BY <2>3
    <3>2. <<d>> \o all = [j \in 1 .. Len(text) + 1 |-> (<<d>> \o all)[j]]
      BY <2>6
    <3> QED BY <2>7, <3>1, <3>2
  <2> QED BY <1>4, <2>1, <2>2, <2>8
<1>6. CASE number # -IntLimit
  BY <1>2, <1>3, <1>4, <1>6 DEF numeral, c
<1> QED BY <1>5, <1>6

LEMMA LastDigitKeepsInt ==
  ASSUME NumberInv, LastDigit
  PROVE  IntInv'
<1> DEFINE b == base
           v == Remaining
           t == numeral
           d == Rest(v, b)
           w == Quotient(v, b)
           k == Len(text)
<1>1. /\ stage = "ltoa1" /\ Direct /\ number \in Int
      /\ conversion' = conversion /\ number' = number /\ sign' = sign
      /\ text' = <<Rest(value, b)>> \o text /\ value' = Quotient(value, b) /\ len' = len + 1
      /\ stage' = IF value' # 0 /\ len + 1 < TextSize - 1 THEN "ltoa1" ELSE "done"
  BY DEF LastDigit, PrependDigit, NumberInv
<1>2. /\ Magnitude <= IntLimit /\ sign \in {0, 1} /\ sign = (IF number < 0 THEN 1 ELSE 0)
      /\ len = sign + k /\ len < TextSize - 1
      /\ value \in Int /\ v \in Nat /\ text \in Seq(Int) /\ Digits(b, t)
      /\ Magnitude = v * Power(b, k) + Read(b, t)
      /\ text # <<>> => v # 0
  BY <1>1 DEF NumberInv, IntInv
<1>3. Magnitude \in Nat /\ t \in Seq(Nat) /\ k \in Nat /\ Len(t) = k /\ TextSize \in Nat
  <2>1. Magnitude \in Nat /\ TextSize \in Nat
    BY <1>1, NumberAssumption DEF Magnitude
  <2>2. t \in Seq(Nat)
    BY <1>2 DEF Digits
  <2>3. text \in Seq(Int)
    BY <1>2
  <2>4. k \in Nat /\ Len(numeral) = k
    BY <2>3, NumeralLength
  <2> QED BY <2>1, <2>2, <2>4
<1>4. b \in Nat /\ b >= 10
  BY BaseIs
<1>5. base' = b /\ Direct' /\ Magnitude' = Magnitude
  BY <1>1 DEF base, Direct, Magnitude
<1> HIDE DEF b, t
<1>6. /\ w \in Nat /\ d \in 0 .. b - 1 /\ Digits(b, <<d>> \o t)
      /\ Magnitude = w * Power(b, k + 1) + Read(b, <<d>> \o t)
      /\ w = 0 => d = v
  BY <1>2, <1>3, <1>4, OneDigitMore
<1>7. /\ value' = (IF number = -IntLimit THEN -w ELSE w)
      /\ Rest(value, b) = IF number = -IntLimit THEN -d ELSE d
  <2>1. CASE number = -IntLimit
    <3>1. value = -v
      BY <1>2, <2>1 DEF Remaining
    <3> QED BY <1>1, <1>2, <1>4, <2>1, <3>1, DivisionOfNegative
  <2>2. CASE number # -IntLimit
    <3>1. value = v
      BY <2>2 DEF Remaining
    <3> QED BY <1>1, <2>2, <3>1
  <2> QED BY <2>1, <2>2
<1> HIDE DEF d, w, v
<1>8. d \in Nat /\ d \in Int /\ Len(<<d>> \o t) = k + 1 /\ (<<d>> \o t)[1] = d /\ <<d>> \o t # <<>>
  BY <1>3, <1>4, <1>6
<1>9. text' \in Seq(Int) /\ Len(text') = k + 1 /\ numeral' = <<d>> \o t
  BY <1>1, <1>2, <1>7, <1>8, NumeralPrepended DEF t
<1>10. value' \in Int /\ Remaining' = w /\ (value' # 0 <=> w # 0)
  <2>1. IntLimit' = IntLimit
    OBVIOUS
  <2>2. Remaining' = IF number = -IntLimit THEN -value' ELSE value'
    BY <1>1, <2>1 DEF Remaining
  <2> QED BY <1>6, <1>7, <2>2
<1>11. k + 1 \in {TextSize - 2, TextSize - 1} => w = 0
  <2>1. Read(b, <<d>> \o t) \in Nat
    BY <1>4, <1>6, ReadNat DEF Digits
  <2>2. w * Power(b, k + 1) + Read(b, <<d>> \o t) <= IntLimit
    BY <1>2, <1>6
  <2> QED BY <1>3, <1>4, <1>6, <2>1, <2>2, IntsFit
<1>12. w # 0 => len + 1 < TextSize - 1
  <2>1. CASE sign = 0
    BY <1>2, <1>3, <1>11, <2>1
  <2>2. CASE sign = 1
    BY <1>2, <1>3, <1>11, <2>2
  <2> QED BY <1>2, <2>1, <2>2
<1>13. w = 0 => IsNumeral(b, <<d>> \o t)
  <2> SUFFICES ASSUME w = 0 PROVE IsNumeral(b, <<d>> \o t)
    OBVIOUS
  <2>1. \A j \in DOMAIN (<<d>> \o t) : (<<d>> \o t)[j] \in 0 .. b - 1
    <3>1. DOMAIN (<<d>> \o t) = 1 .. k + 1
      BY <1>3, <1>8
    <3> QED BY <1>6, <1>8, <3>1 DEF Digits
  <2>2. k + 1 > 1 => d # 0
    <3>1. k + 1 > 1 => text # <<>>
      BY <1>2, <1>3
    <3> QED BY <1>2, <1>6, <3>1
  <2> QED BY <1>8, <2>1, <2>2 DEF IsNumeral
<1>14. stage' = IF w # 0 THEN "ltoa1" ELSE "done"
  BY <1>1, <1>10, <1>12
<1>15. /\ Magnitude' <= IntLimit /\ sign' = (IF number' < 0 THEN 1 ELSE 0)
       /\ len' = sign' + Len(text')
  BY <1>1, <1>2, <1>3, <1>5, <1>9
<1>16. /\ value' \in Int /\ Remaining' \in Nat /\ text' \in Seq(Int)
       /\ Digits(base, numeral)'
       /\ Magnitude' = (Remaining * Power(base, Len(text)) + Read(base, numeral))'
  BY <1>5, <1>6, <1>9, <1>10
<1>17. stage' = "ltoa1" => len' < TextSize - 1 /\ (text' # <<>> => Remaining' # 0)
  BY <1>1, <1>10, <1>12, <1>14
<1>18. stage' = "done" => Remaining' = 0 /\ IsNumeral(base, numeral)'
  BY <1>5, <1>9, <1>10, <1>13, <1>14
<1> QED BY <1>15, <1>16, <1>17, <1>18 DEF IntInv

LEMMA LastDigitKeeps ==
  ASSUME NumberInv, LastDigit
  PROVE  NumberInv'
<1>1. /\ stage = "ltoa1" /\ Direct /\ stage' \in {"ltoa1", "done"}
      /\ conversion' = conversion /\ number' = number
  BY DEF LastDigit, NumberInv
<1>2. IntInv'
  BY LastDigitKeepsInt
<1> QED BY <1>1, <1>2 DEF NumberInv, LongInv, CutInv, DoneInv, Direct

\* A power of ten that goes once more into what is left.
LEMMA SubtractKeeps ==
  ASSUME NumberInv, Subtract
  PROVE  NumberInv'
<1> DEFINE P == Power(10, cnt)
           r == Read(10, text)
<1>1. /\ stage = "div10" /\ ~ Direct /\ cnt >= 1 /\ value >= P
      /\ value' = value - P /\ result' = result + 1
      /\ conversion' = conversion /\ number' = number /\ stage' = stage
      /\ text' = text /\ cnt' = cnt /\ sign' = sign /\ len' = len
  BY DEF Subtract, Goes, NumberInv
<1>2. ASSUME number >= 0 PROVE LongInv'
  <2>1. /\ cnt \in 0 .. MaxPower /\ value \in Nat /\ result \in Nat
        /\ Digits(10, text) /\ Len(text) + cnt <= MaxPower /\ (text # <<>> => text[1] # 0)
        /\ number = (r * 10 + result) * P + value
        /\ result * P + value < P * 10
    BY <1>1, <1>2 DEF NumberInv, LongInv
  <2>2. MaxPower \in Nat /\ cnt \in Nat /\ cnt # 0
    BY <1>1, <2>1, NumberAssumption
  <2>3. P \in Nat /\ r \in Nat
    BY <2>1, <2>2, PowerGrows, ReadNat DEF Digits
  <2> HIDE DEF P, r
  <2>4. value - P \in Nat /\ result + 1 \in Nat
    BY <1>1, <2>1, <2>3
  <2>5. (r * 10 + (result + 1)) * P + (value - P) = (r * 10 + result) * P + value
    BY <2>1, <2>3
  <2>6. (result + 1) * P + (value - P) = result * P + value
    BY <2>1, <2>3
  <2>7. /\ number = (r * 10 + (result + 1)) * P + (value - P)
        /\ (result + 1) * P + (value - P) < P * 10
    BY <2>1, <2>5, <2>6
  <2>8. P' = P /\ r' = r
    BY <1>1 DEF P, r
  <2>9. /\ number' = (r' * 10 + result') * P' + value'
        /\ result' * P' + value' < P' * 10
    BY <1>1, <2>7, <2>8
  <2> QED BY <1>1, <2>1, <2>2, <2>4, <2>9 DEF LongInv, P, r
<1> QED BY <1>1, <1>2 DEF NumberInv, LongInv, IntInv, CutInv, DoneInv, Direct

\* No power goes ten times into what the greater ones have left.
LEMMA DigitBound ==
  ASSUME NEW P \in Nat, P > 0, NEW r \in Nat, NEW v \in Nat, r * P + v < P * 10
  PROVE  r \in 0 .. 9
<1> SUFFICES ASSUME r >= 10 PROVE FALSE
  OBVIOUS
<1>1. (r - 10) * P >= 0 /\ r * P = (r - 10) * P + P * 10
  OBVIOUS
<1> QED BY <1>1

\* A digit behind others, of which the first is not zero.
LEMMA DigitBehind ==
  ASSUME NEW t, Digits(10, t), t # <<>> => t[1] # 0, NEW d \in 0 .. 9
  PROVE  /\ Digits(10, Append(t, d)) /\ Len(Append(t, d)) = Len(t) + 1 /\ Append(t, d) # <<>>
         /\ Append(t, d)[1] = (IF t = <<>> THEN d ELSE t[1])
         /\ Read(10, Append(t, d)) = Read(10, t) * 10 + d
<1>1. t \in Seq(Nat) /\ Len(t) \in Nat /\ d \in Nat
  BY DEF Digits
<1>2. /\ Append(t, d) \in Seq(Nat) /\ Len(Append(t, d)) = Len(t) + 1
      /\ Append(t, d)[Len(t) + 1] = d /\ \A j \in 1 .. Len(t) : Append(t, d)[j] = t[j]
  BY <1>1
<1>3. Digits(10, Append(t, d))
  BY <1>1, <1>2 DEF Digits
<1>4. Append(t, d)[1] = (IF t = <<>> THEN d ELSE t[1])
  BY <1>1, <1>2
<1>5. Append(t, d) # <<>>
  BY <1>1, <1>2
<1> QED BY <1>1, <1>2, <1>3, <1>4, <1>5, ReadAppended

LEMMA NextPowerKeeps ==
  ASSUME NumberInv, NextPower
  PROVE  NumberInv'
<1> DEFINE P == Power(10, cnt)
           Q == Power(10, cnt - 1)
           r == Read(10, text)
<1>1. /\ stage = "div10" /\ ~ Direct /\ cnt >= 1 /\ ~ (value >= P)
      /\ text' = (IF skip_all THEN text ELSE InsertChar(result))
      /\ cnt' = cnt - 1 /\ result' = 0
      /\ conversion' = conversion /\ number' = number /\ stage' = stage
      /\ value' = value /\ sign' = sign
  BY DEF NextPower, Goes, NumberInv
<1>2. ASSUME number >= 0 PROVE LongInv'
  <2>1. /\ cnt \in 0 .. MaxPower /\ value \in Nat /\ result \in Nat
        /\ Digits(10, text) /\ Len(text) + cnt <= MaxPower /\ (text # <<>> => text[1] # 0)
        /\ number = (r * 10 + result) * P + value
        /\ result * P + value < P * 10
    BY <1>1, <1>2 DEF NumberInv, LongInv
  <2>2. /\ MaxPower \in Nat /\ cnt \in Nat /\ cnt - 1 \in Nat /\ cnt - 1 + 1 = cnt
        /\ TextSize \in Nat /\ MaxPower + 1 < TextSize /\ Len(text) \in Nat
    BY <1>1, <2>1, NumberAssumption DEF Digits
  <2>3. P \in Nat /\ P > 0 /\ Q \in Nat /\ r \in Nat
    <3>1. P \in Nat /\ P > 0
      BY <2>2, PowerGrows
    <3>2. Q \in Nat
      BY <2>2, PowerGrows
    <3>3. r \in Nat
      BY <2>1, ReadNat DEF Digits
    <3> QED BY <3>1, <3>2, <3>3
  <2>4. P = Q * 10
    <3>1. Power(10, cnt - 1 + 1) = Power(10, cnt - 1) * 10
      BY <2>2, PowerOf
    <3> QED BY <2>2, <3>1
  <2> HIDE DEF P, Q, r
  <2>5. result \in 0 .. 9
    BY <2>1, <2>3, DigitBound
  <2>6. /\ Digits(10, text') /\ Len(text') + (cnt - 1) <= MaxPower
        /\ text' # <<>> => text'[1] # 0
        /\ Read(10, text') = r * 10 + result
    <3>1. CASE skip_all
      <4>1. text' = text /\ text = <<>> /\ result = 0
        BY <1>1, <3>1 DEF skip_all
      <4>2. r = 0
        BY <4>1, ReadNothing DEF r
      <4>3. Read(10, text') = r
        BY <4>1 DEF r
      <4> QED BY <2>1, <2>2, <4>1, <4>2, <4>3
    <3>2. CASE ~ skip_all
      <4>1. text # <<>> \/ result # 0
        BY <3>2 DEF skip_all
      <4>2. Len(text) + 1 < TextSize
        BY <2>1, <2>2
      <4>3. text' = Append(text, result)
        BY <1>1, <3>2, <4>2 DEF InsertChar
      <4>4. Len(text') = Len(text) + 1
        BY <2>1, <2>5, <4>3, DigitBehind
      <4> QED BY <2>1, <2>2, <2>5, <4>1, <4>3, <4>4, DigitBehind DEF r
    <3> QED BY <3>1, <3>2
  <2>7. /\ number = ((r * 10 + result) * 10 + 0) * Q + value
        /\ 0 * Q + value < Q * 10
    <3>1. (r * 10 + result) * (Q * 10) = ((r * 10 + result) * 10 + 0) * Q
      BY <2>1, <2>3
    <3>2. 0 * Q = 0
      BY <2>3
    <3> QED BY <1>1, <2>1, <2>3, <2>4, <3>1, <3>2
  <2>8. Power(10, cnt)' = Q
    BY <1>1 DEF Q
  <2>9. /\ number' = (Read(10, text') * 10 + result') * Power(10, cnt)' + value'
        /\ result' * Power(10, cnt)' + value' < Power(10, cnt)' * 10
    BY <1>1, <2>6, <2>7, <2>8
  <2>10. cnt' \in 0 .. MaxPower /\ value' \in Nat /\ result' \in Nat /\ result' = 0
    BY <1>1, <2>1, <2>2
  <2>11. Len(text') + cnt' <= MaxPower
    BY <1>1, <2>6
  <2> QED BY <2>6, <2>9, <2>10, <2>11 DEF LongInv
<1> QED BY <1>1, <1>2 DEF NumberInv, LongInv, IntInv, CutInv, DoneInv, Direct

LEMMA LastRemainderKeeps ==
  ASSUME NumberInv, LastRemainder
  PROVE  NumberInv'
<1>1. /\ stage = "div10" /\ ~ Direct /\ cnt = 0
      /\ text' = InsertChar(value) /\ stage' = "cut" /\ len' = Len(text')
      /\ conversion' = conversion /\ number' = number /\ cnt' = cnt
  BY DEF LastRemainder, NoPowerLeft, NumberInv
<1>2. ASSUME number >= 0 PROVE CutInv'
  <2>1. /\ value \in Nat /\ result = 0
        /\ Digits(10, text) /\ Len(text) + cnt <= MaxPower /\ (text # <<>> => text[1] # 0)
        /\ number = (Read(10, text) * 10 + result) * Power(10, cnt) + value
        /\ result * Power(10, cnt) + value < Power(10, cnt) * 10
    BY <1>1, <1>2 DEF NumberInv, LongInv
  <2>2. /\ MaxPower \in Nat /\ TextSize \in Nat /\ MaxPower + 1 < TextSize
        /\ Len(text) \in Nat /\ Read(10, text) \in Nat /\ Power(10, cnt) = 1
    BY <1>1, <2>1, NumberAssumption, ReadNat, PowerOf DEF Digits
  <2>3. value \in 0 .. 9 /\ number = Read(10, text) * 10 + value
    BY <2>1, <2>2
  <2>4. text' = Append(text, value)
    BY <1>1, <2>1, <2>2 DEF InsertChar
  <2>5. /\ Digits(10, text') /\ Len(text') = Len(text) + 1 /\ text' # <<>>
        /\ text'[1] = (IF text = <<>> THEN value ELSE text[1])
        /\ Read(10, text') = number
    BY <2>1, <2>3, <2>4, DigitBehind
  <2>6. DOMAIN text' = 1 .. Len(text') /\ Len(text') \in Nat
    BY <2>5 DEF Digits
  <2>7. Len(text') > 1 => text'[1] # 0
    <3>1. Len(text') > 1 => text # <<>>
      BY <2>2, <2>5
    <3> QED BY <2>1, <2>5, <3>1
  <2>8. IsNumeral(10, text')
    BY <2>5, <2>6, <2>7 DEF IsNumeral, Digits
  <2> QED BY <1>1, <2>5, <2>8 DEF CutInv
<1> QED BY <1>1, <1>2 DEF NumberInv, LongInv, IntInv, CutInv, DoneInv, Direct

\* Without its last digit the text reads as the tenth of the number.
LEMMA CutKeepsTheRest ==
  ASSUME NumberInv, Cut
  PROVE  DoneInv'
<1> DEFINE n == Len(text)
           rest == SubSeq(text, 1, n - 1)
           d == text[n]
<1>1. /\ stage = "cut" /\ ~ Direct /\ conversion' = conversion /\ number' = number
      /\ text' = [text EXCEPT ![len] = Terminator] /\ len' = len /\ number \in Int
  BY DEF Cut, NumberInv
<1> SUFFICES ASSUME number >= 0 PROVE DoneInv'
  BY <1>1 DEF DoneInv
<1>2. /\ IsNumeral(10, text) /\ Read(10, text) = number /\ Digits(10, text) /\ len = n
  BY <1>1 DEF NumberInv, CutInv
<1>3. /\ text \in Seq(Nat) /\ n \in Nat /\ n >= 1 /\ d \in 0 .. 9 /\ text # <<>>
      /\ n > 1 => text[1] # 0
  BY <1>2 DEF Digits, IsNumeral
<1>4. /\ rest \in Seq(Nat) /\ Len(rest) = n - 1 /\ \A j \in 1 .. n - 1 : rest[j] = text[j]
      /\ text = Append(rest, d)
  <2>1. n - 1 \in Nat /\ n \in 1 .. n /\ \A j \in 1 .. n - 1 : j \in 1 .. n /\ text[j] \in Nat
    BY <1>3
  <2>2. rest = [j \in 1 .. n - 1 |-> text[j]]
    BY <1>3, <2>1
  <2>3. /\ rest \in Seq(Nat) /\ Len(rest) = n - 1 /\ \A j \in 1 .. n - 1 : rest[j] = text[j]
    <3> DEFINE m == n - 1
               first == [j \in 1 .. m |-> text[j]]
    <3>1. m \in Nat /\ \A j \in 1 .. m : text[j] \in Nat
      BY <2>1
    <3>2. rest = first
      BY <2>2
    <3> HIDE DEF m, rest
    <3>3. first \in Seq(Nat) /\ Len(first) = m /\ \A j \in 1 .. m : first[j] = text[j]
      BY <3>1
    <3>4. rest \in Seq(Nat) /\ Len(rest) = m /\ \A j \in 1 .. m : rest[j] = text[j]
      BY <3>2, <3>3
    <3> QED BY <3>4 DEF m
  <2> HIDE DEF rest
  <2> DEFINE whole == Append(rest, d)
  <2>4. d \in Nat /\ whole \in Seq(Nat) /\ Len(whole) = n /\ whole[n] = d
    BY <1>3, <2>1, <2>3
  <2>5. ASSUME NEW j \in 1 .. n PROVE whole[j] = text[j]
    <3>1. CASE j = n
      BY <2>4, <3>1
    <3>2. CASE j # n
      <4>1. j \in 1 .. n - 1
        BY <1>3, <3>2
      <4> QED BY <1>3, <2>3, <4>1
    <3> QED BY <3>1, <3>2
  <2> HIDE DEF whole
  <2>6. whole = [j \in 1 .. n |-> whole[j]] /\ text = [j \in 1 .. n |-> text[j]]
    BY <1>3, <2>4
  <2>7. whole = text
    BY <2>5, <2>6
  <2> QED BY <2>3, <2>7 DEF whole
<1>5. Terminator \in Int /\ text' \in Seq(Int) /\ Len(text') = n /\ text' = Append(rest, Terminator)
  BY <1>1, <1>2, <1>3, <1>4 DEF Terminator
<1> HIDE DEF rest, d
<1>6. SubSeq(text', 1, n - 1) = rest
  <2>1. n - 1 \in Nat /\ \A j \in 1 .. n - 1 : text'[j] = rest[j]
    BY <1>3, <1>4, <1>5
  <2>2. SubSeq(text', 1, n - 1) = [j \in 1 .. n - 1 |-> text'[j]]
    BY <1>3, <1>5, <2>1
  <2>3. rest = [j \in 1 .. n - 1 |-> rest[j]]
    BY <1>4
  <2> QED BY <2>1, <2>2, <2>3
<1>7. Digits(10, rest)
  BY <1>2, <1>3, <1>4 DEF Digits
<1>8. number = Read(10, rest) * 10 + d
  BY <1>2, <1>3, <1>4, ReadAppended
<1>9. Read(10, rest) \in Nat
  BY <1>4, ReadNat
<1>10. Read(10, rest) = number \div 10
  BY <1>3, <1>8, <1>9
<1>11. n # 1
  <2> SUFFICES ASSUME n = 1 PROVE FALSE
    OBVIOUS
  <2>1. rest = <<>>
    <3>1. Len(rest) = 0
      BY <1>4
    <3> QED BY <1>4, <3>1
  <2>2. number = d
    BY <1>3, <1>8, <2>1, ReadNothing
  <2> QED BY <1>1, <1>3, <2>2, NumberAssumption DEF Direct
<1>12. n \in Nat /\ n > 1
  <2>1. n \in Nat /\ n >= 1
    BY <1>3
  <2> HIDE DEF n
  <2> QED BY <1>11, <2>1
<1>13. IsNumeral(10, rest)
  <2>1. DOMAIN rest = 1 .. n - 1 /\ 1 \in 1 .. n - 1
    BY <1>3, <1>4, <1>12
  <2>2. rest # <<>> /\ rest[1] # 0
    BY <1>3, <1>4, <1>12, <2>1
  <2> QED BY <1>7, <2>1, <2>2, <1>4 DEF IsNumeral, Digits
<1> QED BY <1>1, <1>2, <1>5, <1>6, <1>7, <1>10, <1>13 DEF DoneInv

LEMMA NumberStep ==
  ASSUME NumberInv, [NumberNext]_numberVars
  PROVE  NumberInv'
<1>1. ASSUME Cut PROVE NumberInv'
  <2>1. /\ stage = "cut" /\ ~ Direct /\ stage' = "done"
        /\ conversion' = conversion /\ number' = number
    BY <1>1 DEF Cut, NumberInv
  <2>2. DoneInv'
    BY <1>1, CutKeepsTheRest
  <2> QED BY <2>1, <2>2 DEF NumberInv, IntInv, LongInv, CutInv, Direct
<1>2. ASSUME UNCHANGED numberVars PROVE NumberInv'
  BY <1>2 DEF numberVars, NumberInv, IntInv, LongInv, CutInv, DoneInv, Direct, Magnitude, Remaining,
               numeral, base
<1> QED BY <1>1, <1>2, LastDigitKeeps, SubtractKeeps, NextPowerKeeps, LastRemainderKeeps
        DEF NumberNext

LEMMA NumberInvariant == NumberSpec => []NumberInv
BY NumberAtFirst, NumberStep, PTL DEF NumberSpec

\* Whatever int is printed, with %d or %x and in any width of int: what comes out is its
\* numeral, and the count is its length; the least int comes out on the wrong side of '0'.
THEOREM IntsArePrinted == NumberSpec => []PrintsTheInt
<1>1. ASSUME NumberInv, stage = "done", Direct
      PROVE  /\ IsNumeral(base, numeral) /\ len = sign + Len(text)
             /\ number = (IF sign = 1 THEN - Read(base, numeral) ELSE Read(base, numeral))
  <2>1. /\ Magnitude = Remaining * Power(base, Len(text)) + Read(base, numeral) /\ Remaining = 0
        /\ sign = (IF number < 0 THEN 1 ELSE 0) /\ number \in Int /\ Digits(base, numeral)
        /\ text \in Seq(Int) /\ IsNumeral(base, numeral) /\ len = sign + Len(text)
    BY <1>1 DEF NumberInv, IntInv
  <2>2. Read(base, numeral) \in Nat /\ Power(base, Len(text)) \in Nat
    <3>1. Len(text) \in Nat
      BY <2>1
    <3> QED BY <2>1, <3>1, BaseIs, ReadNat, PowerGrows DEF Digits
  <2>3. Magnitude = Read(base, numeral)
    BY <2>1, <2>2
  <2>4. number = (IF sign = 1 THEN - Read(base, numeral) ELSE Read(base, numeral))
    BY <2>1, <2>2, <2>3 DEF Magnitude
  <2> QED BY <2>1, <2>4
<1>2. NumberInv => PrintsTheInt
  BY <1>1 DEF PrintsTheInt, Direct
<1> QED BY <1>2, NumberInvariant, PTL

\* Whatever long is taken apart, with as many powers of ten as it has digits and more: at
\* every turn the digits, their powers and the rest make up the number, no digit reaches
\* ten, at the end the digits are the numeral, and the terminator takes the last of them.
THEOREM LongsAreTakenApart == NumberSpec => []PowersKeepTheNumber
<1>1. ASSUME NumberInv, stage = "div10", number >= 0
      PROVE  /\ cnt >= 1 => number = Read(10, Append(text, result)) * Power(10, cnt) + value
             /\ \A j \in DOMAIN Append(text, result) : Append(text, result)[j] \in 0 .. 9
  <2>1. /\ cnt \in 0 .. MaxPower /\ value \in Nat /\ result \in Nat
        /\ Digits(10, text) /\ (text # <<>> => text[1] # 0)
        /\ number = (Read(10, text) * 10 + result) * Power(10, cnt) + value
        /\ result * Power(10, cnt) + value < Power(10, cnt) * 10
    BY <1>1 DEF NumberInv, LongInv
  <2>2. cnt \in Nat
    BY <2>1, NumberAssumption
  <2>3. Power(10, cnt) \in Nat /\ Power(10, cnt) > 0
    BY <2>2, PowerGrows
  <2>4. result \in 0 .. 9
    BY <2>1, <2>3, DigitBound
  <2>5. /\ Digits(10, Append(text, result))
        /\ Read(10, Append(text, result)) = Read(10, text) * 10 + result
    BY <2>1, <2>4, DigitBehind
  <2>6. DOMAIN Append(text, result) = 1 .. Len(Append(text, result))
    BY <2>5 DEF Digits
  <2> QED BY <2>1, <2>5, <2>6 DEF Digits
<1>2. ASSUME NumberInv, conversion = "ld", number > DirectLimit
      PROVE  ~ Direct /\ number >= 0
  BY <1>2, NumberAssumption DEF NumberInv, Direct
<1>3. NumberInv => PowersKeepTheNumber
  <2> SUFFICES ASSUME NumberInv, stage # "ltoa1", conversion = "ld", number > DirectLimit
               PROVE  PowersKeepTheNumber
    BY DEF PowersKeepTheNumber
  <2>1. ~ Direct /\ number >= 0
    BY <1>2
  <2>2. CASE stage = "div10"
    BY <1>1, <2>1, <2>2 DEF PowersKeepTheNumber
  <2>3. CASE stage = "cut"
    <3>1. IsNumeral(10, text) /\ Read(10, text) = number
      BY <2>1, <2>3 DEF NumberInv, CutInv
    <3>2. \A j \in DOMAIN text : text[j] \in 0 .. 9
      BY <3>1 DEF IsNumeral
    <3> QED BY <2>3, <3>1, <3>2 DEF PowersKeepTheNumber
  <2>4. CASE stage = "done"
    <3> DEFINE digits == SubSeq(text, 1, Len(text) - 1)
    <3>1. /\ IsNumeral(10, digits) /\ Read(10, digits) = number \div 10
          /\ text = Append(digits, Terminator) /\ len = Len(text)
      BY <2>1, <2>4 DEF NumberInv, DoneInv
    <3>2. \A j \in DOMAIN digits : digits[j] \in 0 .. 9
      BY <3>1 DEF IsNumeral
    <3> HIDE DEF digits
    <3> QED BY <2>4, <3>1, <3>2 DEF PowersKeepTheNumber, digits
  <2> QED BY <2>2, <2>3, <2>4 DEF NumberInv
<1> QED BY <1>3, NumberInvariant, PTL
=============================================================================
