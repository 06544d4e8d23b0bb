------------------------------ MODULE PathNames ------------------------------
(***************************************************************************)
(* Names as the bare-metal build compares them: the string routines of the *)
(* run time (strcpy, strcat, strlen, strncpy, strncmp), the paths NoOSfs   *)
(* puts together in the buffer tempname, EEFS_SplitPath, and the names in  *)
(* file headers.                                                           *)
(*                                                                         *)
(* strncmp of the run time does not stop at the end of a string: it        *)
(* compares what lies behind it too.  A buffer is a function from its      *)
(* offsets; a string is the sequence of its characters.                    *)
(***************************************************************************)
EXTENDS Integers, SequencesExt

CONSTANTS
  Name,           \* the names that programs pass
  Mount,          \* eefs_mountpoint, such as <<"/", "m">>
  TempSize,       \* sizeof(tempname)
  PathSize,       \* EEFS_MAX_PATH_SIZE
  NameSize,       \* EEFS_MAX_FILENAME_SIZE
  MaxFiles,       \* EEFS_MAX_FILES
  Garbage         \* contents of a FileHeader on the stack before it is filled

VARIABLES
  tempname,
  header,         \* file headers: the field Filename, InUse, and the name that was meant
  last_slot       \* the slot that the last call found, 0 for none

namesVars == <<tempname, header, last_slot>>

NUL == "NUL"

ASSUME PathAssumption ==
  /\ NameSize \in Nat \ {0} /\ PathSize \in Nat /\ PathSize >= NameSize /\ MaxFiles \in Nat
  /\ \A s \in Name \cup {Mount} : s \in Seq(STRING) /\ NUL \notin Range(s)
  /\ Len(Mount) > 1 /\ Mount[1] = "/" /\ "/" \notin Range(Tail(Mount))
  /\ TempSize \in Nat /\ \A n \in Name : Len(Mount) + 1 + Len(n) < TempSize
  /\ \A g \in Garbage : DOMAIN g = 0 .. NameSize - 1

(***************************************************************************)
(* Strings                                                                 *)
(***************************************************************************)
Offsets(size) == 0 .. size - 1
Zeros(size) == [i \in Offsets(size) |-> NUL]

strlen(b) == CHOOSE i \in DOMAIN b : b[i] = NUL /\ \A j \in 0 .. i - 1 : b[j] # NUL
StringOf(b) == [i \in 1 .. strlen(b) |-> b[i - 1]]

\* The string and its terminator from an offset on; what lies behind them stays.
StoreAt(b, at, s) ==
  [i \in DOMAIN b |-> IF i \in at .. at + Len(s) - 1 THEN s[i - at + 1]
                      ELSE IF i = at + Len(s) THEN NUL ELSE b[i]]
strcpy(b, s) == StoreAt(b, 0, s)
strcat(b, s) == StoreAt(b, strlen(b), s)

CopyOnly(b, s, n) ==                \* seeded bug: the rest of the field is not cleared
  [i \in DOMAIN b |-> IF i < Len(s) /\ i < n THEN s[i + 1]
                      ELSE IF i = Len(s) /\ i < n THEN NUL ELSE b[i]]
\* memset of n characters, then at most n of the string.
strncpy(b, s, n) ==
  [i \in DOMAIN b |-> IF i >= n THEN b[i] ELSE IF i < Len(s) THEN s[i + 1] ELSE NUL]

\* strncmp(a, b, n) == 0
SameField(a, b, n) == \A i \in Offsets(n) : a[i] = b[i]

(***************************************************************************)
(* Paths                                                                   *)
(***************************************************************************)
\* strcpy(tempname, eefs_mountpoint); strcat "/"; strcat the name.  Nothing in the code keeps a
\* longer name, which fileman.h:96 passes on, inside the buffer; PathAssumption does.
PathTo(n) == strcat(strcat(strcpy(tempname, Mount), <<"/">>), n)

SecondSlash(s) == Min({i \in 2 .. Len(s) : s[i] = "/"})

\* EEFS_SplitPath; ok is EEFS_SUCCESS.
SplitPath(path) ==
  LET s == StringOf(path)
  IN  IF Len(s) < PathSize /\ Len(s) > 0 /\ s[1] = "/" /\ \E i \in 2 .. Len(s) : s[i] = "/"
      THEN LET i == SecondSlash(s)
           IN  [ok |-> TRUE,
                MountPoint |-> strncpy(Zeros(PathSize), s, i - 1),
                Filename |-> strncpy(Zeros(PathSize), SubSeq(s, i + 1, Len(s)), PathSize)]
      ELSE [ok |-> FALSE, MountPoint |-> Zeros(PathSize), Filename |-> Zeros(PathSize)]

IsValidFilename(b) == strlen(b) < NameSize /\ strlen(b) > 0

\* EEFS_LibFindFile, 0 when there is none.
FindFile(b) ==
  LET found == {i \in DOMAIN header : header[i].InUse /\ SameField(b, header[i].Filename, NameSize)}
  IN  IF found = {} THEN 0 ELSE Min(found)

(***************************************************************************)
(* The calls of NoOSfs                                                     *)
(***************************************************************************)
NamesInit ==
  /\ tempname = Zeros(TempSize)
  /\ header = <<>>
  /\ last_slot = 0

\* A file is closed before the next is created; what is found is opened.
noosfs_create(n) ==
  LET path == SplitPath(PathTo(n))
      slot == FindFile(path.Filename)
  IN  /\ tempname' = PathTo(n)
      /\ IF ~ path.ok \/ ~ IsValidFilename(path.Filename)
         THEN last_slot' = 0 /\ UNCHANGED header
         ELSE IF slot # 0
         THEN last_slot' = slot /\ UNCHANGED header
         ELSE IF Len(header) < MaxFiles
         THEN /\ last_slot' = Len(header) + 1
              /\ \E g \in Garbage :
                   header' = Append(header,
                     [InUse |-> TRUE, meant |-> n,
                      Filename |-> strncpy(g, StringOf(path.Filename), NameSize)])
         ELSE last_slot' = 0 /\ UNCHANGED header

noosfs_open(n) ==
  LET path == SplitPath(PathTo(n))
  IN  /\ tempname' = PathTo(n)
      /\ last_slot' = IF path.ok /\ IsValidFilename(path.Filename)
                   THEN FindFile(path.Filename) ELSE 0
      /\ UNCHANGED header

noosfs_delete(n) ==
  LET path == SplitPath(PathTo(n))
      slot == IF path.ok /\ IsValidFilename(path.Filename) THEN FindFile(path.Filename) ELSE 0
  IN  /\ tempname' = PathTo(n)
      /\ last_slot' = slot
      /\ header' = IF slot = 0 THEN header ELSE [header EXCEPT ![slot].InUse = FALSE]

NamesNext == \E n \in Name : noosfs_create(n) \/ noosfs_open(n) \/ noosfs_delete(n)
NamesSpec == NamesInit /\ [][NamesNext]_namesVars

(***************************************************************************)
(* Properties                                                              *)
(***************************************************************************)
\* A path splits into the mount point and the name it was put together from, and the name
\* finds the file that was created under it and no other, whatever the longer path of an
\* earlier call left in the buffer and the stack left in the header, although the
\* comparison goes on behind the end of the names.
FindsByName ==
  \A n \in Name :
    LET slots == {i \in DOMAIN header : header[i].InUse /\ header[i].meant = n}
        path == SplitPath(PathTo(n))
    IN  path.ok =>
          /\ StringOf(path.MountPoint) = Mount /\ StringOf(path.Filename) = n
          /\ IsValidFilename(path.Filename) =>
               FindFile(path.Filename) = IF slots = {} THEN 0 ELSE Min(slots)
=============================================================================
