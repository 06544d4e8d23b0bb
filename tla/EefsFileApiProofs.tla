-------------------------- MODULE EefsFileApiProofs --------------------------
(***************************************************************************)
(* Theorems about EefsFileApi: type correctness for every number of        *)
(* devices, files and descriptors, and every choice of open flags; and the *)
(* slots of the inode and allocation tables.                               *)
(***************************************************************************)
EXTENDS EefsFileApi, WellFoundedInduction, TLAPS

(***************************************************************************)
(* Arithmetic and selection                                                *)
(***************************************************************************)
\* A nonempty set of natural numbers has a least element: the sequential searches of
\* the code find one.
LEMMA LeastElement ==
  ASSUME NEW S \in SUBSET Nat, S # {}
  PROVE  \E m \in S : \A k \in S : m <= k
<1> DEFINE R == OpToRel(<, Nat)
<1>1. PICK x \in S : \A y \in S : <<y, x>> \notin R
  BY NatLessThanWellFounded, WFMin
<1>2. \A y \in S : y < x => <<y, x>> \in R
  BY DEF OpToRel
<1> HIDE DEF R
<1>3. \A y \in S : ~ (y < x)
  BY <1>1, <1>2
<1>4. x \in Nat /\ \A y \in S : y \in Nat
  OBVIOUS
<1> QED BY <1>3, <1>4

\* The uint32 subtraction of EEFS_LibRead, EEFS_LibWrite and EEFS_LibClose wraps
\* instead of going below zero.
LEMMA USubType ==
  ASSUME NEW a \in Nat, NEW b \in Nat
  PROVE  USub(a, b) \in Nat
BY SizesAssumption DEF USub

\* EEFS_ROUND_UP(x, 4) is a uint32 no smaller than x.
LEMMA RoundUp4Bound ==
  ASSUME NEW x \in Nat
  PROVE  RoundUp4(x) \in Nat /\ x <= RoundUp4(x)
BY DEF RoundUp4

\* The slot size that EEFS_LibClose computes is a uint32.
LEMMA SlotSizeType ==
  ASSUME NEW size \in Nat, NEW free \in Nat
  PROVE  SlotSize(size, free) \in Nat
<1>1. RoundUp4(size + SpareBytes) \in Nat
  BY RoundUp4Bound, SizesAssumption
<1>2. USub(free, HeaderSize) \in Nat
  BY USubType, SizesAssumption
<1> QED BY <1>1, <1>2 DEF SlotSize, Lesser

(***************************************************************************)
(* EEPROM cells and tables                                                 *)
(***************************************************************************)
\* Reading a header yields a header whatever the cells hold.
LEMMA HeaderAtType ==
  ASSUME NEW m, NEW a
  PROVE  HeaderAt(m, a) \in FileHeader
BY ScrambledAssumption DEF HeaderAt, IntactHeader

\* Writing a header leaves every cell a cell.
LEMMA WriteHeaderType ==
  ASSUME NEW m \in [Address -> Cell], NEW a, NEW h \in FileHeader
  PROVE  WriteHeader(m, a, h) \in [Address -> Cell]
BY DEF WriteHeader, Cell

\* Writing data leaves every cell a cell.
LEMMA WriteDataType ==
  ASSUME NEW m \in [Address -> Cell], NEW a, NEW n, NEW b \in Byte
  PROVE  WriteData(m, a, n, b) \in [Address -> Cell]
BY DEF WriteData, Cell

\* EEFS_LibClose's rewrite of the file header leaves every cell a cell.
LEMMA StoreFileSizeType ==
  ASSUME NEW m \in [Address -> Cell], NEW d, fdTable[d].FileSize \in Nat
  PROVE  StoreFileSize(m, d) \in [Address -> Cell]
<1>1. HeaderAt(m, fdTable[d].FileHeaderPointer) \in FileHeader
  BY HeaderAtType
<1>2. [HeaderAt(m, fdTable[d].FileHeaderPointer) EXCEPT !.FileSize = fdTable[d].FileSize]
        \in FileHeader
  BY <1>1 DEF FileHeader
<1> QED BY <1>2, WriteHeaderType DEF StoreFileSize

\* Giving a created file its final slot keeps a table a table.
LEMMA AllocateSlotType ==
  ASSUME NEW t \in Table, NEW d, fdTable[d].FileSize \in Nat
  PROVE  AllocateSlot(t, d) \in Table
<1> DEFINE max == SlotSize(fdTable[d].FileSize, t.FreeMemorySize)
<1>1. max \in Nat
  BY SlotSizeType DEF Table
<1> HIDE DEF max
<1>2. t.FreeMemoryPointer + HeaderSize + max \in Nat
  BY <1>1, SizesAssumption DEF Table
<1>3. USub(t.FreeMemorySize, HeaderSize + max) \in Nat
  <2>1. HeaderSize + max \in Nat /\ t.FreeMemorySize \in Nat
    BY <1>1, SizesAssumption DEF Table
  <2> QED BY <2>1, USubType
<1>4. [t.File EXCEPT ![fdTable[d].InodeIndex].MaxFileSize = max] \in [FileIndex -> Entry]
  BY <1>1 DEF Table, Entry
<1> QED BY <1>2, <1>3, <1>4 DEF AllocateSlot, Table, max

\* The two updates of the allocation table keep it a table.
LEMMA UpdatedFatType ==
  ASSUME NEW f \in Table, NEW t \in Table, NEW i, NEW k
  PROVE  UpdatedFat(f, t, i, k) \in Table
<1>1. [f.File EXCEPT ![i] = t.File[i]] \in [FileIndex -> Entry]
  BY DEF Table
<1> QED BY <1>1 DEF UpdatedFat, Table

(***************************************************************************)
(* Look-ups and the file descriptor table                                  *)
(***************************************************************************)
\* EEFS_LibFindFile returns EEFS_FILE_NOT_FOUND or a slot of the inode table that is
\* in use and has the name; not found means that no slot is.
LEMMA FindFileResult ==
  ASSUME TypeOK, NEW v \in Device, NEW n
  PROVE  LET hit(i) == Header(v, i).InUse /\ Header(v, i).Filename = n
         IN  \/ /\ FindFile(v, n) = FILE_NOT_FOUND
                /\ \A i \in Slots(inode[v]) : ~ hit(i)
             \/ FindFile(v, n) \in Slots(inode[v]) /\ hit(FindFile(v, n))
<1> DEFINE hits == {i \in Slots(inode[v]) :
                      Header(v, i).InUse /\ Header(v, i).Filename = n}
<1>1. hits \in SUBSET Nat
  BY DEF Slots
<1>2. CASE hits = {}
  BY <1>2 DEF FindFile
<1>3. CASE hits # {}
  <2>1. \E i \in hits : \A j \in hits : i <= j
    BY <1>1, <1>3, LeastElement
  <2>2. FindFile(v, n) \in hits
    BY <2>1, <1>3 DEF FindFile
  <2> QED BY <2>2
<1> QED BY <1>2, <1>3

\* The slots of an inode table are entries of its File array.
LEMMA SlotsAreIndices ==
  ASSUME TypeOK, NEW v \in Device
  PROVE  /\ inode[v] \in Table
         /\ Slots(inode[v]) \subseteq FileIndex
         /\ FILE_NOT_FOUND \notin Slots(inode[v])
BY SizesAssumption DEF TypeOK, Table, Slots, FileIndex, FILE_NOT_FOUND

\* EEFS_LibGetFileDescriptor fills one descriptor that was free, and counts it.
LEMMA GetFileDescriptorStep ==
  ASSUME NEW f, GetFileDescriptor(f)
  PROVE  \E d \in FreeDescriptors :
           /\ fdTable' = [fdTable EXCEPT ![d] = f]
           /\ FileDescriptorsInUse' = FileDescriptorsInUse + 1
           /\ HighWaterMark' \in {HighWaterMark, FileDescriptorsInUse + 1}
<1>1. FreeDescriptors \in SUBSET Nat /\ FreeDescriptors # {}
  BY DEF FreeDescriptors, Descriptor, GetFileDescriptor
<1>2. \E d \in FreeDescriptors : \A e \in FreeDescriptors : d <= e
  BY <1>1, LeastElement
<1>3. (CHOOSE d \in FreeDescriptors : \A e \in FreeDescriptors : d <= e) \in FreeDescriptors
  BY <1>2
<1> QED BY <1>3 DEF GetFileDescriptor

\* It leaves the table and the counters well typed.
LEMMA GetFileDescriptorType ==
  ASSUME TypeOK, NEW f \in FileDescriptor, GetFileDescriptor(f)
  PROVE  /\ fdTable' \in [Descriptor -> FileDescriptor]
         /\ FileDescriptorsInUse' \in Nat /\ HighWaterMark' \in Nat
BY GetFileDescriptorStep DEF TypeOK, FreeDescriptors

\* A zeroed structure is a value of its type.
LEMMA ZeroTypes ==
  /\ ZeroHeader \in FileHeader
  /\ ZeroTable \in Table
  /\ ZeroDescriptor \in FileDescriptor
  /\ ZeroDirectory \in DirectoryDescriptor
<1>1. ZeroHeader \in FileHeader
  BY DEF ZeroHeader, FileHeader, NONE
<1>2. ZeroTable \in Table
  BY SizesAssumption DEF ZeroTable, Table, Entry
<1>3. ZeroDescriptor \in FileDescriptor
  BY DEF ZeroDescriptor, FileDescriptor
<1>4. ZeroDirectory \in DirectoryDescriptor
  BY DEF ZeroDirectory, DirectoryDescriptor
<1> QED BY <1>1, <1>2, <1>3, <1>4

\* EEFS_LibFreeFileDescriptor leaves the table and the counters well typed.
LEMMA FreeFileDescriptorType ==
  ASSUME TypeOK, NEW d, FreeFileDescriptor(d)
  PROVE  /\ fdTable' \in [Descriptor -> FileDescriptor]
         /\ FileDescriptorsInUse' \in Nat /\ HighWaterMark' \in Nat
<1>1. USub(FileDescriptorsInUse, 1) \in Nat
  BY USubType DEF TypeOK
<1> QED BY <1>1, ZeroTypes DEF TypeOK, FreeFileDescriptor, counters

(***************************************************************************)
(* Type correctness: one lemma per group of calls that share a step        *)
(***************************************************************************)
\* A descriptor opened on slot i of device v is well typed.
LEMMA NewDescriptorType ==
  ASSUME NEW v \in Device, NEW i \in FileIndex, inode'[v] \in Table,
         NEW mode \in SUBSET Nat, NEW size \in Nat, NEW max \in Nat
  PROVE  NewDescriptor(v, i, mode, size, max) \in FileDescriptor
<1> DEFINE p == inode'[v].File[i].FileHeaderPointer
<1>1. p \in Nat /\ p + HeaderSize \in Int /\ i \in Int
  BY SizesAssumption DEF Table, Entry, FileIndex
<1> HIDE DEF p
<1>2. [InUse |-> TRUE, Mode |-> mode, FileHeaderPointer |-> p,
       FileDataPointer |-> p + HeaderSize, ByteOffset |-> 0, FileSize |-> size,
       MaxFileSize |-> max, InodeTable |-> v, InodeIndex |-> i] \in FileDescriptor
  BY <1>1 DEF FileDescriptor
<1> QED BY <1>2 DEF NewDescriptor, p

\* EEFS_LibOpenFile keeps every variable in its type.
LEMMA OpenFileTypeStep ==
  ASSUME TypeOK, NEW v \in Device, NEW i \in Slots(inode[v]), NEW Flags,
         LibOpenFile(v, i, Flags)
  PROVE  TypeOK'
<1> DEFINE size == IF Truncates(Flags) THEN 0 ELSE Header(v, i).FileSize
           max == inode[v].File[i].MaxFileSize
<1>1. i \in FileIndex /\ inode[v] \in Table /\ inode' = inode
  BY SlotsAreIndices DEF LibOpenFile
<1>2. size \in Nat
  BY HeaderAtType DEF Header, FileHeader
<1>3. max \in Nat
  BY <1>1 DEF Table, Entry
<1>4. OpenMode(Flags) \in SUBSET Nat
  BY DEF OpenMode, Bits
<1> HIDE DEF size, max
<1>5. NewDescriptor(v, i, OpenMode(Flags), size, max) \in FileDescriptor
  BY <1>1, <1>2, <1>3, <1>4, NewDescriptorType
<1>6. GetFileDescriptor(NewDescriptor(v, i, OpenMode(Flags), size, max))
  BY DEF LibOpenFile, size, max
<1> QED BY <1>5, <1>6, GetFileDescriptorType DEF TypeOK, LibOpenFile, image

\* EEFS_LibCreatFile keeps every variable in its type.
LEMMA CreatFileTypeStep ==
  ASSUME TypeOK, NEW v \in Device, NEW n \in Filename,
         NEW Attributes \in {NONE, READONLY}, LibCreatFile(v, n, Attributes)
  PROVE  TypeOK'
<1> DEFINE t == inode[v]
           i == t.NumberOfFiles
           max == t.FreeMemorySize - HeaderSize
           h == [InUse |-> TRUE, Attributes |-> Attributes, FileSize |-> 0, Filename |-> n]
           entry == [FileHeaderPointer |-> t.FreeMemoryPointer, MaxFileSize |-> max]
<1>1. t \in Table
  BY DEF TypeOK
<1>2. i \in FileIndex /\ i + 1 \in 0 .. MaxFiles
  BY <1>1, SizesAssumption DEF LibCreatFile, Table, FileIndex
<1>3. max \in Nat
  BY <1>1, SizesAssumption DEF LibCreatFile, Table
<1>4. entry \in Entry
  BY <1>1, <1>3 DEF Table, Entry
<1>5. h \in FileHeader
  BY DEF FileHeader
<1>6. inode' = [inode EXCEPT ![v].NumberOfFiles = i + 1, ![v].File[i] = entry]
  BY DEF LibCreatFile
<1>7. eeprom' = [eeprom EXCEPT ![v] = WriteHeader(@, t.FreeMemoryPointer, h)]
  BY DEF LibCreatFile
<1>8. GetFileDescriptor(NewDescriptor(v, i, {FWRITE, FCREAT}, 0, max))
  BY DEF LibCreatFile
<1> HIDE DEF max, h, entry
<1>9. inode' \in [Device -> Table]
  BY <1>2, <1>4, <1>6 DEF TypeOK, Table
<1>10. eeprom' \in [Device -> [Address -> Cell]]
  BY <1>5, <1>7, WriteHeaderType DEF TypeOK
<1>11. NewDescriptor(v, i, {FWRITE, FCREAT}, 0, max) \in FileDescriptor
  <2>1. {FWRITE, FCREAT} \in SUBSET Nat
    BY DEF FWRITE, FCREAT
  <2> HIDE DEF i
  <2> QED BY <1>2, <1>3, <1>9, <2>1, NewDescriptorType
<1> QED BY <1>8, <1>9, <1>10, <1>11, GetFileDescriptorType DEF TypeOK, LibCreatFile

\* EEFS_LibOpen and EEFS_LibCreat keep every variable in its type.
LEMMA OpenTypeStep ==
  ASSUME TypeOK, NEW v \in Device, NEW n \in Filename,
         \/ \E Flags \in CallerFlags : LibOpen(v, n, Flags)
         \/ \E Attributes \in {NONE, READONLY} : LibCreat(v, n, Attributes)
  PROVE  TypeOK'
<1>1. FindFile(v, n) # FILE_NOT_FOUND => FindFile(v, n) \in Slots(inode[v])
  BY FindFileResult
<1>2. \/ /\ FindFile(v, n) # FILE_NOT_FOUND
         /\ \E Flags : LibOpenFile(v, FindFile(v, n), Flags)
      \/ \E Attributes \in {NONE, READONLY} : LibCreatFile(v, n, Attributes)
  BY DEF LibOpen, LibCreat
<1> QED BY <1>1, <1>2, OpenFileTypeStep, CreatFileTypeStep

\* What EEFS_LibClose writes to the EEPROM is well typed, however far it gets.
LEMMA CloseWritesType ==
  ASSUME TypeOK, NEW d \in Descriptor, NEW k
  PROVE  LET v == fdTable[d].InodeTable
         IN  v \in Device =>
               /\ AllocateSlot(inode[v], d) \in Table
               /\ StoreFileSize(eeprom[v], d) \in [Address -> Cell]
               /\ UpdatedFat(fat[v], AllocateSlot(inode[v], d), fdTable[d].InodeIndex, k)
                     \in Table
<1> DEFINE v == fdTable[d].InodeTable
<1> SUFFICES ASSUME v \in Device
             PROVE  /\ AllocateSlot(inode[v], d) \in Table
                    /\ StoreFileSize(eeprom[v], d) \in [Address -> Cell]
                    /\ UpdatedFat(fat[v], AllocateSlot(inode[v], d),
                                  fdTable[d].InodeIndex, k) \in Table
  OBVIOUS
<1>1. fdTable[d].FileSize \in Nat
  BY DEF TypeOK, FileDescriptor
<1>2. inode[v] \in Table /\ fat[v] \in Table /\ eeprom[v] \in [Address -> Cell]
  BY DEF TypeOK
<1> HIDE DEF v
<1> QED BY <1>1, <1>2, AllocateSlotType, StoreFileSizeType, UpdatedFatType

\* EEFS_LibClose keeps every variable in its type.
LEMMA CloseTypeStep ==
  ASSUME TypeOK, NEW d \in Descriptor, LibClose(d)
  PROVE  TypeOK'
<1> DEFINE v == fdTable[d].InodeTable
<1>1. FreeFileDescriptor(d) /\ dir' = dir
  BY DEF LibClose
<1>2. /\ fdTable' \in [Descriptor -> FileDescriptor]
      /\ FileDescriptorsInUse' \in Nat /\ HighWaterMark' \in Nat
  BY <1>1, FreeFileDescriptorType
<1>3. CASE CloseCreated(d)
  <2>1. /\ inode' = [inode EXCEPT ![v] = AllocateSlot(inode[v], d)]
        /\ eeprom' = [eeprom EXCEPT ![v] = StoreFileSize(eeprom[v], d)]
        /\ fat' = [fat EXCEPT ![v] = UpdatedFat(fat[v], AllocateSlot(inode[v], d),
                                               fdTable[d].InodeIndex, 2)]
    BY <1>3 DEF CloseCreated
  <2> QED BY <1>1, <1>2, <2>1, CloseWritesType DEF TypeOK
<1>4. CASE CloseWritten(d)
  <2>1. /\ eeprom' = [eeprom EXCEPT ![v] = StoreFileSize(eeprom[v], d)]
        /\ inode' = inode /\ fat' = fat
    BY <1>4 DEF CloseWritten
  <2> QED BY <1>1, <1>2, <2>1, CloseWritesType DEF TypeOK
<1>5. CASE CloseRead(d)
  BY <1>1, <1>2, <1>5 DEF CloseRead, TypeOK, image
<1> QED BY <1>3, <1>4, <1>5 DEF LibClose

\* Clearing RAM (EEFS_LibInit) keeps the RAM variables in their types.
LEMMA LibInitType ==
  ASSUME LibInit
  PROVE  /\ inode' \in [Device -> Table]
         /\ fdTable' \in [Descriptor -> FileDescriptor]
         /\ FileDescriptorsInUse' \in Nat /\ HighWaterMark' \in Nat
         /\ dir' \in DirectoryDescriptor
BY ZeroTypes DEF LibInit

\* A reset, also one that cuts EEFS_LibClose short, keeps every variable in its type.
LEMMA ResetTypeStep ==
  ASSUME TypeOK, Reset \/ \E d \in Descriptor : ResetDuringClose(d)
  PROVE  TypeOK'
<1>1. CASE Reset
  BY <1>1, LibInitType DEF Reset, image, TypeOK
<1>2. ASSUME NEW d \in Descriptor, ResetDuringClose(d)
      PROVE  TypeOK'
  <2> DEFINE v == fdTable[d].InodeTable
  <2>1. PICK k \in {0, 1} :
          fat' = [fat EXCEPT ![v] = UpdatedFat(fat[v], AllocateSlot(inode[v], d),
                                              fdTable[d].InodeIndex, k)]
    BY <1>2 DEF ResetDuringClose
  <2>2. eeprom' = [eeprom EXCEPT ![v] = StoreFileSize(eeprom[v], d)]
    BY <1>2 DEF ResetDuringClose
  <2>3. LibInit
    BY <1>2 DEF ResetDuringClose
  <2> QED BY <2>1, <2>2, <2>3, LibInitType, CloseWritesType DEF TypeOK
<1> QED BY <1>1, <1>2

\* EEFS_LibRead keeps every variable in its type.
LEMMA ReadTypeStep ==
  ASSUME TypeOK, NEW d \in Descriptor, NEW Length \in Lengths, LibRead(d, Length)
  PROVE  TypeOK'
<1> DEFINE f == fdTable[d]
           n == BytesToRead(f, Length)
<1>1. f \in FileDescriptor
  BY DEF TypeOK
<1>2. n \in Nat
  <2>1. USub(f.FileSize, f.ByteOffset) \in Nat
    BY <1>1, USubType DEF FileDescriptor
  <2> QED BY <2>1, InputsAssumption DEF BytesToRead, Lesser
<1>3. fdTable' = [fdTable EXCEPT ![d].FileDataPointer = @ + n, ![d].ByteOffset = @ + n]
  BY DEF LibRead
<1> HIDE DEF n
<1>4. fdTable' = [fdTable EXCEPT ![d] = [f EXCEPT !.FileDataPointer = @ + n,
                                                 !.ByteOffset = @ + n]]
  BY <1>3 DEF TypeOK
<1> HIDE DEF f
<1>5. [f EXCEPT !.FileDataPointer = @ + n, !.ByteOffset = @ + n] \in FileDescriptor
  <2>1. f.FileDataPointer + n \in Int /\ f.ByteOffset + n \in Nat
    BY <1>1, <1>2 DEF FileDescriptor
  <2> QED BY <1>1, <2>1 DEF FileDescriptor
<1> QED BY <1>4, <1>5 DEF TypeOK, LibRead, image, counters

\* EEFS_LibWrite keeps every variable in its type.
LEMMA WriteTypeStep ==
  ASSUME TypeOK, NEW d \in Descriptor, NEW Length \in Lengths, NEW b \in Byte,
         LibWrite(d, Length, b)
  PROVE  TypeOK'
<1> DEFINE f == fdTable[d]
           n == BytesToWrite(f, Length)
           g == [f EXCEPT !.FileDataPointer = @ + n, !.ByteOffset = @ + n,
                          !.FileSize = IF f.ByteOffset + n > @ THEN f.ByteOffset + n ELSE @]
<1>1. f \in FileDescriptor
  BY DEF TypeOK
<1>2. n \in Nat
  <2>1. USub(f.MaxFileSize, f.ByteOffset) \in Nat
    BY <1>1, USubType DEF FileDescriptor
  <2> QED BY <2>1, InputsAssumption DEF BytesToWrite, Lesser
<1>3. fdTable' = [fdTable EXCEPT ![d] = g]
  BY DEF LibWrite
<1>4. eeprom' = [eeprom EXCEPT ![f.InodeTable] = WriteData(@, f.FileDataPointer, n, b)]
  BY DEF LibWrite
<1> HIDE DEF n, f
<1>5. g \in FileDescriptor
  <2>1. f.FileDataPointer + n \in Int /\ f.ByteOffset + n \in Nat
    BY <1>1, <1>2 DEF FileDescriptor
  <2> QED BY <1>1, <2>1 DEF FileDescriptor
<1> HIDE DEF g
<1>6. eeprom' \in [Device -> [Address -> Cell]]
  BY <1>4, WriteDataType DEF TypeOK
<1> QED BY <1>3, <1>5, <1>6 DEF TypeOK, LibWrite, counters

\* EEFS_LibLSeek keeps every variable in its type: it never moves a descriptor below
\* the start of its file.
LEMMA SeekTypeStep ==
  ASSUME TypeOK, NEW d \in Descriptor, NEW offset \in SeekOffsets, NEW origin \in Origin,
         LibLSeek(d, offset, origin)
  PROVE  TypeOK'
<1> DEFINE f == fdTable[d]
           target == SeekTarget(f, offset, origin)
           p == IF origin = "SEEK_CUR" /\ target = offset + f.ByteOffset
                THEN f.FileDataPointer + offset
                ELSE f.FileHeaderPointer + HeaderSize + target
<1>1. f \in FileDescriptor /\ offset \in Int
  BY InputsAssumption DEF TypeOK
<1>2. target \in Nat
  <2>1. f.FileSize \in Nat /\ f.ByteOffset \in Nat
    BY <1>1 DEF FileDescriptor
  <2>2. target # INVALID_ARGUMENT
    BY DEF LibLSeek
  <2>3. Int32(offset + f.ByteOffset) \in Int
    BY <1>1, <2>1, SizesAssumption DEF Int32
  <2>4. CASE origin = "SEEK_SET"
    BY <1>1, <2>1, <2>2, <2>4 DEF SeekTarget
  <2>5. CASE origin = "SEEK_CUR"
    BY <1>1, <2>1, <2>2, <2>3, <2>5 DEF SeekTarget
  <2>6. CASE origin = "SEEK_END"
    <3>1. offset + f.FileSize >= 0 \/ Int32(offset + f.FileSize) < 0
      BY <1>1, <2>1, SizesAssumption DEF Int32
    <3> QED BY <1>1, <2>1, <2>2, <2>6, <3>1 DEF SeekTarget
  <2> QED BY <2>4, <2>5, <2>6 DEF Origin
<1>3. p \in Int
  BY <1>1, <1>2, SizesAssumption DEF FileDescriptor
<1>4. fdTable' = [fdTable EXCEPT ![d].ByteOffset = target, ![d].FileDataPointer = p]
  BY DEF LibLSeek
<1> HIDE DEF target, p
<1>5. [f EXCEPT !.ByteOffset = target, !.FileDataPointer = p] \in FileDescriptor
  BY <1>1, <1>2, <1>3 DEF FileDescriptor
<1>6. fdTable' = [fdTable EXCEPT ![d] = [f EXCEPT !.ByteOffset = target,
                                                 !.FileDataPointer = p]]
  BY <1>4 DEF TypeOK
<1> HIDE DEF f
<1> QED BY <1>5, <1>6 DEF TypeOK, LibLSeek, image, counters

\* Rewriting a slot's file header keeps every variable in its type.
LEMMA StoreHeaderTypeStep ==
  ASSUME TypeOK, NEW v \in Device, NEW i, NEW h \in FileHeader, StoreHeader(v, i, h)
  PROVE  TypeOK'
BY WriteHeaderType DEF StoreHeader, TypeOK, counters

\* EEFS_LibRemove, EEFS_LibRename and EEFS_LibSetFileAttributes keep every variable in
\* its type.
LEMMA NameOperationTypeStep ==
  ASSUME TypeOK, NEW v \in Device, NEW n \in Filename,
         \/ LibRemove(v, n)
         \/ \E new \in Filename : LibRename(v, n, new)
         \/ \E Attributes \in {NONE, READONLY} : LibSetFileAttributes(v, n, Attributes)
  PROVE  TypeOK'
<1> DEFINE i == FindFile(v, n)
<1>1. Header(v, i) \in FileHeader
  BY HeaderAtType DEF Header
<1> HIDE DEF i
<1>2. CASE LibRemove(v, n)
  <2>1. StoreHeader(v, i, ZeroHeader)
    BY <1>2 DEF LibRemove, i
  <2> QED BY <2>1, ZeroTypes, StoreHeaderTypeStep
<1>3. ASSUME NEW new \in Filename, LibRename(v, n, new)
      PROVE  TypeOK'
  <2>1. StoreHeader(v, i, [Header(v, i) EXCEPT !.Filename = new])
    BY <1>3 DEF LibRename, i
  <2>2. [Header(v, i) EXCEPT !.Filename = new] \in FileHeader
    BY <1>1 DEF FileHeader
  <2> QED BY <2>1, <2>2, StoreHeaderTypeStep
<1>4. ASSUME NEW Attributes \in {NONE, READONLY}, LibSetFileAttributes(v, n, Attributes)
      PROVE  TypeOK'
  <2>1. StoreHeader(v, i, [Header(v, i) EXCEPT !.Attributes = Attributes])
    BY <1>4 DEF LibSetFileAttributes, i
  <2>2. [Header(v, i) EXCEPT !.Attributes = Attributes] \in FileHeader
    BY <1>1 DEF FileHeader
  <2> QED BY <2>1, <2>2, StoreHeaderTypeStep
<1> QED BY <1>2, <1>3, <1>4

\* Loading and clearing an inode table keep every variable in its type.
LEMMA MountTypeStep ==
  ASSUME TypeOK, NEW v \in Device, LibInitFS(v) \/ LibFreeFS(v)
  PROVE  TypeOK'
<1>1. CASE LibInitFS(v)
  <2> DEFINE File == [i \in FileIndex |->
                        IF i < fat[v].NumberOfFiles THEN fat[v].File[i] ELSE ZeroTable.File[i]]
  <2>1. fat[v] \in Table
    BY DEF TypeOK
  <2>2. File \in [FileIndex -> Entry]
    BY <2>1, ZeroTypes DEF Table
  <2>3. inode' = [inode EXCEPT ![v] = [fat[v] EXCEPT !.File = File]]
    BY <1>1 DEF LibInitFS
  <2> HIDE DEF File
  <2>4. [fat[v] EXCEPT !.File = File] \in Table
    BY <2>1, <2>2 DEF Table
  <2> QED BY <1>1, <2>3, <2>4 DEF LibInitFS, TypeOK, image, counters
<1>2. CASE LibFreeFS(v)
  BY <1>2, ZeroTypes DEF LibFreeFS, TypeOK, image, counters
<1> QED BY <1>1, <1>2

\* The directory calls keep every variable in its type.
LEMMA DirectoryTypeStep ==
  ASSUME TypeOK, (\E v \in Device : LibOpenDir(v)) \/ LibReadDir \/ LibCloseDir
  PROVE  TypeOK'
<1>1. dir' \in DirectoryDescriptor
  <2>1. dir \in DirectoryDescriptor
    BY DEF TypeOK
  <2>2. CASE \E v \in Device : LibOpenDir(v)
    BY <2>2 DEF LibOpenDir, DirectoryDescriptor
  <2>3. CASE LibReadDir
    BY <2>1, <2>3 DEF LibReadDir, DirectoryDescriptor
  <2>4. CASE LibCloseDir
    BY <2>4, ZeroTypes DEF LibCloseDir
  <2> QED BY <2>2, <2>3, <2>4
<1> QED BY <1>1 DEF LibOpenDir, LibReadDir, LibCloseDir, TypeOK, image, counters

\* The program starts with every variable in its type.
LEMMA InitType == Init => TypeOK
<1> SUFFICES ASSUME Init PROVE TypeOK
  OBVIOUS
<1>1. EmptyFat \in Table
  <2>1. FatSize \in Nat /\ DeviceSize - FatSize \in Nat
    BY SizesAssumption
  <2> QED BY <2>1, ZeroTypes DEF EmptyFat, Table
<1>2. eeprom \in [Device -> [Address -> Cell]]
  BY DEF Init, Cell
<1> QED BY <1>1, <1>2, ZeroTypes DEF Init, TypeOK

\* Every call, and every reset, keeps every variable in its type.
LEMMA NextType == TypeOK /\ [Next]_vars => TypeOK'
<1> SUFFICES ASSUME TypeOK, [Next]_vars PROVE TypeOK'
  OBVIOUS
<1>1. CASE Reset \/ \E d \in Descriptor : ResetDuringClose(d)
  BY <1>1, ResetTypeStep
<1>2. ASSUME NEW v \in Device, LibInitFS(v) \/ LibFreeFS(v)
      PROVE  TypeOK'
  BY <1>2, MountTypeStep
<1>3. ASSUME NEW v \in Device, NEW n \in Filename,
             \/ \E Flags \in CallerFlags : LibOpen(v, n, Flags)
             \/ \E Attributes \in {NONE, READONLY} : LibCreat(v, n, Attributes)
      PROVE  TypeOK'
  BY <1>3, OpenTypeStep
<1>4. ASSUME NEW v \in Device, NEW n \in Filename,
             \/ LibRemove(v, n)
             \/ \E new \in Filename : LibRename(v, n, new)
             \/ \E Attributes \in {NONE, READONLY} : LibSetFileAttributes(v, n, Attributes)
      PROVE  TypeOK'
  BY <1>4, NameOperationTypeStep
<1>5. ASSUME NEW d \in Descriptor, LibClose(d)
      PROVE  TypeOK'
  BY <1>5, CloseTypeStep
<1>6. ASSUME NEW d \in Descriptor, NEW Length \in Lengths,
             LibRead(d, Length) \/ \E b \in Byte : LibWrite(d, Length, b)
      PROVE  TypeOK'
  BY <1>6, ReadTypeStep, WriteTypeStep
<1>7. ASSUME NEW d \in Descriptor, NEW offset \in SeekOffsets, NEW origin \in Origin,
             LibLSeek(d, offset, origin)
      PROVE  TypeOK'
  BY <1>7, SeekTypeStep
<1>8. CASE (\E v \in Device : LibOpenDir(v)) \/ LibReadDir \/ LibCloseDir
  BY <1>8, DirectoryTypeStep
<1>9. CASE UNCHANGED vars
  BY <1>9 DEF vars, TypeOK
<1> QED BY <1>1, <1>2, <1>3, <1>4, <1>5, <1>6, <1>7, <1>8, <1>9 DEF Next

\* In every behaviour of the library, with either build's open flags, every variable
\* holds a value of its C type.
THEOREM TypeCorrect == Spec => []TypeOK
BY InitType, NextType, PTL DEF Spec

(***************************************************************************)
(* The slots of a device never overlap and the EEPROM allocation table is  *)
(* the RAM inode table less the file being created: proofs of the          *)
(* inductive invariant TableInv of EefsFileApi.  They hold for open flags  *)
(* that never give a descriptor of an existing file the FCREAT mode        *)
(* (FlagsSeparateCreat), as those of the hosted build do not.              *)
(***************************************************************************)

(***************************************************************************)
(* Facts about the final slot of a created file                            *)
(***************************************************************************)
\* The slot cut out of the free memory fits into it, header included.
LEMMA SlotSizeFits ==
  ASSUME NEW size \in Nat, NEW free \in Nat, HeaderSize < free
  PROVE  /\ SlotSize(size, free) \in Nat
         /\ HeaderSize + SlotSize(size, free) <= free
         /\ USub(free, HeaderSize + SlotSize(size, free))
              = free - (HeaderSize + SlotSize(size, free))
<1>1. USub(free, HeaderSize) = free - HeaderSize
  BY SizesAssumption DEF USub
<1>2. SlotSize(size, free) \in Nat
  BY SlotSizeType
<1>3. SlotSize(size, free) <= free - HeaderSize
  <2>1. RoundUp4(size + SpareBytes) \in Nat
    BY RoundUp4Bound, SizesAssumption
  <2> QED BY <1>1, <2>1, SizesAssumption DEF SlotSize, Lesser
<1> QED BY <1>2, <1>3, SizesAssumption DEF USub

(***************************************************************************)
(* Steps that leave a device's tables alone                                *)
(***************************************************************************)
\* A step that leaves the tables of a device alone, and neither adds nor removes a
\* creating descriptor there, preserves its invariant.
LEMMA DeviceUntouched ==
  ASSUME NEW v \in Device, DeviceInv(v), fat'[v] = fat[v], inode'[v] = inode[v],
         Creators(v)' = Creators(v),
         \A c \in Creators(v) : fdTable'[c].InodeIndex = fdTable[c].InodeIndex
  PROVE  DeviceInv(v)'
<1>1. FatTiled(v)'
  BY DEF DeviceInv, FatTiled, Tiled, SlotStart, SlotEnd
<1>2. InodeFollowsFat(v)'
  BY DEF DeviceInv, InodeFollowsFat, Loaded, Slots
<1>3. CreatorOwnsFreeMemory(v)'
  BY DEF DeviceInv, CreatorOwnsFreeMemory
<1>4. UnloadedIsZero(v)'
  BY DEF DeviceInv, UnloadedIsZero, Loaded
<1> QED BY <1>1, <1>2, <1>3, <1>4 DEF DeviceInv

\* When one descriptor changes, the creating descriptors of a device it creates nothing
\* on, before or after, stay as they are.
LEMMA OtherDescriptorsKept ==
  ASSUME TypeOK, NEW v \in Device, NEW d \in Descriptor, NEW g,
         fdTable' = [fdTable EXCEPT ![d] = g], d \notin Creators(v),
         ~ (g.InUse /\ g.InodeTable = v /\ FCREAT \in g.Mode)
  PROVE  /\ Creators(v)' = Creators(v)
         /\ \A c \in Creators(v) : fdTable'[c].InodeIndex = fdTable[c].InodeIndex
<1>1. \A e \in Descriptor \ {d} : fdTable'[e] = fdTable[e]
  BY DEF TypeOK
<1>2. fdTable'[d] = g
  BY DEF TypeOK
<1> QED BY <1>1, <1>2 DEF Creators, OpenOn

\* A step that only moves descriptors, their modes and slots staying the same,
\* preserves TableInv.
LEMMA DescriptorsMoved ==
  ASSUME TableInv, fat' = fat, inode' = inode,
         \A d \in Descriptor :
           /\ fdTable'[d].InUse = fdTable[d].InUse /\ fdTable'[d].Mode = fdTable[d].Mode
           /\ fdTable'[d].InodeTable = fdTable[d].InodeTable
           /\ fdTable'[d].InodeIndex = fdTable[d].InodeIndex
  PROVE  TableInv'
<1>1. \A v \in Device : Creators(v)' = Creators(v) /\ Creators(v) \subseteq Descriptor
  BY DEF Creators, OpenOn
<1> QED BY <1>1, DeviceUntouched DEF TableInv

\* So does a step that replaces a descriptor that is not creating by another such.
LEMMA OtherDescriptorReplaced ==
  ASSUME TypeOK, TableInv, NEW d \in Descriptor, NEW g, fat' = fat, inode' = inode,
         fdTable' = [fdTable EXCEPT ![d] = g],
         fdTable[d].InUse => FCREAT \notin fdTable[d].Mode,
         g.InUse => FCREAT \notin g.Mode
  PROVE  TableInv'
<1>1. \A v \in Device : d \notin Creators(v)
  BY DEF Creators, OpenOn
<1> QED BY <1>1, OtherDescriptorsKept, DeviceUntouched DEF TableInv

(***************************************************************************)
(* One lemma per call that changes a table                                 *)
(***************************************************************************)
\* EEFS_LibInitFS gives the table the slots of the EEPROM.
LEMMA InitFSTableStep ==
  ASSUME TypeOK, TableInv, NEW v \in Device, ~ Loaded(v), LibInitFS(v)
  PROVE  TableInv'
<1>1. \A u \in Device \ {v} : inode'[u] = inode[u]
  BY DEF TypeOK, LibInitFS
<1>2. fat' = fat /\ fdTable' = fdTable
  BY DEF LibInitFS, image
<1>3. \A u \in Device : Creators(u)' = Creators(u)
  BY <1>2 DEF Creators, OpenOn
<1>4. DeviceInv(v) /\ Creators(v) = {}
  BY DEF TableInv, DeviceInv, UnloadedIsZero
<1>5. DeviceInv(v)'
  <2> DEFINE t == [fat[v] EXCEPT !.File = [i \in FileIndex |->
                     IF i < fat[v].NumberOfFiles THEN fat[v].File[i] ELSE ZeroTable.File[i]]]
  <2>1. inode'[v] = t
    BY DEF TypeOK, LibInitFS
  <2>2. fat[v] \in Table
    BY DEF TypeOK
  <2>3. /\ t.FreeMemoryPointer = fat[v].FreeMemoryPointer
        /\ t.FreeMemorySize = fat[v].FreeMemorySize
        /\ t.NumberOfFiles = fat[v].NumberOfFiles
        /\ \A i \in Slots(fat[v]) : t.File[i] = fat[v].File[i]
    <3>1. Slots(fat[v]) \subseteq FileIndex
      BY <2>2, SizesAssumption DEF Table, Slots, FileIndex
    <3>2. \A i \in Slots(fat[v]) : i < fat[v].NumberOfFiles
      BY <2>2, SizesAssumption DEF Table, Slots
    <3> QED BY <2>2, <3>1, <3>2 DEF Table
  <2> HIDE DEF t
  <2>4. FatTiled(v)'
    BY <1>2, <1>4 DEF DeviceInv, FatTiled, Tiled, SlotStart, SlotEnd
  <2>5. InodeFollowsFat(v)'
    BY <1>2, <2>1, <2>3 DEF InodeFollowsFat, Slots
  <2>6. CreatorOwnsFreeMemory(v)'
    BY <1>3, <1>4 DEF CreatorOwnsFreeMemory
  <2>7. Loaded(v)'
    BY <1>4, <2>1, <2>2, <2>3, SizesAssumption DEF DeviceInv, FatTiled, Loaded, Table
  <2> QED BY <2>4, <2>5, <2>6, <2>7 DEF DeviceInv, UnloadedIsZero
<1>6. \A u \in Device \ {v} : DeviceInv(u)'
  BY <1>1, <1>2, <1>3, DeviceUntouched DEF TableInv
<1> QED BY <1>5, <1>6 DEF TableInv

\* EEFS_LibFreeFS clears a table that no descriptor uses.
LEMMA FreeFSTableStep ==
  ASSUME TypeOK, TableInv, NEW v \in Device, LibFreeFS(v)
  PROVE  TableInv'
<1>1. \A u \in Device \ {v} : inode'[u] = inode[u]
  BY DEF TypeOK, LibFreeFS
<1>2. fat' = fat /\ fdTable' = fdTable
  BY DEF LibFreeFS, image
<1>3. \A u \in Device : Creators(u)' = Creators(u)
  BY <1>2 DEF Creators, OpenOn
<1>4. Creators(v)' = {}
  BY <1>3 DEF LibFreeFS, HasOpenFiles, Creators
<1>5. inode'[v] = ZeroTable
  BY DEF TypeOK, LibFreeFS
<1>6. DeviceInv(v)'
  <2>1. FatTiled(v)'
    BY <1>2 DEF TableInv, DeviceInv, FatTiled, Tiled, SlotStart, SlotEnd
  <2>2. ~ Loaded(v)'
    BY <1>5 DEF Loaded, ZeroTable
  <2> QED BY <1>4, <1>5, <2>1, <2>2
          DEF DeviceInv, InodeFollowsFat, CreatorOwnsFreeMemory, UnloadedIsZero
<1>7. \A u \in Device \ {v} : DeviceInv(u)'
  BY <1>1, <1>2, <1>3, DeviceUntouched DEF TableInv
<1> QED BY <1>6, <1>7 DEF TableInv

\* EEFS_LibOpenFile changes no table, and its descriptor creates nothing.
LEMMA OpenFileTableStep ==
  ASSUME TypeOK, TableInv, NEW v \in Device, NEW i, NEW Flags,
         FCREAT \notin OpenMode(Flags), LibOpenFile(v, i, Flags)
  PROVE  TableInv'
<1> DEFINE g == NewDescriptor(v, i, OpenMode(Flags),
                  IF Truncates(Flags) THEN 0 ELSE Header(v, i).FileSize,
                  inode[v].File[i].MaxFileSize)
<1>1. PICK d \in FreeDescriptors : fdTable' = [fdTable EXCEPT ![d] = g]
  BY GetFileDescriptorStep DEF LibOpenFile
<1>2. d \in Descriptor /\ ~ fdTable[d].InUse
  BY DEF FreeDescriptors
<1>3. g.Mode = OpenMode(Flags)
  BY DEF NewDescriptor
<1> HIDE DEF g
<1> QED BY <1>1, <1>2, <1>3, OtherDescriptorReplaced DEF LibOpenFile, image

\* EEFS_LibCreatFile adds the slot of the new file, all of the free memory.
LEMMA CreatFileTableStep ==
  ASSUME TypeOK, TableInv, NEW v \in Device, NEW n, NEW Attributes,
         LibCreatFile(v, n, Attributes)
  PROVE  TableInv'
<1> DEFINE t == inode[v]
           i == t.NumberOfFiles
           max == t.FreeMemorySize - HeaderSize
           g == NewDescriptor(v, i, {FWRITE, FCREAT}, 0, max)
           entry == [FileHeaderPointer |-> t.FreeMemoryPointer, MaxFileSize |-> max]
<1>1. t \in Table /\ fat[v] \in Table
  BY DEF TypeOK
<1>2. /\ i < MaxFiles /\ HeaderSize < t.FreeMemorySize /\ Creators(v) = {} /\ fat' = fat
      /\ inode' = [inode EXCEPT ![v].NumberOfFiles = i + 1, ![v].File[i] = entry]
  BY <1>1 DEF LibCreatFile, HasOpenCreat, Table
<1>3. DeviceInv(v)
  BY DEF TableInv
<1>4. Loaded(v)
  BY <1>2, <1>3, SizesAssumption DEF DeviceInv, UnloadedIsZero, ZeroTable
<1>5. /\ t.FreeMemoryPointer = fat[v].FreeMemoryPointer
      /\ t.FreeMemorySize = fat[v].FreeMemorySize
      /\ i = fat[v].NumberOfFiles
      /\ \A j \in Slots(fat[v]) : t.File[j] = fat[v].File[j]
  BY <1>2, <1>3, <1>4 DEF DeviceInv, InodeFollowsFat
<1>6. PICK d \in FreeDescriptors : fdTable' = [fdTable EXCEPT ![d] = g]
  BY GetFileDescriptorStep DEF LibCreatFile
<1>7. d \in Descriptor /\ ~ fdTable[d].InUse
  BY DEF FreeDescriptors
<1>8. g.InUse /\ g.InodeTable = v /\ g.InodeIndex = i /\ g.Mode = {FWRITE, FCREAT}
  BY DEF NewDescriptor
<1> HIDE DEF g
<1>9. \A u \in Device \ {v} : DeviceInv(u)'
  <2> SUFFICES ASSUME NEW u \in Device, u # v PROVE DeviceInv(u)'
    OBVIOUS
  <2>1. inode'[u] = inode[u]
    BY <1>2 DEF TypeOK
  <2>2. d \notin Creators(u)
    BY <1>7 DEF Creators, OpenOn
  <2> QED BY <1>2, <1>6, <1>7, <1>8, <2>1, <2>2, OtherDescriptorsKept, DeviceUntouched
          DEF TableInv
<1>10. /\ inode'[v].FreeMemoryPointer = t.FreeMemoryPointer
       /\ inode'[v].FreeMemorySize = t.FreeMemorySize
       /\ inode'[v].NumberOfFiles = i + 1
       /\ inode'[v].File = [t.File EXCEPT ![i] = entry]
  BY <1>1, <1>2 DEF TypeOK, Table
<1>11. i \in FileIndex /\ \A j \in Slots(fat[v]) : j # i
  BY <1>1, <1>2, <1>5, SizesAssumption DEF Table, FileIndex, Slots
<1>12. inode'[v].File[i] = entry /\ \A j \in Slots(fat[v]) : inode'[v].File[j] = fat[v].File[j]
  BY <1>1, <1>5, <1>10, <1>11 DEF Table
<1>13. Creators(v)' = {d}
  <2>1. fdTable'[d] = g /\ \A e \in Descriptor \ {d} : fdTable'[e] = fdTable[e]
    BY <1>6, <1>7 DEF TypeOK
  <2> QED BY <1>2, <1>7, <1>8, <2>1 DEF Creators, OpenOn
<1>14. fdTable'[d].InodeIndex = i
  BY <1>6, <1>7, <1>8 DEF TypeOK
<1> HIDE DEF i, max, t
<1>15. FatTiled(v)'
  BY <1>2, <1>3 DEF DeviceInv, FatTiled, Tiled, SlotStart, SlotEnd
<1>16. InodeFollowsFat(v)'
  BY <1>2, <1>5, <1>10, <1>12, <1>13 DEF InodeFollowsFat, Slots
<1>17. CreatorOwnsFreeMemory(v)'
  BY <1>2, <1>5, <1>10, <1>12, <1>13, <1>14 DEF CreatorOwnsFreeMemory, max
<1>18. UnloadedIsZero(v)'
  BY <1>4, <1>10 DEF UnloadedIsZero, Loaded, t
<1>19. DeviceInv(v)'
  BY <1>15, <1>16, <1>17, <1>18 DEF DeviceInv
<1> QED BY <1>9, <1>19 DEF TableInv

\* What EEFS_LibClose makes of the inode table when descriptor d created a file: the new
\* file's slot is cut out of the free memory, and the slots before it stay.
LEMMA AllocatedSlot ==
  ASSUME TypeOK, NEW v \in Device, DeviceInv(v), NEW d \in Creators(v)
  PROVE  LET t == AllocateSlot(inode[v], d)
             n == fat[v].NumberOfFiles
         IN  \E max \in Nat :
               /\ n \in FileIndex /\ fdTable[d].InodeIndex = n
               /\ HeaderSize + max <= fat[v].FreeMemorySize
               /\ t.FreeMemoryPointer = fat[v].FreeMemoryPointer + HeaderSize + max
               /\ t.FreeMemorySize = fat[v].FreeMemorySize - (HeaderSize + max)
               /\ t.NumberOfFiles = n + 1
               /\ t.File[n] = [FileHeaderPointer |-> fat[v].FreeMemoryPointer,
                               MaxFileSize |-> max]
               /\ \A j \in Slots(fat[v]) : j # n /\ t.File[j] = fat[v].File[j]
<1> DEFINE n == fat[v].NumberOfFiles
           free == inode[v].FreeMemorySize
           max == SlotSize(fdTable[d].FileSize, free)
           t == AllocateSlot(inode[v], d)
<1>1. inode[v] \in Table /\ fat[v] \in Table
  BY DEF TypeOK
<1>2. Loaded(v)
  BY DEF DeviceInv, UnloadedIsZero
<1>3. /\ inode[v].FreeMemoryPointer = fat[v].FreeMemoryPointer
      /\ free = fat[v].FreeMemorySize
      /\ \A j \in Slots(fat[v]) : inode[v].File[j] = fat[v].File[j]
  BY <1>2 DEF DeviceInv, InodeFollowsFat
<1>4. /\ fdTable[d].InodeIndex = n /\ inode[v].NumberOfFiles = n + 1
      /\ HeaderSize < free
      /\ inode[v].File[n].FileHeaderPointer = fat[v].FreeMemoryPointer
  BY <1>3 DEF DeviceInv, CreatorOwnsFreeMemory
<1>5. n \in FileIndex /\ \A j \in Slots(fat[v]) : j # n
  BY <1>1, <1>4, SizesAssumption DEF Table, FileIndex, Slots
<1>6. free \in Nat /\ fdTable[d].FileSize \in Nat
  BY <1>1 DEF Table, TypeOK, FileDescriptor, Creators, OpenOn
<1>7. /\ max \in Nat /\ HeaderSize + max <= free
      /\ USub(free, HeaderSize + max) = free - (HeaderSize + max)
  BY <1>4, <1>6, SlotSizeFits
<1> HIDE DEF max
<1>8. t = [inode[v] EXCEPT !.FreeMemoryPointer = @ + HeaderSize + max,
                           !.FreeMemorySize = USub(free, HeaderSize + max),
                           !.File[n].MaxFileSize = max]
  BY <1>4 DEF AllocateSlot, max
<1> HIDE DEF t, n, free
<1>9. /\ t.FreeMemoryPointer = inode[v].FreeMemoryPointer + HeaderSize + max
      /\ t.FreeMemorySize = USub(free, HeaderSize + max)
      /\ t.NumberOfFiles = inode[v].NumberOfFiles
      /\ t.File = [inode[v].File EXCEPT ![n].MaxFileSize = max]
  BY <1>1, <1>8 DEF Table
<1>10. t.File[n] = [FileHeaderPointer |-> fat[v].FreeMemoryPointer, MaxFileSize |-> max]
  BY <1>1, <1>4, <1>5, <1>9 DEF Table, Entry
<1>11. \A j \in Slots(fat[v]) : t.File[j] = fat[v].File[j]
  <2>1. \A j \in Slots(fat[v]) : j \in FileIndex /\ j # n
    BY <1>1, <1>5, SizesAssumption DEF Table, Slots, FileIndex
  <2> QED BY <1>1, <1>3, <1>9, <2>1 DEF Table
<1> QED BY <1>3, <1>4, <1>5, <1>7, <1>9, <1>10, <1>11 DEF t, n, free

\* The allocation table after the first k of EEFS_LibClose's two updates, field by field.
LEMMA UpdatedFatFields ==
  ASSUME NEW f \in Table, NEW t \in Table, NEW i \in FileIndex, NEW k \in {0, 1, 2}
  PROVE  LET g == UpdatedFat(f, t, i, k)
             src == IF k = 2 THEN t ELSE f
         IN  /\ g.FreeMemoryPointer = src.FreeMemoryPointer
             /\ g.FreeMemorySize = src.FreeMemorySize
             /\ g.NumberOfFiles = src.NumberOfFiles
             /\ k # 0 => g.File[i] = t.File[i]
             /\ \A j \in FileIndex \ {i} : g.File[j] = f.File[j]
<1>1. CASE k = 0
  BY <1>1 DEF UpdatedFat
<1>2. CASE k = 1
  BY <1>2 DEF UpdatedFat, Table
<1>3. CASE k = 2
  BY <1>3 DEF UpdatedFat, Table
<1> QED BY <1>1, <1>2, <1>3

\* However many of its updates EEFS_LibClose makes, the allocation table stays tiled and
\* keeps the slots it had.
LEMMA UpdatedFatTiled ==
  ASSUME TypeOK, NEW v \in Device, DeviceInv(v), NEW d \in Creators(v), NEW k \in {0, 1, 2},
         fat'[v] = UpdatedFat(fat[v], AllocateSlot(inode[v], d), fdTable[d].InodeIndex, k)
  PROVE  /\ FatTiled(v)'
         /\ fat'[v].NumberOfFiles >= fat[v].NumberOfFiles
         /\ \A j \in Slots(fat[v]) : fat'[v].File[j] = fat[v].File[j]
<1> DEFINE t == AllocateSlot(inode[v], d)
           n == fat[v].NumberOfFiles
           i == fdTable[d].InodeIndex
<1>1. fat[v] \in Table /\ t \in Table
  BY AllocateSlotType DEF TypeOK, FileDescriptor, Creators, OpenOn
<1>2. PICK max \in Nat :
        /\ n \in FileIndex /\ i = n
        /\ HeaderSize + max <= fat[v].FreeMemorySize
        /\ t.FreeMemoryPointer = fat[v].FreeMemoryPointer + HeaderSize + max
        /\ t.FreeMemorySize = fat[v].FreeMemorySize - (HeaderSize + max)
        /\ t.NumberOfFiles = n + 1
        /\ t.File[n] = [FileHeaderPointer |-> fat[v].FreeMemoryPointer, MaxFileSize |-> max]
        /\ \A j \in Slots(fat[v]) : j # n /\ t.File[j] = fat[v].File[j]
  BY AllocatedSlot
<1> HIDE DEF t, i
<1>3. fat'[v] = UpdatedFat(fat[v], t, n, k)
  BY <1>2 DEF t, i
<1>4. /\ \A j \in FileIndex \ {n} : fat'[v].File[j] = fat[v].File[j]
      /\ k # 0 => fat'[v].File[n] = t.File[n]
      /\ k # 2 => /\ fat'[v].FreeMemoryPointer = fat[v].FreeMemoryPointer
                  /\ fat'[v].FreeMemorySize = fat[v].FreeMemorySize
                  /\ fat'[v].NumberOfFiles = fat[v].NumberOfFiles
      /\ k = 2 => /\ fat'[v].FreeMemoryPointer = t.FreeMemoryPointer
                  /\ fat'[v].FreeMemorySize = t.FreeMemorySize
                  /\ fat'[v].NumberOfFiles = t.NumberOfFiles
  BY <1>1, <1>2, <1>3, UpdatedFatFields
<1>5. \A j \in Slots(fat[v]) : fat'[v].File[j] = fat[v].File[j]
  <2>1. Slots(fat[v]) \subseteq FileIndex \ {n}
    BY <1>1, SizesAssumption DEF Table, Slots, FileIndex
  <2> QED BY <1>4, <2>1
<1>6. n \in Nat /\ fat'[v].NumberOfFiles >= n
  BY <1>1, <1>2, <1>4, SizesAssumption DEF Table
<1>7. FatTiled(v)'
  <2>1. FatTiled(v)
    BY DEF DeviceInv
  <2>2. CASE k # 2
    <3>1. \A j \in 0 .. n - 1 : fat'[v].File[j] = fat[v].File[j]
      BY <1>5 DEF Slots
    <3> QED BY <1>4, <2>1, <2>2, <3>1 DEF FatTiled, Tiled, SlotStart, SlotEnd
  <2>3. CASE k = 2
    <3>1. fat[v].FreeMemoryPointer \in Nat /\ fat[v].FreeMemorySize \in Nat
      BY <1>1 DEF Table
    <3>2. fat'[v].NumberOfFiles = n + 1
      BY <1>2, <1>4, <2>3
    <3>3. /\ SlotStart(fat'[v], n) = fat[v].FreeMemoryPointer
          /\ SlotEnd(fat'[v], n) = fat'[v].FreeMemoryPointer
      BY <1>2, <1>4, <2>3, <3>1, SizesAssumption DEF SlotStart, SlotEnd
    <3>4. \A j \in 0 .. n - 1 : /\ SlotStart(fat'[v], j) = SlotStart(fat[v], j)
                                /\ SlotEnd(fat'[v], j) = SlotEnd(fat[v], j)
                                /\ SlotEnd(fat[v], j) \in Nat
      <4>1. \A j \in 0 .. n - 1 : j \in FileIndex /\ fat'[v].File[j] = fat[v].File[j]
        BY <1>2, <1>5, <1>6, SizesAssumption DEF Slots, FileIndex
      <4>2. \A j \in 0 .. n - 1 : /\ fat[v].File[j].FileHeaderPointer \in Nat
                                  /\ fat[v].File[j].MaxFileSize \in Nat
        BY <1>1, <4>1 DEF Table, Entry
      <4> HIDE DEF n
      <4> QED BY <4>1, <4>2, SizesAssumption DEF SlotStart, SlotEnd
    <3>5. /\ \A j \in 0 .. n - 1 : FatSize <= SlotStart(fat[v], j)
                                   /\ SlotEnd(fat[v], j) <= fat[v].FreeMemoryPointer
          /\ \A j, l \in 0 .. n - 1 : j < l => SlotEnd(fat[v], j) <= SlotStart(fat[v], l)
          /\ FatSize <= fat[v].FreeMemoryPointer
      BY <2>1 DEF FatTiled, Tiled
    <3>6. /\ fat'[v].FreeMemoryPointer \in Nat
          /\ fat[v].FreeMemoryPointer <= fat'[v].FreeMemoryPointer
          /\ FatSize <= fat'[v].FreeMemoryPointer
          /\ fat'[v].FreeMemoryPointer + fat'[v].FreeMemorySize = DeviceSize
      BY <1>2, <1>4, <2>1, <2>3, <3>1, SizesAssumption DEF FatTiled
    <3>7. Tiled(fat'[v], n + 1, fat'[v].FreeMemoryPointer)
      <4> HIDE DEF n
      <4>1. \A j \in 0 .. n : j = n \/ j \in 0 .. n - 1
        BY <1>6
      <4>2. ASSUME NEW j \in 0 .. n
            PROVE  FatSize <= SlotStart(fat'[v], j)
                   /\ SlotEnd(fat'[v], j) <= fat'[v].FreeMemoryPointer
        BY <1>6, <3>1, <3>3, <3>4, <3>5, <3>6, <4>1, SizesAssumption
      <4>3. ASSUME NEW j \in 0 .. n, NEW l \in 0 .. n, j < l
            PROVE  SlotEnd(fat'[v], j) <= SlotStart(fat'[v], l)
        <5>1. j \in 0 .. n - 1
          BY <1>6, <4>3
        <5>2. CASE l = n
          BY <3>3, <3>4, <3>5, <5>1, <5>2
        <5>3. CASE l \in 0 .. n - 1
          BY <3>4, <3>5, <4>3, <5>1, <5>3
        <5> QED BY <4>1, <5>2, <5>3
      <4> QED BY <1>6, <4>2, <4>3 DEF Tiled
    <3> QED BY <3>2, <3>6, <3>7 DEF FatTiled
  <2> QED BY <2>2, <2>3
<1> QED BY <1>5, <1>6, <1>7 DEF n

\* EEFS_LibClose of a created file moves its slot from the free memory to both tables.
LEMMA CloseCreatedTableStep ==
  ASSUME TypeOK, TableInv, NEW d \in Descriptor, fdTable[d].InUse,
         CloseCreated(d), FreeFileDescriptor(d)
  PROVE  TableInv'
<1> SUFFICES ASSUME NEW v \in Device PROVE DeviceInv(v)'
  BY DEF TableInv
<1> DEFINE t == AllocateSlot(inode[v], d)
<1>1. fdTable' = [fdTable EXCEPT ![d] = ZeroDescriptor] /\ ~ ZeroDescriptor.InUse
  BY DEF FreeFileDescriptor, ZeroDescriptor
<1>2. FCREAT \in fdTable[d].Mode
  BY DEF CloseCreated
<1>3. CASE v # fdTable[d].InodeTable
  <2>1. fat'[v] = fat[v] /\ inode'[v] = inode[v]
    BY <1>3 DEF TypeOK, CloseCreated
  <2>2. d \notin Creators(v)
    BY <1>3 DEF Creators, OpenOn
  <2> QED BY <1>1, <2>1, <2>2, OtherDescriptorsKept, DeviceUntouched DEF TableInv
<1>4. CASE v = fdTable[d].InodeTable
  <2>1. d \in Creators(v) /\ DeviceInv(v)
    BY <1>2, <1>4 DEF Creators, OpenOn, TableInv
  <2>2. fat'[v] = UpdatedFat(fat[v], t, fdTable[d].InodeIndex, 2) /\ inode'[v] = t
    BY <1>4 DEF TypeOK, CloseCreated
  <2>3. FatTiled(v)'
    BY <1>4, <2>1, <2>2, UpdatedFatTiled
  <2>4. t \in Table /\ fat[v] \in Table
    BY <1>4, AllocateSlotType DEF TypeOK, FileDescriptor
  <2>5. /\ fdTable[d].InodeIndex = fat[v].NumberOfFiles
        /\ fdTable[d].InodeIndex \in FileIndex
        /\ \A j \in Slots(fat[v]) : t.File[j] = fat[v].File[j]
        /\ t.NumberOfFiles = fat[v].NumberOfFiles + 1
        /\ t.FreeMemoryPointer # 0
    <3>1. FatSize <= fat[v].FreeMemoryPointer /\ fat[v].FreeMemoryPointer \in Nat
      BY <2>1, <2>4 DEF DeviceInv, FatTiled, Table
    <3> HIDE DEF t
    <3>2. \E max \in Nat :
            /\ fat[v].NumberOfFiles \in FileIndex
            /\ fdTable[d].InodeIndex = fat[v].NumberOfFiles
            /\ t.FreeMemoryPointer = fat[v].FreeMemoryPointer + HeaderSize + max
            /\ t.NumberOfFiles = fat[v].NumberOfFiles + 1
            /\ \A j \in Slots(fat[v]) : t.File[j] = fat[v].File[j]
      BY <1>4, <2>1, AllocatedSlot DEF t
    <3> QED BY <3>1, <3>2, SizesAssumption
  <2> HIDE DEF t
  <2>6. /\ fat'[v].FreeMemoryPointer = t.FreeMemoryPointer
        /\ fat'[v].FreeMemorySize = t.FreeMemorySize
        /\ fat'[v].NumberOfFiles = t.NumberOfFiles
        /\ fat'[v].File[fdTable[d].InodeIndex] = t.File[fdTable[d].InodeIndex]
        /\ \A j \in FileIndex \ {fdTable[d].InodeIndex} : fat'[v].File[j] = fat[v].File[j]
    BY <2>2, <2>4, <2>5, UpdatedFatFields
  <2>7. \A j \in Slots(fat'[v]) : inode'[v].File[j] = fat'[v].File[j]
    <3> SUFFICES ASSUME NEW j \in 0 .. fat[v].NumberOfFiles
                 PROVE  t.File[j] = fat'[v].File[j]
      BY <2>2, <2>4, <2>5, <2>6, SizesAssumption DEF Slots, Table
    <3>1. CASE j = fat[v].NumberOfFiles
      BY <2>5, <2>6, <3>1
    <3>2. CASE j # fat[v].NumberOfFiles
      <4>1. j \in Slots(fat[v]) /\ j \in FileIndex
        BY <2>4, <2>5, <3>2, SizesAssumption DEF Slots, FileIndex, Table
      <4> QED BY <2>5, <2>6, <3>2, <4>1
    <3> QED BY <3>1, <3>2
  <2>8. Creators(v)' = {}
    <3>1. Creators(v) = {d}
      BY <2>1 DEF DeviceInv, CreatorOwnsFreeMemory
    <3> QED BY <1>1, <3>1 DEF Creators, OpenOn, TypeOK
  <2>9. Loaded(v)'
    BY <2>2, <2>5 DEF Loaded
  <2>10. InodeFollowsFat(v)'
    BY <2>2, <2>6, <2>7 DEF InodeFollowsFat
  <2>11. DeviceInv(v)'
    BY <2>3, <2>8, <2>9, <2>10 DEF DeviceInv, CreatorOwnsFreeMemory, UnloadedIsZero
  <2> QED BY <2>11
<1> QED BY <1>3, <1>4

\* EEFS_LibClose preserves TableInv.
LEMMA CloseTableStep ==
  ASSUME TypeOK, TableInv, NEW d \in Descriptor, LibClose(d)
  PROVE  TableInv'
<1>1. fdTable[d].InUse /\ FreeFileDescriptor(d)
  BY DEF LibClose, IsValidFileDescriptor
<1>2. CASE CloseCreated(d)
  BY <1>1, <1>2, CloseCreatedTableStep
<1>3. CASE CloseWritten(d) \/ CloseRead(d)
  <2>1. /\ FCREAT \notin fdTable[d].Mode /\ fat' = fat /\ inode' = inode
        /\ fdTable' = [fdTable EXCEPT ![d] = ZeroDescriptor] /\ ~ ZeroDescriptor.InUse
    BY <1>1, <1>3 DEF CloseWritten, CloseRead, FreeFileDescriptor, ZeroDescriptor, image
  <2> QED BY <2>1, OtherDescriptorReplaced
<1> QED BY <1>2, <1>3 DEF LibClose

\* A reset clears RAM; cutting EEFS_LibClose short, it leaves the slots that were in the
\* allocation table.
LEMMA ResetTableStep ==
  ASSUME TypeOK, TableInv, Reset \/ \E d \in Descriptor : ResetDuringClose(d)
  PROVE  TableInv'
<1>1. LibInit
  BY DEF Reset, ResetDuringClose
<1>2. ASSUME NEW v \in Device PROVE FatTiled(v)'
  <2>1. FatTiled(v)
    BY DEF TableInv, DeviceInv
  <2>2. CASE fat'[v] = fat[v]
    BY <2>1, <2>2 DEF FatTiled, Tiled, SlotStart, SlotEnd
  <2>3. CASE fat'[v] # fat[v]
    <3>1. PICK d \in Descriptor : ResetDuringClose(d)
      BY <2>3 DEF Reset, image
    <3>2. fdTable[d].InodeTable = v /\ d \in Creators(v)
      BY <2>3, <3>1
         DEF TypeOK, ResetDuringClose, IsValidFileDescriptor, Creators, OpenOn
    <3>3. PICK k \in {0, 1} : fat'[v] = UpdatedFat(fat[v], AllocateSlot(inode[v], d),
                                                   fdTable[d].InodeIndex, k)
      BY <3>1, <3>2 DEF TypeOK, ResetDuringClose
    <3> QED BY <3>2, <3>3, UpdatedFatTiled DEF TableInv
  <2> QED BY <2>2, <2>3
<1>3. ASSUME NEW v \in Device PROVE Creators(v)' = {} /\ inode'[v] = ZeroTable
  BY <1>1 DEF LibInit, Creators, OpenOn, ZeroDescriptor
<1>4. ~ (ZeroTable.FreeMemoryPointer # 0)
  BY DEF ZeroTable
<1> QED BY <1>2, <1>3, <1>4 DEF TableInv, DeviceInv, InodeFollowsFat,
           CreatorOwnsFreeMemory, UnloadedIsZero, Loaded

(***************************************************************************)
(* Calls that change no table                                              *)
(***************************************************************************)
\* EEFS_LibRead, EEFS_LibWrite and EEFS_LibLSeek only move a descriptor.
LEMMA TransferStep ==
  ASSUME TypeOK, NEW d \in Descriptor,
         \/ \E Length \in Lengths : LibRead(d, Length)
         \/ \E Length \in Lengths, b \in Byte : LibWrite(d, Length, b)
         \/ \E offset \in SeekOffsets, origin \in Origin : LibLSeek(d, offset, origin)
  PROVE  /\ fat' = fat /\ inode' = inode
         /\ \A e \in Descriptor :
              /\ fdTable'[e].InUse = fdTable[e].InUse /\ fdTable'[e].Mode = fdTable[e].Mode
              /\ fdTable'[e].InodeTable = fdTable[e].InodeTable
              /\ fdTable'[e].InodeIndex = fdTable[e].InodeIndex
<1>1. fdTable \in [Descriptor -> FileDescriptor]
  BY DEF TypeOK
<1>2. fat' = fat /\ inode' = inode
  BY DEF LibRead, LibWrite, LibLSeek, image
<1>3. \A e \in Descriptor :
        /\ fdTable'[e].InUse = fdTable[e].InUse /\ fdTable'[e].Mode = fdTable[e].Mode
        /\ fdTable'[e].InodeTable = fdTable[e].InodeTable
        /\ fdTable'[e].InodeIndex = fdTable[e].InodeIndex
  <2> DEFINE Same(f, g) == /\ g.InUse = f.InUse /\ g.Mode = f.Mode
                           /\ g.InodeTable = f.InodeTable /\ g.InodeIndex = f.InodeIndex
  <2>0. ASSUME NEW g, fdTable' = [fdTable EXCEPT ![d] = g], Same(fdTable[d], g)
        PROVE  \A e \in Descriptor : Same(fdTable[e], fdTable'[e])
    <3> SUFFICES ASSUME NEW e \in Descriptor PROVE Same(fdTable[e], fdTable'[e])
      OBVIOUS
    <3>1. fdTable'[e] = IF e = d THEN g ELSE fdTable[e]
      BY <1>1, <2>0
    <3> QED BY <2>0, <3>1
  <2>1. ASSUME NEW p, NEW o,
               \/ fdTable' = [fdTable EXCEPT ![d].FileDataPointer = p, ![d].ByteOffset = o]
               \/ fdTable' = [fdTable EXCEPT ![d].ByteOffset = o, ![d].FileDataPointer = p]
        PROVE  \A e \in Descriptor : Same(fdTable[e], fdTable'[e])
    <3> DEFINE f == fdTable[d]
               g == IF fdTable' = [fdTable EXCEPT ![d].FileDataPointer = p, ![d].ByteOffset = o]
                    THEN [f EXCEPT !.FileDataPointer = p, !.ByteOffset = o]
                    ELSE [f EXCEPT !.ByteOffset = o, !.FileDataPointer = p]
    <3>1. fdTable' = [fdTable EXCEPT ![d] = g]
      BY <1>1, <2>1
    <3>2. Same(f, g)
      BY <1>1 DEF FileDescriptor
    <3> HIDE DEF f, g, Same
    <3> QED BY <2>0, <3>1, <3>2 DEF f
  <2>2. ASSUME NEW Length, LibRead(d, Length)
        PROVE  \E p, o : fdTable' = [fdTable EXCEPT ![d].FileDataPointer = p,
                                                    ![d].ByteOffset = o]
    <3> DEFINE n == BytesToRead(fdTable[d], Length)
    <3>1. fdTable' = [fdTable EXCEPT ![d].FileDataPointer = @ + n, ![d].ByteOffset = @ + n]
      BY <2>2 DEF LibRead
    <3> HIDE DEF n
    <3> QED BY <1>1, <3>1
  <2>3. ASSUME NEW Length, NEW b, LibWrite(d, Length, b)
        PROVE  \E g : /\ fdTable' = [fdTable EXCEPT ![d] = g]
                      /\ g.InUse = fdTable[d].InUse /\ g.Mode = fdTable[d].Mode
                      /\ g.InodeTable = fdTable[d].InodeTable
                      /\ g.InodeIndex = fdTable[d].InodeIndex
    <3> DEFINE f == fdTable[d]
               n == BytesToWrite(f, Length)
               size == IF f.ByteOffset + n > f.FileSize THEN f.ByteOffset + n ELSE f.FileSize
               g == [f EXCEPT !.FileDataPointer = @ + n, !.ByteOffset = @ + n,
                              !.FileSize = size]
    <3>1. fdTable' = [fdTable EXCEPT ![d] = g]
      BY <2>3 DEF LibWrite
    <3> HIDE DEF n, size
    <3>2. /\ g.InUse = f.InUse /\ g.Mode = f.Mode
          /\ g.InodeTable = f.InodeTable /\ g.InodeIndex = f.InodeIndex
      BY <1>1 DEF FileDescriptor
    <3> HIDE DEF g
    <3> QED BY <3>1, <3>2
  <2>4. ASSUME NEW offset, NEW origin, LibLSeek(d, offset, origin)
        PROVE  \E p, o : fdTable' = [fdTable EXCEPT ![d].ByteOffset = o,
                                                    ![d].FileDataPointer = p]
    <3> DEFINE f == fdTable[d]
               target == SeekTarget(f, offset, origin)
               p == IF origin = "SEEK_CUR" /\ target = offset + f.ByteOffset
                    THEN f.FileDataPointer + offset
                    ELSE f.FileHeaderPointer + HeaderSize + target
    <3>1. fdTable' = [fdTable EXCEPT ![d].ByteOffset = target, ![d].FileDataPointer = p]
      BY <2>4 DEF LibLSeek
    <3> HIDE DEF target, p
    <3> QED BY <3>1
  <2>5. \A e \in Descriptor : Same(fdTable[e], fdTable'[e])
    <3> HIDE DEF Same
    <3>1. ASSUME NEW Length, LibRead(d, Length)
          PROVE  \A e \in Descriptor : Same(fdTable[e], fdTable'[e])
      BY <2>1, <2>2, <3>1
    <3>2. ASSUME NEW Length, NEW b, LibWrite(d, Length, b)
          PROVE  \A e \in Descriptor : Same(fdTable[e], fdTable'[e])
      BY <2>0, <2>3, <3>2 DEF Same
    <3>3. ASSUME NEW offset, NEW origin, LibLSeek(d, offset, origin)
          PROVE  \A e \in Descriptor : Same(fdTable[e], fdTable'[e])
      BY <2>1, <2>4, <3>3
    <3> QED BY <3>1, <3>2, <3>3
  <2> QED BY <2>5
<1> QED BY <1>2, <1>3

\* The calls on names and on the directory leave the tables and the descriptors alone.
LEMMA OtherTableStep ==
  ASSUME TableInv, fat' = fat, inode' = inode, fdTable' = fdTable
  PROVE  TableInv'
BY DescriptorsMoved

(***************************************************************************)
(* The theorems                                                            *)
(***************************************************************************)
LEMMA InitTable == Init => TableInv
<1> SUFFICES ASSUME Init, NEW v \in Device PROVE DeviceInv(v)
  BY DEF TableInv
<1>1. fat[v] = EmptyFat /\ inode[v] = ZeroTable /\ Creators(v) = {}
  BY DEF Init, Creators, OpenOn, ZeroDescriptor
<1>2. /\ EmptyFat.NumberOfFiles = 0 /\ EmptyFat.FreeMemoryPointer = FatSize
      /\ EmptyFat.FreeMemorySize = DeviceSize - FatSize
      /\ ZeroTable.FreeMemoryPointer = 0
  BY DEF EmptyFat, ZeroTable
<1>3. FatTiled(v)
  BY <1>1, <1>2, SizesAssumption DEF FatTiled, Tiled
<1> QED BY <1>1, <1>2, <1>3
        DEF DeviceInv, InodeFollowsFat, CreatorOwnsFreeMemory, UnloadedIsZero, Loaded

LEMMA NextTable ==
  ASSUME FlagsSeparateCreat
  PROVE  TypeOK /\ TableInv /\ [Next]_vars => TableInv'
<1> SUFFICES ASSUME TypeOK, TableInv, [Next]_vars PROVE TableInv'
  OBVIOUS
<1>1. CASE Reset \/ \E d \in Descriptor : ResetDuringClose(d)
  BY <1>1, ResetTableStep
<1>2. ASSUME NEW v \in Device, (~ Loaded(v) /\ LibInitFS(v)) \/ LibFreeFS(v)
      PROVE  TableInv'
  BY <1>2, InitFSTableStep, FreeFSTableStep
<1>3. ASSUME NEW v \in Device, NEW n \in Filename,
             \/ \E Flags \in CallerFlags : LibOpen(v, n, Flags)
             \/ \E Attributes \in {NONE, READONLY} : LibCreat(v, n, Attributes)
      PROVE  TableInv'
  <2>1. \/ \E Flags \in CallerFlags \cup {CreatFlags} : LibOpenFile(v, FindFile(v, n), Flags)
        \/ \E Attributes : LibCreatFile(v, n, Attributes)
    BY <1>3 DEF LibOpen, LibCreat
  <2> QED BY <2>1, OpenFileTableStep, CreatFileTableStep DEF FlagsSeparateCreat
<1>4. ASSUME NEW v \in Device, NEW n \in Filename,
             \/ LibRemove(v, n)
             \/ \E new \in Filename : LibRename(v, n, new)
             \/ \E Attributes \in {NONE, READONLY} : LibSetFileAttributes(v, n, Attributes)
      PROVE  TableInv'
  BY <1>4, OtherTableStep DEF LibRemove, LibRename, LibSetFileAttributes, StoreHeader
<1>5. ASSUME NEW d \in Descriptor, LibClose(d)
      PROVE  TableInv'
  BY <1>5, CloseTableStep
<1>6. ASSUME NEW d \in Descriptor,
             \/ \E Length \in Lengths : LibRead(d, Length)
             \/ \E Length \in Lengths, b \in Byte : LibWrite(d, Length, b)
             \/ \E offset \in SeekOffsets, origin \in Origin : LibLSeek(d, offset, origin)
      PROVE  TableInv'
  BY <1>6, TransferStep, DescriptorsMoved
<1>7. CASE (\E v \in Device : LibOpenDir(v)) \/ LibReadDir \/ LibCloseDir
  BY <1>7, OtherTableStep DEF LibOpenDir, LibReadDir, LibCloseDir, image
<1>8. CASE UNCHANGED vars
  BY <1>8, OtherTableStep DEF vars
<1> QED BY <1>1, <1>2, <1>3, <1>4, <1>5, <1>6, <1>7, <1>8 DEF Next

\* When no open of an existing file counts as a creation, the inode tables, the EEPROM
\* allocation tables and the creating descriptors agree for ever, through resets too.
THEOREM TablesAgree ==
  ASSUME FlagsSeparateCreat
  PROVE  Spec => []TableInv
<1>1. TypeOK /\ TableInv /\ [Next]_vars => TableInv'
  BY NextTable
<1> QED BY <1>1, InitTable, TypeCorrect, PTL DEF Spec

\* "verify that eeprom matches ram": it always does.
THEOREM EepromAgrees ==
  ASSUME FlagsSeparateCreat
  PROVE  Spec => []EepromMatchesRam
<1>1. TypeOK /\ TableInv => EepromMatchesRam
  <2> SUFFICES ASSUME TypeOK, TableInv, NEW v \in Device, Loaded(v)
               PROVE  /\ inode[v].NumberOfFiles
                           = fat[v].NumberOfFiles + IF Creators(v) # {} THEN 1 ELSE 0
                      /\ InodeFollowsFat(v)
    BY DEF EepromMatchesRam, InodeFollowsFat
  <2>1. DeviceInv(v) /\ fat[v].NumberOfFiles \in Nat
    BY SizesAssumption DEF TypeOK, TableInv, Table
  <2>2. CASE Creators(v) = {}
    BY <2>1, <2>2 DEF DeviceInv, InodeFollowsFat
  <2>3. CASE Creators(v) # {}
    BY <2>1, <2>3 DEF DeviceInv, CreatorOwnsFreeMemory
  <2> QED BY <2>1, <2>2, <2>3 DEF DeviceInv
<1> QED BY <1>1, TablesAgree, TypeCorrect, PTL

\* The slots of a loaded table are those of the allocation table, which tile the device up
\* to the free memory, and at most one more, which is all of the free memory.
LEMMA LoadedTablesTiled == TypeOK /\ TableInv => SlotsDisjoint
<1> SUFFICES ASSUME TypeOK, TableInv, NEW v \in Device, Loaded(v)
             PROVE  /\ inode[v].NumberOfFiles <= MaxFiles
                    /\ Tiled(inode[v], inode[v].NumberOfFiles, DeviceSize)
  BY DEF SlotsDisjoint
<1> DEFINE t == fat[v]
           n == fat[v].NumberOfFiles
           limit == fat[v].FreeMemoryPointer
<1>1. t \in Table /\ inode[v] \in Table /\ DeviceInv(v)
  BY DEF TypeOK, TableInv
<1>2. n \in Nat /\ n <= MaxFiles /\ limit \in Nat /\ t.FreeMemorySize \in Nat
  BY <1>1, SizesAssumption DEF Table
<1>3. /\ FatSize <= limit /\ limit + t.FreeMemorySize = DeviceSize
      /\ Tiled(t, n, limit)
  BY <1>1 DEF DeviceInv, FatTiled
<1>4. \A i \in 0 .. n - 1 : /\ SlotStart(inode[v], i) = SlotStart(t, i)
                            /\ SlotEnd(inode[v], i) = SlotEnd(t, i)
                            /\ SlotEnd(t, i) \in Nat
  <2>1. \A i \in 0 .. n - 1 : i \in FileIndex /\ inode[v].File[i] = t.File[i]
    BY <1>1, <1>2, SizesAssumption DEF DeviceInv, InodeFollowsFat, Slots, FileIndex
  <2>2. \A i \in 0 .. n - 1 : /\ t.File[i].FileHeaderPointer \in Nat
                              /\ t.File[i].MaxFileSize \in Nat
    BY <1>1, <2>1 DEF Table, Entry
  <2> HIDE DEF n, t
  <2> QED BY <2>1, <2>2, SizesAssumption DEF SlotStart, SlotEnd
<1>5. inode[v].NumberOfFiles <= MaxFiles
  BY <1>1, SizesAssumption DEF Table
<1>6. CASE inode[v].NumberOfFiles = n
  <2> HIDE DEF n, t, limit
  <2> QED BY <1>2, <1>3, <1>4, <1>5, <1>6, SizesAssumption DEF Tiled
<1>7. CASE inode[v].NumberOfFiles # n
  <2>1. /\ inode[v].NumberOfFiles = n + 1 /\ HeaderSize < t.FreeMemorySize
        /\ inode[v].File[n] = [FileHeaderPointer |-> limit,
                               MaxFileSize |-> t.FreeMemorySize - HeaderSize]
    BY <1>1, <1>7 DEF DeviceInv, InodeFollowsFat, CreatorOwnsFreeMemory
  <2>2. SlotStart(inode[v], n) = limit /\ SlotEnd(inode[v], n) = DeviceSize
    BY <1>2, <1>3, <2>1, SizesAssumption DEF SlotStart, SlotEnd
  <2> HIDE DEF n, t, limit
  <2>3. /\ \A i \in 0 .. n - 1 : FatSize <= SlotStart(t, i) /\ SlotEnd(t, i) <= limit
        /\ \A i, j \in 0 .. n - 1 : i < j => SlotEnd(t, i) <= SlotStart(t, j)
    BY <1>3 DEF Tiled
  <2>4. \A i \in 0 .. n : i = n \/ i \in 0 .. n - 1
    BY <1>2
  <2>5. ASSUME NEW i \in 0 .. n
        PROVE  FatSize <= SlotStart(inode[v], i) /\ SlotEnd(inode[v], i) <= DeviceSize
    BY <1>2, <1>3, <1>4, <2>2, <2>3, <2>4, SizesAssumption
  <2>6. ASSUME NEW i \in 0 .. n, NEW j \in 0 .. n, i < j
        PROVE  SlotEnd(inode[v], i) <= SlotStart(inode[v], j)
    <3>1. i \in 0 .. n - 1
      BY <1>2, <2>6
    <3>2. CASE j = n
      BY <1>4, <2>2, <2>3, <3>1, <3>2
    <3>3. CASE j \in 0 .. n - 1
      BY <1>4, <2>3, <2>6, <3>1, <3>3
    <3> QED BY <2>4, <3>2, <3>3
  <2> QED BY <1>2, <1>5, <2>1, <2>5, <2>6 DEF Tiled
<1> QED BY <1>6, <1>7

\* No two slots of a loaded device ever share a byte, not even while a new file owns all
\* of the free memory, and none reaches beyond the device.
THEOREM SlotsNeverOverlap ==
  ASSUME FlagsSeparateCreat
  PROVE  Spec => []SlotsDisjoint
BY LoadedTablesTiled, TablesAgree, TypeCorrect, PTL

\* Once a slot is in the allocation table no call and no reset ever moves it, resizes it
\* or takes it away.
THEOREM SlotsStayFixed ==
  ASSUME FlagsSeparateCreat
  PROVE  Spec => SlotsFixed
<1>1. TypeOK /\ TableInv /\ [Next]_vars =>
        [\A v \in Device :
           /\ fat'[v].NumberOfFiles >= fat[v].NumberOfFiles
           /\ \A i \in Slots(fat[v]) : fat'[v].File[i] = fat[v].File[i]]_vars
  <2> SUFFICES ASSUME TypeOK, TableInv, Next, NEW v \in Device
               PROVE  /\ fat'[v].NumberOfFiles >= fat[v].NumberOfFiles
                      /\ \A i \in Slots(fat[v]) : fat'[v].File[i] = fat[v].File[i]
    OBVIOUS
  <2>1. CASE fat'[v] = fat[v]
    BY <2>1, SizesAssumption DEF TypeOK, Table
  <2>2. CASE \E d \in Descriptor : ResetDuringClose(d) \/ (LibClose(d) /\ CloseCreated(d))
    <3>1. PICK d \in Descriptor : ResetDuringClose(d) \/ (LibClose(d) /\ CloseCreated(d))
      BY <2>2
    <3>2. CASE fdTable[d].InodeTable = v
      <4>1. d \in Creators(v)
        BY <3>1, <3>2
           DEF ResetDuringClose, LibClose, CloseCreated, IsValidFileDescriptor, Creators, OpenOn
      <4>2. PICK k \in {0, 1, 2} :
              fat'[v] = UpdatedFat(fat[v], AllocateSlot(inode[v], d),
                                   fdTable[d].InodeIndex, k)
        BY <3>1, <3>2 DEF TypeOK, ResetDuringClose, CloseCreated
      <4> QED BY <4>1, <4>2, UpdatedFatTiled DEF TableInv
    <3>3. CASE fdTable[d].InodeTable # v
      BY <2>1, <3>1, <3>3 DEF TypeOK, ResetDuringClose, CloseCreated
    <3> QED BY <3>2, <3>3
  <2>3. CASE ~ \E d \in Descriptor : ResetDuringClose(d) \/ (LibClose(d) /\ CloseCreated(d))
    <3>1. /\ \A u : LibInitFS(u) => fat' = fat
          /\ \A u : LibFreeFS(u) => fat' = fat
          /\ \A u : LibOpenDir(u) => fat' = fat
      BY DEF LibInitFS, LibFreeFS, LibOpenDir, image
    <3>2. /\ \A u, i, Flags : LibOpenFile(u, i, Flags) => fat' = fat
          /\ \A u, n, a : LibCreatFile(u, n, a) => fat' = fat
      BY DEF LibOpenFile, LibCreatFile, image
    <3>3. /\ \A u, n, Flags : LibOpen(u, n, Flags) => fat' = fat
          /\ \A u, n, a : LibCreat(u, n, a) => fat' = fat
      BY <3>2 DEF LibOpen, LibCreat
    <3>4. /\ \A u, n : LibRemove(u, n) => fat' = fat
          /\ \A u, n, m : LibRename(u, n, m) => fat' = fat
          /\ \A u, n, a : LibSetFileAttributes(u, n, a) => fat' = fat
      BY DEF LibRemove, LibRename, LibSetFileAttributes, StoreHeader
    <3>5. /\ \A d, Length : LibRead(d, Length) => fat' = fat
          /\ \A d, Length, b : LibWrite(d, Length, b) => fat' = fat
          /\ \A d, offset, origin : LibLSeek(d, offset, origin) => fat' = fat
      BY DEF LibRead, LibWrite, LibLSeek, image
    <3>6. \A d \in Descriptor : LibClose(d) => fat' = fat
      BY <2>3 DEF LibClose, CloseWritten, CloseRead, image
    <3>7. Reset \/ LibReadDir \/ LibCloseDir => fat' = fat
      BY DEF Reset, LibReadDir, LibCloseDir, image
    <3>8. fat' = fat
      <4>1. ASSUME NEW u \in Device, LibInitFS(u) \/ LibFreeFS(u) \/ LibOpenDir(u)
            PROVE  fat' = fat
        BY <3>1, <4>1
      <4>2. ASSUME NEW u \in Device, NEW n \in Filename,
                   \/ \E Flags \in CallerFlags : LibOpen(u, n, Flags)
                   \/ \E a \in {NONE, READONLY} : LibCreat(u, n, a)
                   \/ LibRemove(u, n)
                   \/ \E new \in Filename : LibRename(u, n, new)
                   \/ \E a \in {NONE, READONLY} : LibSetFileAttributes(u, n, a)
            PROVE  fat' = fat
        BY <3>3, <3>4, <4>2
      <4>3. ASSUME NEW d \in Descriptor,
                   \/ LibClose(d)
                   \/ \E Length \in Lengths : LibRead(d, Length)
                   \/ \E Length \in Lengths, b \in Byte : LibWrite(d, Length, b)
                   \/ \E offset \in SeekOffsets, origin \in Origin : LibLSeek(d, offset, origin)
            PROVE  fat' = fat
        BY <3>5, <3>6, <4>3
      <4> QED BY <2>3, <3>7, <4>1, <4>2, <4>3 DEF Next
    <3> QED BY <2>1, <3>8
  <2> QED BY <2>2, <2>3
<1> QED BY <1>1, TablesAgree, TypeCorrect, PTL DEF Spec, SlotsFixed
=============================================================================
