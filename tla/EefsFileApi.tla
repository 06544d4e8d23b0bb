----------------------------- MODULE EefsFileApi -----------------------------
(***************************************************************************)
(* The EEPROM File System library of NoOSv2 (NoOS/src/eefs_fileapi.c): the *)
(* file descriptor table and the directory descriptor shared by all        *)
(* devices, the RAM inode table of each device, and each device's EEPROM   *)
(* image (file allocation table, file headers, file data).                 *)
(*                                                                         *)
(* One action is one complete API call: the program is single threaded and *)
(* EEFS_LIB_LOCK brackets every call.  The only thing that can come        *)
(* between the EEPROM writes of a call is a reset; Close is the one call   *)
(* that makes more than one write, and ResetDuringClose cuts it short.     *)
(*                                                                         *)
(* Pointers into a device are kept as offsets from its BaseAddress, so the *)
(* inode table and the file allocation table have the same shape.  Dates,  *)
(* CRCs and printing are left out.  The write-protect test is FALSE in     *)
(* eefs_macros.h, so the branches it guards cannot be taken.               *)
(***************************************************************************)
EXTENDS Integers, FiniteSets

CONSTANTS
  Device,         \* the inode tables, one per EEPROM device
  Filename,       \* names that pass EEFS_LibIsValidFilename
  NoName,         \* the empty name of a zeroed file header
  NullTable,      \* a NULL InodeTable pointer
  Byte,           \* what callers write into a data cell
  ErasedByte,     \* contents of a cell that was never written
  Pad,            \* a cell of a file header after its first one
  Scrambled,      \* what a file header decodes to once other data overlaps it
  MaxFiles,       \* EEFS_MAX_FILES
  MaxOpenFiles,   \* EEFS_MAX_OPEN_FILES
  FatSize,        \* sizeof(EEFS_FileAllocationTable_t)
  HeaderSize,     \* sizeof(EEFS_FileHeader_t)
  DeviceSize,     \* bytes of EEPROM in a device
  SpareBytes,     \* EEFS_DEFAULT_CREAT_SPARE_BYTES
  HalfWord,       \* 2^31: a uint32 counts to 2 * HalfWord
  O_RDONLY, O_WRONLY, O_RDWR, O_TRUNC, O_CREAT, O_ACCMODE,
  CallerFlags,    \* the Flags callers pass to EEFS_LibOpen
  Lengths,        \* the Lengths callers pass to EEFS_LibWrite and EEFS_LibRead
  SeekOffsets     \* the ByteOffsets callers pass to EEFS_LibLSeek

VARIABLES
  eeprom,                 \* [Device -> cells of the slots]; survives a reset
  fat,                    \* [Device -> file allocation table]; survives a reset
  inode,                  \* [Device -> EEFS_InodeTable_t]
  fdTable,                \* EEFS_FileDescriptorTable
  FileDescriptorsInUse,   \* EEFS_FileDescriptorsInUse
  HighWaterMark,          \* EEFS_FileDescriptorsHighWaterMark
  dir                     \* EEFS_DirectoryDescriptor

image == <<eeprom, fat>>
counters == <<FileDescriptorsInUse, HighWaterMark>>
vars == <<eeprom, fat, inode, fdTable, FileDescriptorsInUse, HighWaterMark, dir>>

ASSUME SizesAssumption ==
  /\ MaxFiles \in Nat \ {0} /\ MaxOpenFiles \in Nat \ {0}
  /\ FatSize \in Nat \ {0} /\ HeaderSize \in Nat \ {0}
  /\ SpareBytes \in Nat
  /\ DeviceSize \in Nat /\ FatSize <= DeviceSize
  /\ HalfWord \in Nat /\ DeviceSize < HalfWord
  /\ O_ACCMODE \in Nat

ASSUME InputsAssumption ==
  /\ NullTable \notin Device
  /\ ErasedByte \notin Byte
  /\ CallerFlags \subseteq Nat /\ Lengths \subseteq Nat /\ SeekOffsets \subseteq Int

(***************************************************************************)
(* Data types                                                              *)
(***************************************************************************)
FileIndex == 0 .. MaxFiles - 1
Descriptor == 0 .. MaxOpenFiles - 1
Address == FatSize .. DeviceSize - 1

\* File attributes and the bits of a descriptor's Mode (numbered from bit 0).
NONE == 0
READONLY == 1
FREAD == 0
FWRITE == 1
FCREAT == 2

\* Error codes.
SUCCESS == 0
INVALID_ARGUMENT == -2
PERMISSION_DENIED == -4
FILE_NOT_FOUND == -5
NO_FREE_FILE_DESCRIPTOR == -6

FileHeader == [InUse : BOOLEAN, Attributes : {NONE, READONLY},
               FileSize : Nat, Filename : Filename \cup {NoName}]
ASSUME ScrambledAssumption == Scrambled \in FileHeader

Entry == [FileHeaderPointer : Nat, MaxFileSize : Nat]
Table == [FreeMemoryPointer : Nat, FreeMemorySize : Nat, NumberOfFiles : 0 .. MaxFiles,
          File : [FileIndex -> Entry]]
FileDescriptor == [InUse : BOOLEAN, Mode : SUBSET Nat,
                   FileHeaderPointer : Nat, FileDataPointer : Int,
                   ByteOffset : Nat, FileSize : Nat, MaxFileSize : Nat,
                   InodeTable : Device \cup {NullTable}, InodeIndex : Int]
DirectoryDescriptor == [InUse : BOOLEAN, InodeIndex : Nat,
                        InodeTable : Device \cup {NullTable}]
Cell == Byte \cup {ErasedByte} \cup FileHeader \cup {Pad}

\* What memset(.., 0, ..) leaves in each structure.
ZeroHeader == [InUse |-> FALSE, Attributes |-> NONE, FileSize |-> 0, Filename |-> NoName]
ZeroTable == [FreeMemoryPointer |-> 0, FreeMemorySize |-> 0, NumberOfFiles |-> 0,
              File |-> [i \in FileIndex |-> [FileHeaderPointer |-> 0, MaxFileSize |-> 0]]]
ZeroDescriptor == [InUse |-> FALSE, Mode |-> {}, FileHeaderPointer |-> 0,
                   FileDataPointer |-> 0, ByteOffset |-> 0, FileSize |-> 0,
                   MaxFileSize |-> 0, InodeTable |-> NullTable, InodeIndex |-> 0]
ZeroDirectory == [InUse |-> FALSE, InodeIndex |-> 0, InodeTable |-> NullTable]

(***************************************************************************)
(* Machine arithmetic.  Both operands of the uint32 subtraction are uint32 *)
(* values, so it wraps at most once.                                       *)
(***************************************************************************)
USub(a, b) == IF a >= b THEN a - b ELSE (a - b) % (2 * HalfWord)
Int32(x) == IF x >= HalfWord THEN x - 2 * HalfWord ELSE x
Lesser(a, b) == IF a > b THEN b ELSE a
RoundUp4(x) == ((x + 3) \div 4) * 4

(***************************************************************************)
(* The open flags are integers combined with & and |, whose values differ  *)
(* between the hosted build (<fcntl.h>) and the bare-metal one (NoOSrt.h). *)
(* Bits(n) is the set of bit positions of n; the flags fit in 10 bits.     *)
(***************************************************************************)
Bits(n) == {b \in 0 .. 9 : (n \div 2^b) % 2 = 1}

SupportedBits == UNION {Bits(f) : f \in {O_RDONLY, O_WRONLY, O_RDWR, O_TRUNC, O_CREAT}}

\* Flags & O_ACCMODE
AccessMode(Flags) ==
  CHOOSE m \in 0 .. O_ACCMODE : Bits(m) = Bits(Flags) \cap Bits(O_ACCMODE)

\* (Flags & O_ACCMODE) + 1
OpenMode(Flags) == Bits(AccessMode(Flags) + 1)

Truncates(Flags) ==
  /\ AccessMode(Flags) \in {O_WRONLY, O_RDWR}
  /\ Bits(Flags) \cap Bits(O_TRUNC) # {}

\* O_WRONLY | O_TRUNC
CreatFlags == CHOOSE f \in 0 .. O_WRONLY + O_TRUNC :
                Bits(f) = Bits(O_WRONLY) \cup Bits(O_TRUNC)

(***************************************************************************)
(* EEPROM access.  A file header occupies HeaderSize cells: the header in  *)
(* the first and Pad in the others, so that any write into those cells is  *)
(* seen by the next read of the header.  What a write puts outside the     *)
(* device is dropped: the code would write the memory beside the image.    *)
(***************************************************************************)
WriteHeader(m, a, h) ==
  [x \in Address |-> IF x = a THEN h
                     ELSE IF a < x /\ x < a + HeaderSize THEN Pad ELSE m[x]]

WriteData(m, a, n, b) ==
  [x \in Address |-> IF a <= x /\ x < a + n THEN b ELSE m[x]]

IntactHeader(m, a) ==
  /\ a \in Address /\ a + HeaderSize - 1 \in Address
  /\ m[a] \in FileHeader
  /\ \A x \in a + 1 .. a + HeaderSize - 1 : m[x] = Pad

HeaderAt(m, a) == IF IntactHeader(m, a) THEN m[a] ELSE Scrambled

\* The header of slot i of device v, as every call that needs it reads it.
Header(v, i) == HeaderAt(eeprom[v], inode[v].File[i].FileHeaderPointer)

Slots(t) == 0 .. t.NumberOfFiles - 1

(***************************************************************************)
(* Look-ups                                                                *)
(***************************************************************************)
FindFile(v, n) ==
  LET hits == {i \in Slots(inode[v]) : Header(v, i).InUse /\ Header(v, i).Filename = n}
  IN  IF hits = {} THEN FILE_NOT_FOUND ELSE CHOOSE i \in hits : \A j \in hits : i <= j

OpenOn(v) == {d \in Descriptor : fdTable[d].InUse /\ fdTable[d].InodeTable = v}
HasOpenFiles(v) == OpenOn(v) # {}

NeverOpenDir(v) == FALSE            \* seeded bug: an open directory is not looked for
HasOpenDir(v) == dir.InUse /\ dir.InodeTable = v

Creators(v) == {d \in OpenOn(v) : FCREAT \in fdTable[d].Mode}
NeverOpenCreat(v) == FALSE          \* seeded bug: creations are not serialised
HasOpenCreat(v) == Creators(v) # {}

NoFmode(v, i) == {}                 \* seeded bug: open descriptors are not looked at
Fmode(v, i) == UNION {fdTable[d].Mode : d \in {e \in OpenOn(v) : fdTable[e].InodeIndex = i}}

FreeDescriptors == {d \in Descriptor : ~ fdTable[d].InUse}

(***************************************************************************)
(* The file descriptor table                                               *)
(***************************************************************************)
\* EEFS_LibGetFileDescriptor followed by the initialisation of the entry.
GetFileDescriptor(f) ==
  LET d == CHOOSE x \in FreeDescriptors : \A y \in FreeDescriptors : x <= y
  IN  /\ FreeDescriptors # {}
      /\ fdTable' = [fdTable EXCEPT ![d] = f]
      /\ FileDescriptorsInUse' = FileDescriptorsInUse + 1
      /\ HighWaterMark' = IF FileDescriptorsInUse + 1 > HighWaterMark
                          THEN FileDescriptorsInUse + 1 ELSE HighWaterMark

FreeWithoutCount(d) ==              \* seeded bug: the counter is not decremented
  /\ fdTable' = [fdTable EXCEPT ![d] = ZeroDescriptor]
  /\ UNCHANGED counters

FreeFileDescriptor(d) ==
  /\ fdTable' = [fdTable EXCEPT ![d] = ZeroDescriptor]
  /\ FileDescriptorsInUse' = USub(FileDescriptorsInUse, 1)
  /\ UNCHANGED HighWaterMark

IsValidFileDescriptor(d) == d \in Descriptor /\ fdTable[d].InUse

(***************************************************************************)
(* Boot and reset                                                          *)
(***************************************************************************)
\* An empty formatted device, as noosfs_init writes it.
EmptyFat == [ZeroTable EXCEPT !.FreeMemoryPointer = FatSize,
                              !.FreeMemorySize = DeviceSize - FatSize]

Init ==
  /\ eeprom = [v \in Device |-> [a \in Address |-> ErasedByte]]
  /\ fat = [v \in Device |-> EmptyFat]
  /\ inode = [v \in Device |-> ZeroTable]
  /\ fdTable = [d \in Descriptor |-> ZeroDescriptor]
  /\ FileDescriptorsInUse = 0
  /\ HighWaterMark = 0
  /\ dir = ZeroDirectory

LibInitOnly ==                      \* seeded bug: the inode tables outlive a reset
  /\ UNCHANGED inode
  /\ fdTable' = [d \in Descriptor |-> ZeroDescriptor]
  /\ FileDescriptorsInUse' = 0
  /\ HighWaterMark' = 0
  /\ dir' = ZeroDirectory

\* EEFS_LibInit; the inode tables are zeroed with the rest of RAM.
LibInit ==
  /\ inode' = [v \in Device |-> ZeroTable]
  /\ fdTable' = [d \in Descriptor |-> ZeroDescriptor]
  /\ FileDescriptorsInUse' = 0
  /\ HighWaterMark' = 0
  /\ dir' = ZeroDirectory

Reset == LibInit /\ UNCHANGED image

Loaded(v) == inode[v].FreeMemoryPointer # 0

LibInitFS(v) ==
  /\ fat[v].NumberOfFiles <= MaxFiles
  /\ inode' = [inode EXCEPT ![v] =
       [fat[v] EXCEPT !.File = [i \in FileIndex |->
          IF i < fat[v].NumberOfFiles THEN fat[v].File[i] ELSE ZeroTable.File[i]]]]
  /\ UNCHANGED <<image, fdTable, counters, dir>>

LibFreeFS(v) ==
  /\ ~ HasOpenFiles(v)
  /\ ~ HasOpenDir(v)
  /\ inode' = [inode EXCEPT ![v] = ZeroTable]
  /\ UNCHANGED <<image, fdTable, counters, dir>>

(***************************************************************************)
(* Opening and creating files                                              *)
(***************************************************************************)
NewDescriptor(v, i, mode, size, max) ==
  LET p == inode'[v].File[i].FileHeaderPointer
  IN  [InUse |-> TRUE, Mode |-> mode, FileHeaderPointer |-> p,
       FileDataPointer |-> p + HeaderSize, ByteOffset |-> 0, FileSize |-> size,
       MaxFileSize |-> max, InodeTable |-> v, InodeIndex |-> i]

\* What EEFS_LibOpenFile answers for slot i: its checks, in its order.
OpenFileStatus(v, i, Flags) ==
  CASE ~ Bits(Flags) \subseteq SupportedBits -> INVALID_ARGUMENT
    [] AccessMode(Flags) # O_RDONLY /\ Header(v, i).Attributes = READONLY -> PERMISSION_DENIED
    [] AccessMode(Flags) # O_RDONLY /\ FWRITE \in Fmode(v, i) -> PERMISSION_DENIED
    [] FreeDescriptors = {} -> NO_FREE_FILE_DESCRIPTOR
    [] OTHER -> SUCCESS

LibOpenFile(v, i, Flags) ==
  /\ OpenFileStatus(v, i, Flags) = SUCCESS
  /\ UNCHANGED <<image, inode, dir>>
  /\ GetFileDescriptor(NewDescriptor(v, i, OpenMode(Flags),
       IF Truncates(Flags) THEN 0 ELSE Header(v, i).FileSize,
       inode[v].File[i].MaxFileSize))

LibCreatFile(v, n, Attributes) ==
  LET t == inode[v]
      i == t.NumberOfFiles
      max == t.FreeMemorySize - HeaderSize
  IN  /\ t.NumberOfFiles < MaxFiles
      /\ ~ HasOpenCreat(v)
      /\ t.FreeMemorySize > HeaderSize
      /\ inode' = [inode EXCEPT ![v].NumberOfFiles = i + 1,
                                ![v].File[i] = [FileHeaderPointer |-> t.FreeMemoryPointer,
                                                MaxFileSize |-> max]]
      /\ eeprom' = [eeprom EXCEPT ![v] = WriteHeader(@, t.FreeMemoryPointer,
                      [InUse |-> TRUE, Attributes |-> Attributes,
                       FileSize |-> 0, Filename |-> n])]
      /\ GetFileDescriptor(NewDescriptor(v, i, {FWRITE, FCREAT}, 0, max))
      /\ UNCHANGED <<fat, dir>>

LibOpen(v, n, Flags) ==
  \/ /\ FindFile(v, n) # FILE_NOT_FOUND
     /\ LibOpenFile(v, FindFile(v, n), Flags)
  \/ /\ FindFile(v, n) = FILE_NOT_FOUND
     /\ Bits(Flags) \cap Bits(O_CREAT) # {}
     /\ LibCreatFile(v, n, NONE)

LibCreat(v, n, Attributes) ==
  \/ /\ FindFile(v, n) # FILE_NOT_FOUND
     /\ LibOpenFile(v, FindFile(v, n), CreatFlags)
  \/ /\ FindFile(v, n) = FILE_NOT_FOUND
     /\ LibCreatFile(v, n, Attributes)

(***************************************************************************)
(* Closing files.  Closing a file that is being created writes the EEPROM  *)
(* three times: the file header, the table entry and, last, the table      *)
(* header that makes the file part of the file system.                     *)
(***************************************************************************)
UncappedSlotSize(size, free) == RoundUp4(size + SpareBytes)   \* seeded bug

\* The final MaxFileSize of a created file of this size.
SlotSize(size, free) ==
  Lesser(RoundUp4(size + SpareBytes), USub(free, HeaderSize))

\* The inode table once the file that descriptor d creates has its final slot.
AllocateSlot(t, d) ==
  LET max == SlotSize(fdTable[d].FileSize, t.FreeMemorySize)
  IN  [t EXCEPT !.FreeMemoryPointer = @ + HeaderSize + max,
                !.FreeMemorySize = USub(@, HeaderSize + max),
                !.File[fdTable[d].InodeIndex].MaxFileSize = max]

HeaderBeforeEntry(f, t, i, k) ==    \* seeded bug: the table header is written first
  IF k = 0 THEN f
  ELSE LET g == [f EXCEPT !.FreeMemoryPointer = t.FreeMemoryPointer,
                          !.FreeMemorySize = t.FreeMemorySize,
                          !.NumberOfFiles = t.NumberOfFiles]
       IN  IF k = 1 THEN g ELSE [g EXCEPT !.File[i] = t.File[i]]

EntryOnly(f, t, i, k) ==            \* seeded bug: the table header is not written
  IF k = 0 THEN f ELSE [f EXCEPT !.File[i] = t.File[i]]

\* The allocation table f after the first k of its two updates from the inode table t.
UpdatedFat(f, t, i, k) ==
  IF k = 0 THEN f
  ELSE LET g == [f EXCEPT !.File[i] = t.File[i]]
       IN  IF k = 1 THEN g
           ELSE [g EXCEPT !.FreeMemoryPointer = t.FreeMemoryPointer,
                          !.FreeMemorySize = t.FreeMemorySize,
                          !.NumberOfFiles = t.NumberOfFiles]

SizeNotStored(m, d) == m            \* seeded bug: the file header keeps its old size

\* The device's cells with d's file size in the file header.
StoreFileSize(m, d) ==
  LET p == fdTable[d].FileHeaderPointer
  IN  WriteHeader(m, p, [HeaderAt(m, p) EXCEPT !.FileSize = fdTable[d].FileSize])

CloseCreated(d) ==
  LET v == fdTable[d].InodeTable
      t == AllocateSlot(inode[v], d)
  IN  /\ FCREAT \in fdTable[d].Mode
      /\ inode' = [inode EXCEPT ![v] = t]
      /\ eeprom' = [eeprom EXCEPT ![v] = StoreFileSize(@, d)]
      /\ fat' = [fat EXCEPT ![v] = UpdatedFat(@, t, fdTable[d].InodeIndex, 2)]

CloseWritten(d) ==
  /\ FCREAT \notin fdTable[d].Mode
  /\ FWRITE \in fdTable[d].Mode
  /\ eeprom' = [eeprom EXCEPT ![fdTable[d].InodeTable] = StoreFileSize(@, d)]
  /\ UNCHANGED <<fat, inode>>

CloseRead(d) ==
  /\ fdTable[d].Mode \cap {FCREAT, FWRITE} = {}
  /\ UNCHANGED <<image, inode>>

LibClose(d) ==
  /\ IsValidFileDescriptor(d)
  /\ CloseCreated(d) \/ CloseWritten(d) \/ CloseRead(d)
  /\ FreeFileDescriptor(d)
  /\ UNCHANGED dir

\* A reset after the first write of a close, or after the second.
ResetDuringClose(d) ==
  LET v == fdTable[d].InodeTable
  IN  /\ IsValidFileDescriptor(d)
      /\ FCREAT \in fdTable[d].Mode
      /\ eeprom' = [eeprom EXCEPT ![v] = StoreFileSize(@, d)]
      /\ \E k \in {0, 1} :
           fat' = [fat EXCEPT ![v] = UpdatedFat(@, AllocateSlot(inode[v], d),
                                                fdTable[d].InodeIndex, k)]
      /\ LibInit

(***************************************************************************)
(* Reading, writing and seeking                                            *)
(***************************************************************************)
BytesToRead(f, Length) == Lesser(USub(f.FileSize, f.ByteOffset), Length)

LibRead(d, Length) ==
  LET n == BytesToRead(fdTable[d], Length)
  IN  /\ IsValidFileDescriptor(d)
      /\ FREAD \in fdTable[d].Mode
      /\ fdTable' = [fdTable EXCEPT ![d].FileDataPointer = @ + n, ![d].ByteOffset = @ + n]
      /\ UNCHANGED <<image, inode, counters, dir>>

WholeLength(f, Length) == Length    \* seeded bug: the slot size does not limit a write
BytesToWrite(f, Length) == Lesser(USub(f.MaxFileSize, f.ByteOffset), Length)

LibWrite(d, Length, b) ==
  LET f == fdTable[d]
      n == BytesToWrite(f, Length)
  IN  /\ IsValidFileDescriptor(d)
      /\ FWRITE \in f.Mode
      /\ eeprom' = [eeprom EXCEPT ![f.InodeTable] = WriteData(@, f.FileDataPointer, n, b)]
      /\ fdTable' = [fdTable EXCEPT
           ![d] = [f EXCEPT !.FileDataPointer = @ + n, !.ByteOffset = @ + n,
                            !.FileSize = IF f.ByteOffset + n > @ THEN f.ByteOffset + n ELSE @]]
      /\ UNCHANGED <<fat, inode, counters, dir>>

Origin == {"SEEK_SET", "SEEK_CUR", "SEEK_END"}

UnclampedSeek(f, offset, origin) ==  \* seeded bug: seeking beyond the end is allowed
  CASE origin = "SEEK_SET" -> offset
    [] origin = "SEEK_CUR" -> offset + f.ByteOffset
    [] origin = "SEEK_END" -> offset + f.FileSize

\* The new ByteOffset of a descriptor, or INVALID_ARGUMENT.
SeekTarget(f, offset, origin) ==
  LET size == f.FileSize
      current == Int32(offset + f.ByteOffset)
  IN  CASE origin = "SEEK_SET" ->
             IF offset < 0 THEN INVALID_ARGUMENT
             ELSE IF offset > Int32(size) THEN size ELSE offset
        [] origin = "SEEK_CUR" ->
             IF current < 0 THEN INVALID_ARGUMENT
             ELSE IF current > Int32(size) THEN size ELSE current
        [] origin = "SEEK_END" ->
             IF Int32(offset + size) < 0 THEN INVALID_ARGUMENT
             ELSE IF offset > 0 THEN size ELSE size + offset

LibLSeek(d, offset, origin) ==
  LET f == fdTable[d]
      target == SeekTarget(f, offset, origin)
  IN  /\ IsValidFileDescriptor(d)
      /\ target # INVALID_ARGUMENT
      /\ fdTable' = [fdTable EXCEPT
           ![d].ByteOffset = target,
           ![d].FileDataPointer =
             IF origin = "SEEK_CUR" /\ target = offset + f.ByteOffset
             THEN @ + offset ELSE f.FileHeaderPointer + HeaderSize + target]
      /\ UNCHANGED <<image, inode, counters, dir>>

(***************************************************************************)
(* Operations on names: each rewrites the whole file header of one slot    *)
(***************************************************************************)
StoreHeader(v, i, h) ==
  /\ eeprom' = [eeprom EXCEPT ![v] = WriteHeader(@, inode[v].File[i].FileHeaderPointer, h)]
  /\ UNCHANGED <<fat, inode, fdTable, counters, dir>>

LibRemove(v, n) ==
  LET i == FindFile(v, n)
  IN  /\ i # FILE_NOT_FOUND
      /\ Header(v, i).Attributes # READONLY
      /\ Fmode(v, i) = {}
      /\ StoreHeader(v, i, ZeroHeader)

OverwritingRename(v, old, new) ==   \* seeded bug: the new name is not looked up
  LET i == FindFile(v, old)
  IN  /\ i # FILE_NOT_FOUND
      /\ Header(v, i).Attributes # READONLY
      /\ StoreHeader(v, i, [Header(v, i) EXCEPT !.Filename = new])

LibRename(v, old, new) ==
  LET i == FindFile(v, old)
  IN  /\ FindFile(v, new) = FILE_NOT_FOUND
      /\ i # FILE_NOT_FOUND
      /\ Header(v, i).Attributes # READONLY
      /\ StoreHeader(v, i, [Header(v, i) EXCEPT !.Filename = new])

LibSetFileAttributes(v, n, Attributes) ==
  LET i == FindFile(v, n)
  IN  /\ i # FILE_NOT_FOUND
      /\ StoreHeader(v, i, [Header(v, i) EXCEPT !.Attributes = Attributes])

\* What EEFS_LibStat and EEFS_LibFstat report: of the slot that has the name, and of
\* the header the descriptor points at.  Neither changes anything.
StatOf(i, h) == [InodeIndex |-> i, Attributes |-> h.Attributes,
                 FileSize |-> h.FileSize, Filename |-> h.Filename]
LibStat(v, n) ==
  LET i == FindFile(v, n)
  IN  IF i = FILE_NOT_FOUND THEN FILE_NOT_FOUND ELSE StatOf(i, Header(v, i))
LibFstat(d) ==
  LET f == fdTable[d]
  IN  StatOf(f.InodeIndex, HeaderAt(eeprom[f.InodeTable], f.FileHeaderPointer))

(***************************************************************************)
(* The directory.  Callers use a descriptor only while it is open.         *)
(***************************************************************************)
LibOpenDir(v) ==
  /\ ~ dir.InUse
  /\ dir' = [InUse |-> TRUE, InodeIndex |-> 0, InodeTable |-> v]
  /\ UNCHANGED <<image, inode, fdTable, counters>>

SameEntry ==                        \* seeded bug: the directory does not move on
  /\ dir.InUse
  /\ dir.InodeIndex < inode[dir.InodeTable].NumberOfFiles
  /\ UNCHANGED <<image, inode, fdTable, counters, dir>>

LibReadDir ==
  /\ dir.InUse
  /\ dir.InodeIndex < inode[dir.InodeTable].NumberOfFiles
  /\ dir' = [dir EXCEPT !.InodeIndex = @ + 1]
  /\ UNCHANGED <<image, inode, fdTable, counters>>

LibCloseDir ==
  /\ dir.InUse
  /\ dir' = ZeroDirectory
  /\ UNCHANGED <<image, inode, fdTable, counters>>

(***************************************************************************)
(* The specification.  EEFS_LibInitFS is called on a table that no device  *)
(* uses: EEFS_InitFS, its only caller, has just taken it from the device   *)
(* table.                                                                  *)
(***************************************************************************)
Next ==
  \/ Reset
  \/ \E v \in Device :
       \/ ~ Loaded(v) /\ LibInitFS(v)
       \/ LibFreeFS(v)
       \/ LibOpenDir(v)
       \/ \E n \in Filename :
            \/ \E Flags \in CallerFlags : LibOpen(v, n, Flags)
            \/ \E Attributes \in {NONE, READONLY} : LibCreat(v, n, Attributes)
            \/ LibRemove(v, n)
            \/ \E new \in Filename : LibRename(v, n, new)
            \/ \E Attributes \in {NONE, READONLY} : LibSetFileAttributes(v, n, Attributes)
  \/ \E d \in Descriptor :
       \/ LibClose(d)
       \/ ResetDuringClose(d)
       \/ \E Length \in Lengths : LibRead(d, Length)
       \/ \E Length \in Lengths, b \in Byte : LibWrite(d, Length, b)
       \/ \E offset \in SeekOffsets, origin \in Origin : LibLSeek(d, offset, origin)
  \/ LibReadDir
  \/ LibCloseDir

Spec == Init /\ [][Next]_vars

(***************************************************************************)
(* Invariants                                                              *)
(***************************************************************************)
\* Every variable holds a value of its C type: sizes and offsets never go below
\* zero, whatever the calls, although LSeek and Close compute them by subtraction.
TypeOK ==
  /\ eeprom \in [Device -> [Address -> Cell]]
  /\ fat \in [Device -> Table]
  /\ inode \in [Device -> Table]
  /\ fdTable \in [Descriptor -> FileDescriptor]
  /\ FileDescriptorsInUse \in Nat
  /\ HighWaterMark \in Nat
  /\ dir \in DirectoryDescriptor

SlotStart(t, i) == t.File[i].FileHeaderPointer
SlotEnd(t, i) == SlotStart(t, i) + HeaderSize + t.File[i].MaxFileSize

\* The first n slots of table t follow one another from FatSize up to limit.
Tiled(t, n, limit) ==
  /\ \A i \in 0 .. n - 1 : FatSize <= SlotStart(t, i) /\ SlotEnd(t, i) <= limit
  /\ \A i, j \in 0 .. n - 1 : i < j => SlotEnd(t, i) <= SlotStart(t, j)

\* No two slots of a device share a byte and none leaves the device, also while a
\* new file provisionally owns all free memory (EEFS_LibCreatFile) and after its
\* slot is cut to size (EEFS_LibClose).
SlotsDisjoint ==
  \A v \in Device : Loaded(v) =>
    /\ inode[v].NumberOfFiles <= MaxFiles
    /\ Tiled(inode[v], inode[v].NumberOfFiles, DeviceSize)

\* "verify that eeprom matches ram" (EEFS_LibChkDsk): the EEPROM allocation table
\* is the RAM inode table less the file that is being created, if any.
EepromMatchesRam ==
  \A v \in Device : Loaded(v) =>
    /\ inode[v].NumberOfFiles = fat[v].NumberOfFiles + IF Creators(v) # {} THEN 1 ELSE 0
    /\ \A i \in Slots(fat[v]) : inode[v].File[i] = fat[v].File[i]
    /\ inode[v].FreeMemoryPointer = fat[v].FreeMemoryPointer
    /\ inode[v].FreeMemorySize = fat[v].FreeMemorySize

\* Whatever instant a reset strikes at, EEFS_LibInitFS finds a consistent image:
\* slots below the free memory, free memory up to the end of the device, and in
\* each slot an intact file header whose file fits and whose name is its own.
MountableImage ==
  \A v \in Device :
    LET t == fat[v]
        header(i) == HeaderAt(eeprom[v], t.File[i].FileHeaderPointer)
    IN  /\ t.NumberOfFiles <= MaxFiles
        /\ Tiled(t, t.NumberOfFiles, t.FreeMemoryPointer)
        /\ t.FreeMemoryPointer + t.FreeMemorySize = DeviceSize
        /\ \A i \in Slots(t) : /\ IntactHeader(eeprom[v], t.File[i].FileHeaderPointer)
                               /\ header(i).FileSize <= t.File[i].MaxFileSize
        /\ \A i, j \in Slots(t) :
             header(i).InUse /\ header(j).InUse /\ header(i).Filename = header(j).Filename
               => i = j

\* No two files of a device have the same name, counting the one being created.
UniqueNames ==
  \A v \in Device : \A i, j \in Slots(inode[v]) :
    /\ Header(v, i).InUse /\ Header(v, j).InUse
    /\ Header(v, i).Filename = Header(v, j).Filename
    => i = j

\* An open descriptor's file is never deleted under it, and no file is open for
\* writing twice ("files cannot be opened more than once for shared write access").
OpenFilesProtected ==
  \A d \in Descriptor : fdTable[d].InUse =>
    LET f == fdTable[d]
    IN  /\ f.InodeIndex \in Slots(inode[f.InodeTable])
        /\ Header(f.InodeTable, f.InodeIndex).InUse
        /\ FWRITE \in f.Mode => \A e \in Descriptor \ {d} :
             ~ /\ fdTable[e].InUse /\ FWRITE \in fdTable[e].Mode
               /\ fdTable[e].InodeTable = f.InodeTable
               /\ fdTable[e].InodeIndex = f.InodeIndex

\* A descriptor stays inside its file: its cached offset, size and pointers agree
\* with one another and with the slot, although Close of a created file shrinks the
\* slot and other descriptors of the same file keep the sizes they were opened with.
DescriptorsInBounds ==
  \A d \in Descriptor : fdTable[d].InUse =>
    LET f == fdTable[d]
        entry == inode[f.InodeTable].File[f.InodeIndex]
    IN  /\ f.FileHeaderPointer = entry.FileHeaderPointer
        /\ f.ByteOffset <= f.FileSize /\ f.FileSize <= entry.MaxFileSize
        /\ f.FileDataPointer = f.FileHeaderPointer + HeaderSize + f.ByteOffset
        /\ FWRITE \in f.Mode => f.MaxFileSize = entry.MaxFileSize

\* EEFS_LibFstat of an open file and EEFS_LibStat of the name it reports tell the same,
\* also of a file that is being created, renamed or given attributes while it is open.
StatsAgree ==
  \A d \in Descriptor : fdTable[d].InUse =>
    LibStat(fdTable[d].InodeTable, LibFstat(d).Filename) = LibFstat(d)

\* The usage counters agree with the descriptor table.
DescriptorAccounting ==
  /\ FileDescriptorsInUse = Cardinality({d \in Descriptor : fdTable[d].InUse})
  /\ FileDescriptorsInUse <= HighWaterMark /\ HighWaterMark <= MaxOpenFiles

\* The open directory never points past the slots of its table: no call takes slots
\* away from a table, or the table itself, while the directory is being read.
DirectoryInBounds ==
  dir.InUse => dir.InodeIndex <= inode[dir.InodeTable].NumberOfFiles

(***************************************************************************)
(* The inductive invariant behind SlotsDisjoint, EepromMatchesRam and      *)
(* SlotsFixed                                                              *)
(***************************************************************************)
\* In the allocation table the slots tile the device up to the free memory.
FatTiled(v) ==
  /\ FatSize <= fat[v].FreeMemoryPointer
  /\ fat[v].FreeMemoryPointer + fat[v].FreeMemorySize = DeviceSize
  /\ Tiled(fat[v], fat[v].NumberOfFiles, fat[v].FreeMemoryPointer)

\* A loaded inode table has the free memory and the slots of the allocation table, and
\* no slot more unless a file is being created.
InodeFollowsFat(v) ==
  Loaded(v) =>
    /\ inode[v].FreeMemoryPointer = fat[v].FreeMemoryPointer
    /\ inode[v].FreeMemorySize = fat[v].FreeMemorySize
    /\ \A i \in Slots(fat[v]) : inode[v].File[i] = fat[v].File[i]
    /\ Creators(v) = {} => inode[v].NumberOfFiles = fat[v].NumberOfFiles

\* A descriptor that creates a file is alone in doing so on its device, and its slot is
\* the one after those in the allocation table: all of the free memory.
CreatorOwnsFreeMemory(v) ==
  \A c \in Creators(v) :
    /\ \A e \in Creators(v) : e = c
    /\ fdTable[c].InodeIndex = fat[v].NumberOfFiles
    /\ inode[v].NumberOfFiles = fat[v].NumberOfFiles + 1
    /\ HeaderSize < fat[v].FreeMemorySize
    /\ inode[v].File[fat[v].NumberOfFiles] =
         [FileHeaderPointer |-> fat[v].FreeMemoryPointer,
          MaxFileSize |-> fat[v].FreeMemorySize - HeaderSize]

\* A table that is not loaded is all zero and nothing is created through it.
UnloadedIsZero(v) ==
  ~ Loaded(v) => inode[v] = ZeroTable /\ Creators(v) = {}

DeviceInv(v) ==
  FatTiled(v) /\ InodeFollowsFat(v) /\ CreatorOwnsFreeMemory(v) /\ UnloadedIsZero(v)

\* The tables in RAM and EEPROM and the creating descriptors agree, on every device.
TableInv == \A v \in Device : DeviceInv(v)

\* No open of an existing file by these flags makes its descriptor a creating one.
FlagsSeparateCreat ==
  \A Flags \in CallerFlags \cup {CreatFlags} : FCREAT \notin OpenMode(Flags)

\* Every open by these flags is for reading or writing, and the ones for writing are
\* those that EEFS_LibOpenFile takes for such, by their access mode.
FlagsSeparateWriters ==
  \A Flags \in CallerFlags \cup {CreatFlags} :
    /\ OpenMode(Flags) # {}
    /\ FWRITE \in OpenMode(Flags) => AccessMode(Flags) # O_RDONLY

\* What is opened by these flags can be read or written, and only an open for writing
\* truncates a file.
FlagsTruncateToWrite ==
  \A Flags \in CallerFlags \cup {CreatFlags} :
    /\ OpenMode(Flags) \cap {FREAD, FWRITE} # {}
    /\ Truncates(Flags) => FWRITE \in OpenMode(Flags)

(***************************************************************************)
(* Action properties                                                       *)
(***************************************************************************)
\* "Each slot is a fixed size contiguous region": once in the allocation table a
\* slot never moves, changes size or disappears, through calls and resets alike.
SlotsFixed ==
  [][\A v \in Device :
       /\ fat'[v].NumberOfFiles >= fat[v].NumberOfFiles
       /\ \A i \in Slots(fat[v]) : fat'[v].File[i] = fat[v].File[i]]_vars

\* The data of a file in the allocation table changes only in a step that moves
\* forward a descriptor open on that file for writing.
DataChangesByItsWriter ==
  [][\A v \in Device : \A i \in Slots(fat[v]) :
       (\E a \in SlotStart(fat[v], i) + HeaderSize .. SlotEnd(fat[v], i) - 1 :
          eeprom'[v][a] # eeprom[v][a])
       => \E d \in OpenOn(v) :
            /\ fdTable[d].InodeIndex = i /\ FWRITE \in fdTable[d].Mode
            /\ fdTable'[d].ByteOffset > fdTable[d].ByteOffset]_vars

\* EEFS_LibCreat's contract: an existing file "is opened for write access and the
\* file is truncated".
CreatTruncates ==
  [][\A v \in Device, n \in Filename, a \in {NONE, READONLY} :
       FindFile(v, n) # FILE_NOT_FOUND /\ LibCreat(v, n, a)
       => \A d \in FreeDescriptors : fdTable'[d].InUse => fdTable'[d].FileSize = 0]_vars

\* EEFS_LibOpen's contract: without O_CREAT, opening a name that no file has is
\* EEFS_FILE_NOT_FOUND, so it opens nothing.
OpenNeedsFile ==
  [][\A v \in Device, n \in Filename, Flags \in CallerFlags \ {O_CREAT} :
       FindFile(v, n) = FILE_NOT_FOUND => ~ LibOpen(v, n, Flags)]_vars
=============================================================================
