------------------------- MODULE EefsFileApiUseProofs -------------------------
(***************************************************************************)
(* What the library keeps count of: the descriptors in use, and the slots  *)
(* the open directory may still read.  Nothing here depends on the values  *)
(* of the open flags, so it holds for the bare-metal build too.            *)
(***************************************************************************)
EXTENDS EefsFileApiProofs, FiniteSetTheorems

(***************************************************************************)
(* The descriptors in use                                                  *)
(***************************************************************************)
InUse == {d \in Descriptor : fdTable[d].InUse}

\* There are at most MaxOpenFiles of them.
LEMMA InUseIsSmall ==
  /\ IsFiniteSet(InUse) /\ Cardinality(InUse) \in Nat
  /\ Cardinality(InUse) <= MaxOpenFiles
<1>1. IsFiniteSet(Descriptor) /\ Cardinality(Descriptor) = MaxOpenFiles
  BY FS_Interval, SizesAssumption DEF Descriptor
<1>2. InUse \in SUBSET Descriptor
  BY DEF InUse
<1>3. IsFiniteSet(InUse) /\ Cardinality(InUse) <= Cardinality(Descriptor)
  BY <1>1, <1>2, FS_Subset
<1> QED BY <1>1, <1>3, FS_CardinalityType

\* EEFS_LibGetFileDescriptor counts the descriptor it takes, and one that was free.
LEMMA TakenIsCounted ==
  ASSUME TypeOK, DescriptorAccounting, NEW f, f.InUse, GetFileDescriptor(f)
  PROVE  DescriptorAccounting'
<1>1. PICK d \in FreeDescriptors : fdTable' = [fdTable EXCEPT ![d] = f]
  BY GetFileDescriptorStep
<1>2. /\ FileDescriptorsInUse' = FileDescriptorsInUse + 1
      /\ HighWaterMark' = IF FileDescriptorsInUse + 1 > HighWaterMark
                          THEN FileDescriptorsInUse + 1 ELSE HighWaterMark
  BY DEF GetFileDescriptor
<1>3. InUse' = InUse \cup {d} /\ d \notin InUse
  BY <1>1 DEF InUse, FreeDescriptors, TypeOK
<1>4. Cardinality(InUse') = Cardinality(InUse) + 1
  BY <1>3, InUseIsSmall, FS_AddElement
<1>5. Cardinality(InUse') <= MaxOpenFiles
  <2>1. InUse' \in SUBSET Descriptor
    BY DEF InUse
  <2>2. IsFiniteSet(Descriptor) /\ Cardinality(Descriptor) = MaxOpenFiles
    BY FS_Interval, SizesAssumption DEF Descriptor
  <2> QED BY <2>1, <2>2, FS_Subset
<1> QED BY <1>2, <1>4, <1>5, InUseIsSmall, SizesAssumption
        DEF DescriptorAccounting, InUse, TypeOK

\* EEFS_LibFreeFileDescriptor uncounts the descriptor it frees, and one that was in use.
LEMMA FreedIsUncounted ==
  ASSUME TypeOK, DescriptorAccounting, NEW d \in Descriptor, fdTable[d].InUse,
         FreeFileDescriptor(d)
  PROVE  DescriptorAccounting'
<1>1. /\ fdTable' = [fdTable EXCEPT ![d] = ZeroDescriptor] /\ ~ ZeroDescriptor.InUse
      /\ FileDescriptorsInUse' = USub(FileDescriptorsInUse, 1)
      /\ HighWaterMark' = HighWaterMark
  BY DEF FreeFileDescriptor, ZeroDescriptor, counters
<1>2. InUse' = InUse \ {d} /\ d \in InUse
  BY <1>1 DEF InUse, TypeOK
<1>3. Cardinality(InUse') = Cardinality(InUse) - 1 /\ Cardinality(InUse') \in Nat
  <2>1. IsFiniteSet(InUse') /\ Cardinality(InUse') = Cardinality(InUse) - 1
    BY <1>2, InUseIsSmall, FS_RemoveElement
  <2> QED BY <2>1, FS_CardinalityType
<1>4. FileDescriptorsInUse = Cardinality(InUse) /\ FileDescriptorsInUse >= 1
  BY <1>3, InUseIsSmall DEF DescriptorAccounting, InUse
<1>5. USub(FileDescriptorsInUse, 1) = FileDescriptorsInUse - 1
  BY <1>4, InUseIsSmall DEF USub
<1> QED BY <1>1, <1>3, <1>4, <1>5, InUseIsSmall, SizesAssumption
        DEF DescriptorAccounting, InUse, TypeOK

\* Clearing RAM frees all descriptors and uncounts them.
LEMMA ClearedIsUncounted ==
  ASSUME LibInit
  PROVE  DescriptorAccounting'
<1>1. /\ {d \in Descriptor : fdTable'[d].InUse} = {}
      /\ FileDescriptorsInUse' = 0 /\ HighWaterMark' = 0
  BY DEF LibInit, ZeroDescriptor
<1> QED BY <1>1, FS_EmptySet, SizesAssumption DEF DescriptorAccounting

\* A call that takes and frees no descriptor counts none.
LEMMA CountUntouched ==
  ASSUME DescriptorAccounting, UNCHANGED counters,
         \A d \in Descriptor : fdTable'[d].InUse = fdTable[d].InUse
  PROVE  DescriptorAccounting'
<1>1. {d \in Descriptor : fdTable'[d].InUse} = {d \in Descriptor : fdTable[d].InUse}
  OBVIOUS
<1> QED BY <1>1 DEF DescriptorAccounting, counters

LEMMA AccountingStep ==
  ASSUME TypeOK, DescriptorAccounting, [Next]_vars
  PROVE  DescriptorAccounting'
<1>1. CASE Reset \/ \E d \in Descriptor : ResetDuringClose(d)
  BY <1>1, ClearedIsUncounted DEF Reset, ResetDuringClose
<1>2. ASSUME NEW v \in Device, NEW n \in Filename,
             \/ \E Flags \in CallerFlags : LibOpen(v, n, Flags)
             \/ \E Attributes \in {NONE, READONLY} : LibCreat(v, n, Attributes)
      PROVE  DescriptorAccounting'
  <2>1. \/ \E i, Flags : LibOpenFile(v, i, Flags)
        \/ \E Attributes : LibCreatFile(v, n, Attributes)
    BY <1>2 DEF LibOpen, LibCreat
  <2>2. \E f : f.InUse /\ GetFileDescriptor(f)
    BY <2>1 DEF LibOpenFile, LibCreatFile, NewDescriptor
  <2> QED BY <2>2, TakenIsCounted
<1>3. ASSUME NEW d \in Descriptor, LibClose(d)
      PROVE  DescriptorAccounting'
  BY <1>3, FreedIsUncounted DEF LibClose, IsValidFileDescriptor
<1>4. ASSUME NEW d \in Descriptor,
             \/ \E Length \in Lengths : LibRead(d, Length)
             \/ \E Length \in Lengths, b \in Byte : LibWrite(d, Length, b)
             \/ \E offset \in SeekOffsets, origin \in Origin : LibLSeek(d, offset, origin)
      PROVE  DescriptorAccounting'
  BY <1>4, TransferStep, CountUntouched DEF LibRead, LibWrite, LibLSeek
<1>5. CASE \/ \E v \in Device :
                \/ LibInitFS(v) \/ LibFreeFS(v) \/ LibOpenDir(v)
                \/ \E n \in Filename :
                     \/ LibRemove(v, n)
                     \/ \E new \in Filename : LibRename(v, n, new)
                     \/ \E Attributes \in {NONE, READONLY} :
                          LibSetFileAttributes(v, n, Attributes)
           \/ LibReadDir \/ LibCloseDir \/ UNCHANGED vars
  <2>1. UNCHANGED counters /\ fdTable' = fdTable
    BY <1>5 DEF LibInitFS, LibFreeFS, LibOpenDir, LibRemove, LibRename, LibSetFileAttributes,
                StoreHeader, LibReadDir, LibCloseDir, vars, counters
  <2> QED BY <2>1, CountUntouched
<1> QED BY <1>1, <1>2, <1>3, <1>4, <1>5 DEF Next

\* EEFS_FileDescriptorsInUse is the number of descriptors in use, and no more than the
\* high water mark, which is no more than the table has; through failing calls and resets.
THEOREM DescriptorsAreCounted == Spec => []DescriptorAccounting
<1>1. Init => DescriptorAccounting
  <2> SUFFICES ASSUME Init PROVE DescriptorAccounting
    OBVIOUS
  <2>1. /\ {d \in Descriptor : fdTable[d].InUse} = {}
        /\ FileDescriptorsInUse = 0 /\ HighWaterMark = 0
    BY DEF Init, ZeroDescriptor
  <2> QED BY <2>1, FS_EmptySet, SizesAssumption DEF DescriptorAccounting
<1>2. TypeOK /\ DescriptorAccounting /\ [Next]_vars => DescriptorAccounting'
  BY AccountingStep
<1> QED BY <1>1, <1>2, TypeCorrect, PTL DEF Spec

(***************************************************************************)
(* The tables in use                                                       *)
(***************************************************************************)
\* A device that can be mounted has a place for free memory, and a table that is not
\* loaded is empty, with no file open on it.
OpenIsLoaded ==
  \A v \in Device :
    /\ fat[v].FreeMemoryPointer # 0
    /\ ~ Loaded(v) => inode[v] = ZeroTable /\ OpenOn(v) = {}

DirectoryOnDevice == dir.InUse => dir.InodeTable \in Device

\* The inductive invariant behind DirectoryInBounds.
UseInv == OpenIsLoaded /\ DirectoryOnDevice /\ DirectoryInBounds

\* A call that leaves the inode tables alone and opens nothing on an unloaded one.
LEMMA SameTables ==
  ASSUME OpenIsLoaded, inode' = inode,
         \A v \in Device : fat'[v].FreeMemoryPointer = fat[v].FreeMemoryPointer,
         \A v \in Device : Loaded(v) \/ OpenOn(v)' \subseteq OpenOn(v)
  PROVE  /\ OpenIsLoaded'
         /\ \A v \in Device : inode'[v].NumberOfFiles = inode[v].NumberOfFiles
BY DEF OpenIsLoaded, Loaded

\* A file is opened only in a loaded table, and only its descriptor is taken.
LEMMA OpenedIsLoaded ==
  ASSUME TypeOK, OpenIsLoaded, NEW v \in Device, NEW f, f.InodeTable = v,
         GetFileDescriptor(f), Loaded(v)
  PROVE  \A u \in Device : Loaded(u) \/ OpenOn(u)' \subseteq OpenOn(u)
<1>1. PICK d \in FreeDescriptors : fdTable' = [fdTable EXCEPT ![d] = f]
  BY GetFileDescriptorStep
<1>2. \A e \in Descriptor : (e = d /\ fdTable'[e].InodeTable = v) \/ fdTable'[e] = fdTable[e]
  BY <1>1 DEF TypeOK, FreeDescriptors
<1> QED BY <1>2 DEF OpenOn

LEMMA OpenTablesStep ==
  ASSUME TypeOK, OpenIsLoaded, NEW v \in Device, NEW n \in Filename,
         \/ \E Flags \in CallerFlags : LibOpen(v, n, Flags)
         \/ \E Attributes \in {NONE, READONLY} : LibCreat(v, n, Attributes)
  PROVE  /\ OpenIsLoaded'
         /\ \A u \in Device : inode'[u].NumberOfFiles >= inode[u].NumberOfFiles
<1>1. \/ \E i \in Slots(inode[v]) : \E Flags : LibOpenFile(v, i, Flags)
      \/ \E Attributes : LibCreatFile(v, n, Attributes)
  BY FindFileResult DEF LibOpen, LibCreat
<1>2. inode[v] \in Table /\ \A u \in Device : inode[u].NumberOfFiles \in Nat
  BY SizesAssumption DEF TypeOK, Table
<1>3. ASSUME NEW i \in Slots(inode[v]), NEW Flags, LibOpenFile(v, i, Flags)
      PROVE  /\ OpenIsLoaded'
             /\ \A u \in Device : inode'[u].NumberOfFiles >= inode[u].NumberOfFiles
  <2>1. Loaded(v)
    BY DEF OpenIsLoaded, Slots, ZeroTable
  <2>2. inode' = inode /\ fat' = fat /\ \E f : f.InodeTable = v /\ GetFileDescriptor(f)
    BY <1>3 DEF LibOpenFile, NewDescriptor, image
  <2> QED BY <1>2, <2>1, <2>2, OpenedIsLoaded, SameTables
<1>4. ASSUME NEW Attributes, LibCreatFile(v, n, Attributes)
      PROVE  /\ OpenIsLoaded'
             /\ \A u \in Device : inode'[u].NumberOfFiles >= inode[u].NumberOfFiles
  <2>1. Loaded(v)
    BY <1>4, SizesAssumption DEF LibCreatFile, OpenIsLoaded, ZeroTable
  <2>2. fat' = fat /\ \E f : f.InodeTable = v /\ GetFileDescriptor(f)
    BY <1>4 DEF LibCreatFile, NewDescriptor
  <2>3. \A u \in Device : Loaded(u) \/ OpenOn(u)' \subseteq OpenOn(u)
    BY <2>1, <2>2, OpenedIsLoaded
  <2>4. \E e : inode' = [inode EXCEPT ![v].NumberOfFiles = inode[v].NumberOfFiles + 1,
                                     ![v].File[inode[v].NumberOfFiles] = e]
    BY <1>4 DEF LibCreatFile
  <2>5. \A u \in Device :
          /\ inode'[u].FreeMemoryPointer = inode[u].FreeMemoryPointer
          /\ inode'[u].NumberOfFiles >= inode[u].NumberOfFiles
          /\ u # v => inode'[u] = inode[u]
    BY <1>2, <2>4 DEF TypeOK, Table
  <2> QED BY <2>1, <2>2, <2>3, <2>5 DEF OpenIsLoaded, Loaded
<1> QED BY <1>1, <1>3, <1>4

LEMMA CloseTablesStep ==
  ASSUME TypeOK, OpenIsLoaded, NEW d \in Descriptor, LibClose(d)
  PROVE  /\ OpenIsLoaded'
         /\ \A u \in Device : inode'[u].NumberOfFiles = inode[u].NumberOfFiles
<1> DEFINE v == fdTable[d].InodeTable
           t == AllocateSlot(inode[v], d)
           max == SlotSize(fdTable[d].FileSize, inode[v].FreeMemorySize)
<1>1. \A u \in Device : OpenOn(u)' \subseteq OpenOn(u)
  <2>1. \A e \in Descriptor : ~ fdTable'[e].InUse \/ fdTable'[e] = fdTable[e]
    BY DEF LibClose, FreeFileDescriptor, ZeroDescriptor, TypeOK
  <2> QED BY <2>1 DEF OpenOn
<1>2. CASE CloseWritten(d) \/ CloseRead(d)
  <2>1. inode' = inode /\ fat' = fat
    BY <1>2 DEF CloseWritten, CloseRead, image
  <2> QED BY <1>1, <2>1, SameTables
<1>3. CASE CloseCreated(d)
  <2>1. \A u \in Device \ {v} : inode'[u] = inode[u] /\ fat'[u] = fat[u]
    BY <1>3 DEF CloseCreated, TypeOK
  <2>2. CASE v \in Device
    <3>1. Loaded(v)
      BY <2>2 DEF LibClose, IsValidFileDescriptor, OpenIsLoaded, OpenOn
    <3>2. inode[v] \in Table /\ fat[v] \in Table /\ fdTable[d].FileSize \in Nat
      BY <2>2 DEF TypeOK, FileDescriptor
    <3>3. max \in Nat /\ t \in Table
      BY <3>2, SlotSizeType, AllocateSlotType DEF Table
    <3> HIDE DEF max
    <3>4. /\ t.FreeMemoryPointer = inode[v].FreeMemoryPointer + HeaderSize + max
          /\ t.NumberOfFiles = inode[v].NumberOfFiles
      BY <3>2 DEF AllocateSlot, Table, max
    <3>5. t.FreeMemoryPointer # 0
      BY <3>2, <3>3, <3>4, SizesAssumption DEF Table
    <3>6. UpdatedFat(fat[v], t, fdTable[d].InodeIndex, 2).FreeMemoryPointer
            = t.FreeMemoryPointer
      BY <3>2 DEF UpdatedFat, Table
    <3>7. inode'[v] = t /\ fat'[v].FreeMemoryPointer = t.FreeMemoryPointer
      BY <1>3, <2>2, <3>6 DEF CloseCreated, TypeOK
    <3> QED BY <1>1, <2>1, <3>4, <3>5, <3>7 DEF OpenIsLoaded, Loaded
  <2>3. CASE v \notin Device
    BY <1>1, <2>1, <2>3 DEF OpenIsLoaded, Loaded
  <2> QED BY <2>2, <2>3
<1> QED BY <1>2, <1>3 DEF LibClose

LEMMA MountTablesStep ==
  ASSUME TypeOK, OpenIsLoaded, NEW v \in Device,
         (~ Loaded(v) /\ LibInitFS(v)) \/ LibFreeFS(v)
  PROVE  /\ OpenIsLoaded'
         /\ \A u \in Device :
              inode'[u].NumberOfFiles >= inode[u].NumberOfFiles \/ ~ HasOpenDir(u)
<1>1. \A u \in Device \ {v} : inode'[u] = inode[u]
  BY DEF LibInitFS, LibFreeFS, TypeOK
<1>2. fat' = fat /\ \A u \in Device : OpenOn(u)' = OpenOn(u)
  BY DEF LibInitFS, LibFreeFS, image, OpenOn
<1>3. \A u \in Device : inode[u].NumberOfFiles \in Nat /\ fat[u].NumberOfFiles \in Nat
  BY SizesAssumption DEF TypeOK, Table
<1>4. CASE ~ Loaded(v) /\ LibInitFS(v)
  <2>1. /\ inode'[v].FreeMemoryPointer = fat[v].FreeMemoryPointer
        /\ inode'[v].NumberOfFiles = fat[v].NumberOfFiles
    BY <1>4 DEF LibInitFS, TypeOK, Table
  <2>2. inode[v].NumberOfFiles = 0
    BY <1>4 DEF OpenIsLoaded, ZeroTable
  <2> QED BY <1>1, <1>2, <1>3, <2>1, <2>2 DEF OpenIsLoaded, Loaded
<1>5. CASE LibFreeFS(v)
  <2>1. inode'[v] = ZeroTable /\ OpenOn(v) = {} /\ ~ HasOpenDir(v)
    BY <1>5 DEF LibFreeFS, HasOpenFiles, TypeOK
  <2> QED BY <1>1, <1>2, <1>3, <2>1 DEF OpenIsLoaded, Loaded
<1> QED BY <1>4, <1>5

LEMMA ResetTablesStep ==
  ASSUME TypeOK, OpenIsLoaded, Reset \/ \E d \in Descriptor : ResetDuringClose(d)
  PROVE  OpenIsLoaded' /\ ~ dir'.InUse
<1>1. /\ \A v \in Device : inode'[v] = ZeroTable /\ OpenOn(v)' = {}
      /\ ~ dir'.InUse
  BY DEF Reset, ResetDuringClose, LibInit, OpenOn, ZeroDescriptor, ZeroDirectory
<1>2. \A v \in Device : fat'[v].FreeMemoryPointer = fat[v].FreeMemoryPointer
  <2>1. CASE Reset
    BY <2>1 DEF Reset, image
  <2>2. ASSUME NEW d \in Descriptor, ResetDuringClose(d)
        PROVE  \A v \in Device : fat'[v].FreeMemoryPointer = fat[v].FreeMemoryPointer
    <3> DEFINE u == fdTable[d].InodeTable
    <3>1. PICK k \in {0, 1} :
            fat' = [fat EXCEPT ![u] = UpdatedFat(fat[u], AllocateSlot(inode[u], d),
                                                fdTable[d].InodeIndex, k)]
      BY <2>2 DEF ResetDuringClose
    <3>2. ASSUME NEW t, NEW i, u \in Device
          PROVE  UpdatedFat(fat[u], t, i, k).FreeMemoryPointer = fat[u].FreeMemoryPointer
      BY <3>2 DEF UpdatedFat, TypeOK, Table
    <3> QED BY <3>1, <3>2 DEF TypeOK
  <2> QED BY <2>1, <2>2
<1> QED BY <1>1, <1>2 DEF OpenIsLoaded, Loaded

\* The open directory stays where it is while its table only grows.
LEMMA DirectoryKept ==
  ASSUME TypeOK, DirectoryOnDevice, DirectoryInBounds, dir' = dir, TypeOK',
         \A u \in Device :
           inode'[u].NumberOfFiles >= inode[u].NumberOfFiles \/ ~ HasOpenDir(u)
  PROVE  DirectoryOnDevice' /\ DirectoryInBounds'
<1>1. CASE ~ dir.InUse
  BY <1>1 DEF DirectoryOnDevice, DirectoryInBounds
<1>2. CASE dir.InUse
  <2> DEFINE v == dir.InodeTable
  <2>1. v \in Device /\ HasOpenDir(v) /\ dir.InodeIndex <= inode[v].NumberOfFiles
    BY <1>2 DEF DirectoryOnDevice, DirectoryInBounds, HasOpenDir
  <2>2. /\ dir.InodeIndex \in Nat
        /\ inode[v].NumberOfFiles \in Nat /\ inode'[v].NumberOfFiles \in Nat
    BY <2>1, SizesAssumption DEF TypeOK, Table, DirectoryDescriptor
  <2>3. inode'[v].NumberOfFiles >= inode[v].NumberOfFiles
    BY <2>1
  <2> HIDE DEF v
  <2>4. dir.InodeIndex <= inode'[v].NumberOfFiles
    BY <2>1, <2>2, <2>3
  <2> QED BY <1>2, <2>1, <2>4 DEF v, DirectoryOnDevice, DirectoryInBounds
<1> QED BY <1>1, <1>2

LEMMA UseStep ==
  ASSUME TypeOK, UseInv, [Next]_vars
  PROVE  UseInv'
<1>1. OpenIsLoaded /\ DirectoryOnDevice /\ DirectoryInBounds /\ TypeOK'
  BY NextType DEF UseInv
<1>2. CASE Reset \/ \E d \in Descriptor : ResetDuringClose(d)
  BY <1>1, <1>2, ResetTablesStep DEF UseInv, DirectoryOnDevice, DirectoryInBounds
<1>3. ASSUME NEW v \in Device, (~ Loaded(v) /\ LibInitFS(v)) \/ LibFreeFS(v)
      PROVE  UseInv'
  BY <1>1, <1>3, MountTablesStep, DirectoryKept DEF UseInv, LibInitFS, LibFreeFS
<1>4. ASSUME NEW v \in Device, NEW n \in Filename,
             \/ \E Flags \in CallerFlags : LibOpen(v, n, Flags)
             \/ \E Attributes \in {NONE, READONLY} : LibCreat(v, n, Attributes)
      PROVE  UseInv'
  <2>1. dir' = dir
    BY <1>4 DEF LibOpen, LibCreat, LibOpenFile, LibCreatFile
  <2> QED BY <1>1, <1>4, <2>1, OpenTablesStep, DirectoryKept DEF UseInv
<1>5. ASSUME NEW d \in Descriptor, LibClose(d)
      PROVE  UseInv'
  <2>1. dir' = dir /\ \A u \in Device : inode[u].NumberOfFiles \in Nat
    BY <1>5, SizesAssumption DEF LibClose, TypeOK, Table
  <2> QED BY <1>1, <1>5, <2>1, CloseTablesStep, DirectoryKept DEF UseInv
<1>6. ASSUME fat' = fat, inode' = inode, \A v \in Device : OpenOn(v)' = OpenOn(v)
      PROVE  /\ OpenIsLoaded'
             /\ \A v \in Device : inode'[v].NumberOfFiles >= inode[v].NumberOfFiles
  <2>1. \A v \in Device : inode[v].NumberOfFiles \in Nat
    BY SizesAssumption DEF TypeOK, Table
  <2> QED BY <1>1, <1>6, <2>1, SameTables
<1>7. ASSUME NEW d \in Descriptor,
             \/ \E Length \in Lengths : LibRead(d, Length)
             \/ \E Length \in Lengths, b \in Byte : LibWrite(d, Length, b)
             \/ \E offset \in SeekOffsets, origin \in Origin : LibLSeek(d, offset, origin)
      PROVE  UseInv'
  <2>1. dir' = dir
    BY <1>7 DEF LibRead, LibWrite, LibLSeek
  <2>2. fat' = fat /\ inode' = inode /\ \A v \in Device : OpenOn(v)' = OpenOn(v)
    BY <1>7, TransferStep DEF OpenOn
  <2> QED BY <1>1, <1>6, <2>1, <2>2, DirectoryKept DEF UseInv
<1>8. CASE \/ \E v \in Device, n \in Filename :
                \/ LibRemove(v, n)
                \/ \E new \in Filename : LibRename(v, n, new)
                \/ \E Attributes \in {NONE, READONLY} : LibSetFileAttributes(v, n, Attributes)
           \/ UNCHANGED vars
  <2>1. fat' = fat /\ inode' = inode /\ fdTable' = fdTable /\ dir' = dir
    BY <1>8 DEF LibRemove, LibRename, LibSetFileAttributes, StoreHeader, vars
  <2> QED BY <1>1, <1>6, <2>1, DirectoryKept DEF UseInv, OpenOn
<1>9. CASE (\E v \in Device : LibOpenDir(v)) \/ LibReadDir \/ LibCloseDir
  <2>1. fat' = fat /\ inode' = inode /\ fdTable' = fdTable
    BY <1>9 DEF LibOpenDir, LibReadDir, LibCloseDir, image
  <2>2. OpenIsLoaded'
    BY <1>6, <2>1 DEF OpenOn
  <2>3. \A v \in Device : inode[v].NumberOfFiles \in Nat
    BY SizesAssumption DEF TypeOK, Table
  <2>4. ASSUME NEW v \in Device, LibOpenDir(v) PROVE UseInv'
    BY <2>1, <2>2, <2>3, <2>4
       DEF LibOpenDir, UseInv, DirectoryOnDevice, DirectoryInBounds
  <2>5. CASE LibReadDir
    <3>1. /\ dir.InodeIndex \in Nat
          /\ dir'.InUse = dir.InUse /\ dir'.InodeTable = dir.InodeTable
          /\ dir'.InodeIndex = dir.InodeIndex + 1
          /\ dir.InUse /\ dir.InodeIndex < inode[dir.InodeTable].NumberOfFiles
      BY <2>5 DEF LibReadDir, TypeOK, DirectoryDescriptor
    <3> QED BY <1>1, <2>1, <2>2, <2>3, <3>1
            DEF UseInv, DirectoryOnDevice, DirectoryInBounds
  <2>6. CASE LibCloseDir
    BY <2>2, <2>6 DEF LibCloseDir, ZeroDirectory, UseInv, DirectoryOnDevice, DirectoryInBounds
  <2> QED BY <1>9, <2>4, <2>5, <2>6
<1> QED BY <1>2, <1>3, <1>4, <1>5, <1>7, <1>8, <1>9 DEF Next

LEMMA InitUse == Init => UseInv
<1> SUFFICES ASSUME Init PROVE UseInv
  OBVIOUS
<1>1. OpenIsLoaded
  BY SizesAssumption DEF Init, OpenIsLoaded, Loaded, OpenOn, EmptyFat, ZeroTable, ZeroDescriptor
<1> QED BY <1>1 DEF Init, UseInv, DirectoryOnDevice, DirectoryInBounds, ZeroDirectory

\* The open directory never points past the slots of its table: files may come and go,
\* be created and renamed while it is read, but no slot is taken away and no table freed.
THEOREM DirectoryStaysInBounds == Spec => []DirectoryInBounds
<1>1. TypeOK /\ UseInv /\ [Next]_vars => UseInv'
  BY UseStep
<1>2. UseInv => DirectoryInBounds
  BY DEF UseInv
<1> QED BY <1>1, <1>2, InitUse, TypeCorrect, PTL DEF Spec
=============================================================================
