-------------------------- MODULE EefsFilesysProofs --------------------------
(***************************************************************************)
(* The path layer (EefsFilesys) implements the library (EefsFileApi): what *)
(* is proved of the library on its own holds of an application that goes   *)
(* through any number of devices, volumes and paths.  With it, the proofs  *)
(* that the tables are unambiguous and that open files stay mounted.       *)
(***************************************************************************)
EXTENDS EefsFilesys, EefsFileStoreProofs

\* The entries of the device table that are in use have an inode table.
EntriesValid ==
  \A i \in DeviceIndex : deviceTable[i].InUse => deviceTable[i].BaseAddress \in Device

\* The inductive invariant: EEFS_InitFS finds the inode table of its base address unused
\* because every table in use is registered and registered addresses are refused.
FilesysInv == TypeOK /\ TablesTypeOK /\ EntriesValid /\ OnlyRegisteredInUse

(***************************************************************************)
(* Look-ups                                                                *)
(***************************************************************************)
\* The first match of a search is a match.
LEMMA FirstIsElement ==
  ASSUME NEW S \in SUBSET Nat, S # {}
  PROVE  First(S) \in S
BY LeastElement DEF First

\* A mount point leads to inode tables of devices of the device table only.
LEMMA ResolveRegistered ==
  ASSUME TablesTypeOK, EntriesValid, NEW m, NEW v \in Resolve(m)
  PROVE  v \in Device /\ Registered(v)
<1> DEFINE S == DevicesNamed(volumeTable[First(VolumesAt(m))].DeviceName)
<1>1. S # {} /\ v = deviceTable[First(S)].BaseAddress
  BY DEF Resolve
<1>2. S \in SUBSET Nat
  BY TablesAssumption DEF DevicesNamed, DeviceIndex
<1>3. First(S) \in S
  BY <1>1, <1>2, FirstIsElement
<1> QED BY <1>1, <1>3 DEF DevicesNamed, Registered, EntriesValid

(***************************************************************************)
(* What the library calls of a path use                                    *)
(***************************************************************************)
\* The inode tables in use after a step were in use before, or are those of mount points.
UsesFollow ==
  /\ \A v \in Device : Loaded(v)' =>
       \/ Loaded(v)
       \/ \E d \in Descriptor : fdTable[d].InUse /\ fdTable[d].InodeTable = v
  /\ \A d \in Descriptor : fdTable'[d].InUse =>
       \/ fdTable[d].InUse /\ fdTable'[d].InodeTable = fdTable[d].InodeTable
       \/ \E m \in MountPoint : fdTable'[d].InodeTable \in Resolve(m)
  /\ dir'.InUse =>
       \/ dir.InUse /\ dir'.InodeTable = dir.InodeTable
       \/ \E m \in MountPoint : dir'.InodeTable \in Resolve(m)

\* Opening or creating a file opens one descriptor, on the inode table of the path.
LEMMA OpenUses ==
  ASSUME TypeOK, NEW m \in MountPoint, NEW v \in Resolve(m), v \in Device, NEW n,
         (\E Flags : LibOpen(v, n, Flags)) \/ (\E a : LibCreat(v, n, a))
  PROVE  UsesFollow
<1>1. ASSUME NEW i, NEW mode, NEW size, NEW max,
             GetFileDescriptor(NewDescriptor(v, i, mode, size, max))
      PROVE  \A d \in Descriptor : fdTable'[d].InUse =>
               \/ fdTable[d].InUse /\ fdTable'[d].InodeTable = fdTable[d].InodeTable
               \/ fdTable'[d].InodeTable \in Resolve(m)
  <2> DEFINE f == NewDescriptor(v, i, mode, size, max)
  <2>1. PICK e \in FreeDescriptors : fdTable' = [fdTable EXCEPT ![e] = f]
    BY <1>1, GetFileDescriptorStep
  <2>2. f.InodeTable = v
    BY DEF NewDescriptor
  <2> HIDE DEF f
  <2> QED BY <2>1, <2>2 DEF TypeOK, FreeDescriptors
<1>2. ASSUME NEW i, NEW Flags, LibOpenFile(v, i, Flags)
      PROVE  UsesFollow
  <2>1. inode' = inode /\ dir' = dir
    BY <1>2 DEF LibOpenFile
  <2>2. \E mode, size, max : GetFileDescriptor(NewDescriptor(v, i, mode, size, max))
    BY <1>2 DEF LibOpenFile
  <2> QED BY <1>1, <2>1, <2>2 DEF UsesFollow, Loaded
<1>3. ASSUME NEW a, LibCreatFile(v, n, a)
      PROVE  UsesFollow
  <2>1. dir' = dir
    BY <1>3 DEF LibCreatFile
  <2>2. \A u \in Device : inode'[u].FreeMemoryPointer = inode[u].FreeMemoryPointer
    BY <1>3 DEF LibCreatFile, TypeOK, Table
  <2>3. \E i, mode, size, max : GetFileDescriptor(NewDescriptor(v, i, mode, size, max))
    BY <1>3 DEF LibCreatFile
  <2> QED BY <1>1, <2>1, <2>2, <2>3 DEF UsesFollow, Loaded
<1> QED BY <1>2, <1>3 DEF LibOpen, LibCreat

\* Closing a file can only change the inode table of that file.
LEMMA CloseUses ==
  ASSUME TypeOK, NEW d \in Descriptor, LibClose(d)
  PROVE  UsesFollow
<1>1. fdTable' = [fdTable EXCEPT ![d] = ZeroDescriptor] /\ dir' = dir /\ fdTable[d].InUse
  BY DEF LibClose, FreeFileDescriptor, IsValidFileDescriptor
<1>2. \A u \in Device : u # fdTable[d].InodeTable => inode'[u] = inode[u]
  BY DEF LibClose, CloseCreated, CloseWritten, CloseRead, TypeOK
<1>3. ~ ZeroDescriptor.InUse
  BY DEF ZeroDescriptor
<1> QED BY <1>1, <1>2, <1>3 DEF UsesFollow, Loaded, TypeOK

\* Reading, writing and seeking move a descriptor on its inode table.
LEMMA TransferUses ==
  ASSUME TypeOK, NEW d \in Descriptor,
         \/ \E Length \in Lengths : LibRead(d, Length)
         \/ \E Length \in Lengths, b \in Byte : LibWrite(d, Length, b)
         \/ \E offset \in SeekOffsets, origin \in Origin : LibLSeek(d, offset, origin)
  PROVE  UsesFollow
<1>1. dir' = dir
  BY DEF LibRead, LibWrite, LibLSeek
<1> QED BY <1>1, TransferStep DEF UsesFollow, Loaded

\* Every call of an application uses only what was in use or what its path leads to.
LEMMA LibraryCallUses ==
  ASSUME TypeOK, TablesTypeOK, EntriesValid, LibraryCall
  PROVE  UsesFollow
<1>1. ASSUME NEW path \in Path,
             \/ \E Flags \in CallerFlags : Open(path, Flags)
             \/ \E Mode \in {NONE, READONLY} : Creat(path, Mode)
      PROVE  UsesFollow
  <2>1. PICK v \in Resolve(path.MountPoint) :
          \/ \E Flags : LibOpen(v, path.Filename, Flags)
          \/ \E a : LibCreat(v, path.Filename, a)
    BY <1>1 DEF Open, Creat
  <2> QED BY <2>1, ResolveRegistered, OpenUses DEF Path
<1>2. ASSUME inode' = inode, fdTable' = fdTable, dir' = dir
      PROVE  UsesFollow
  BY <1>2 DEF UsesFollow, Loaded
<1>3. ASSUME NEW path \in Path,
             \/ Remove(path)
             \/ \E new \in Path : Rename(path, new)
             \/ \E Attributes \in {NONE, READONLY} : SetFileAttributes(path, Attributes)
      PROVE  UsesFollow
  BY <1>2, <1>3 DEF Remove, Rename, SetFileAttributes, LibRemove, LibRename,
                    LibSetFileAttributes, StoreHeader
<1>4. ASSUME NEW m \in MountPoint, OpenDir(m)
      PROVE  UsesFollow
  BY <1>4 DEF OpenDir, LibOpenDir, UsesFollow, Loaded
<1>5. CASE LibReadDir \/ LibCloseDir
  BY <1>5 DEF LibReadDir, LibCloseDir, ZeroDirectory, DirectoryDescriptor, TypeOK,
              UsesFollow, Loaded
<1>6. ASSUME NEW d \in Descriptor, DescriptorCall(d)
      PROVE  UsesFollow
  BY <1>6, CloseUses, TransferUses DEF DescriptorCall
<1> QED BY <1>1, <1>3, <1>4, <1>5, <1>6 DEF LibraryCall

(***************************************************************************)
(* Steps of the path layer                                                 *)
(***************************************************************************)
\* A device is configured in a free entry of the device table, with a new name and a new
\* base address.
LEMMA InitFSEntry ==
  ASSUME TablesTypeOK, NEW name \in DeviceName, NEW base \in Device, InitFS(name, base)
  PROVE  \E i \in FreeDevices :
           /\ deviceTable' = [deviceTable EXCEPT
                ![i] = [InUse |-> TRUE, BaseAddress |-> base, DeviceName |-> name]]
           /\ ~ Registered(base)
           /\ DevicesNamed(name) = {}
<1>1. FreeDevices # {} /\ FreeDevices \in SUBSET Nat
  BY TablesAssumption DEF InitFS, FreeDevices, DeviceIndex
<1>2. First(FreeDevices) \in FreeDevices
  BY <1>1, FirstIsElement
<1> QED BY <1>2 DEF InitFS, Configured, Registered, DevicesNamed

\* EEFS_InitFS loads an inode table that no device uses: the library's own precondition.
LEMMA InitFSLoadsUnused ==
  ASSUME FilesysInv, NEW name \in DeviceName, NEW base \in Device, InitFS(name, base)
  PROVE  ~ Loaded(base) /\ LibInitFS(base)
BY InitFSEntry DEF FilesysInv, OnlyRegisteredInUse, InitFS

\* Every step of the path layer is a step of the library, or leaves the library alone.
LEMMA StepImplements ==
  ASSUME FilesysInv, [FilesysNext]_filesysVars
  PROVE  [Next]_vars
<1>1. \A m : \A v \in Resolve(m) : v \in Device
  BY ResolveRegistered DEF FilesysInv
<1>2. ASSUME NEW path \in Path,
             \/ \E Flags \in CallerFlags : Open(path, Flags)
             \/ \E Mode \in {NONE, READONLY} : Creat(path, Mode)
             \/ Remove(path)
             \/ \E new \in Path : Rename(path, new)
             \/ \E Attributes \in {NONE, READONLY} : SetFileAttributes(path, Attributes)
      PROVE  Next
  <2>1. path.Filename \in Filename /\ \A new \in Path : new.Filename \in Filename
    BY DEF Path
  <2>2. PICK v \in Resolve(path.MountPoint) :
          \/ \E Flags \in CallerFlags : LibOpen(v, path.Filename, Flags)
          \/ \E Mode \in {NONE, READONLY} : LibCreat(v, path.Filename, Mode)
          \/ LibRemove(v, path.Filename)
          \/ \E new \in Filename : LibRename(v, path.Filename, new)
          \/ \E Attributes \in {NONE, READONLY} :
               LibSetFileAttributes(v, path.Filename, Attributes)
    BY <1>2, <2>1 DEF Open, Creat, Remove, Rename, SetFileAttributes
  <2> QED BY <1>1, <2>1, <2>2 DEF Next
<1>3. ASSUME NEW m \in MountPoint, OpenDir(m)
      PROVE  Next
  BY <1>1, <1>3 DEF OpenDir, Next
<1>4. ASSUME NEW d \in Descriptor, DescriptorCall(d)
      PROVE  Next
  BY <1>4 DEF DescriptorCall, Next
<1>5. CASE LibraryCall
  BY <1>2, <1>3, <1>4, <1>5 DEF LibraryCall, Next
<1>6. ASSUME NEW name \in DeviceName, NEW base \in Device, InitFS(name, base)
      PROVE  Next
  BY <1>6, InitFSLoadsUnused DEF Next
<1>7. CASE Reset \/ \E d \in Descriptor : ResetDuringClose(d)
  BY <1>7 DEF Next
<1>8. ASSUME \/ \E name \in DeviceName, m \in MountPoint : Mount(name, m)
             \/ \E m \in MountPoint : UnMount(m)
             \/ UNCHANGED filesysVars
      PROVE  UNCHANGED vars
  BY <1>8 DEF Mount, UnMount, filesysVars
<1> QED BY <1>5, <1>6, <1>7, <1>8 DEF FilesysNext

\* Mounting adds one volume and unmounting clears one; both tables keep their types.
LEMMA TablesStep ==
  ASSUME TablesTypeOK, EntriesValid, [FilesysNext]_filesysVars
  PROVE  TablesTypeOK' /\ EntriesValid'
<1>1. ASSUME NEW name \in DeviceName, NEW base \in Device, InitFS(name, base)
      PROVE  TablesTypeOK' /\ EntriesValid'
  <2>1. volumeTable' = volumeTable
    BY <1>1 DEF InitFS
  <2> DEFINE entry == [InUse |-> TRUE, BaseAddress |-> base, DeviceName |-> name]
  <2>2. PICK i \in FreeDevices : deviceTable' = [deviceTable EXCEPT ![i] = entry]
    BY <1>1, InitFSEntry
  <2>3. entry \in DeviceEntry /\ entry.BaseAddress \in Device
    BY DEF DeviceEntry
  <2> HIDE DEF entry
  <2> QED BY <2>1, <2>2, <2>3 DEF TablesTypeOK, EntriesValid
<1>2. ASSUME NEW name \in DeviceName, NEW m \in MountPoint, Mount(name, m)
      PROVE  TablesTypeOK' /\ EntriesValid'
  BY <1>2 DEF Mount, NewVolume, TablesTypeOK, EntriesValid, VolumeEntry
<1>3. ASSUME NEW m \in MountPoint, UnMount(m)
      PROVE  TablesTypeOK' /\ EntriesValid'
  BY <1>3 DEF UnMount, ZeroVolume, TablesTypeOK, EntriesValid, VolumeEntry
<1>4. CASE ResetTables
  BY <1>4 DEF ResetTables, ZeroDevice, ZeroVolume, TablesTypeOK, EntriesValid,
              DeviceEntry, VolumeEntry
<1>5. CASE UNCHANGED tables
  BY <1>5 DEF tables, TablesTypeOK, EntriesValid
<1> QED BY <1>1, <1>2, <1>3, <1>4, <1>5 DEF FilesysNext, filesysVars, tables

\* A reset leaves nothing loaded and nothing open.
LEMMA ResetUses ==
  ASSUME LibInit
  PROVE  /\ \A v \in Device : ~ Loaded(v)'
         /\ \A d \in Descriptor : ~ fdTable'[d].InUse
         /\ ~ dir'.InUse
BY DEF LibInit, Loaded, ZeroTable, ZeroDescriptor, ZeroDirectory

\* A step that configures no device loads no table, and opens nothing outside the paths.
LEMMA OtherStepUses ==
  ASSUME TypeOK, TablesTypeOK, EntriesValid, [FilesysNext]_filesysVars,
         ~ \E name \in DeviceName, base \in Device : InitFS(name, base)
  PROVE  \/ UsesFollow /\ deviceTable' = deviceTable
         \/ LibInit /\ ResetTables
<1>1. CASE LibraryCall /\ UNCHANGED tables
  BY <1>1, LibraryCallUses DEF tables
<1>2. CASE UNCHANGED <<vars, deviceTable>>
  BY <1>2 DEF vars, UsesFollow, Loaded
<1>3. CASE (Reset \/ \E d \in Descriptor : ResetDuringClose(d)) /\ ResetTables
  BY <1>3 DEF Reset, ResetDuringClose
<1>4. ASSUME \/ \E name \in DeviceName, m \in MountPoint : Mount(name, m)
             \/ \E m \in MountPoint : UnMount(m)
             \/ UNCHANGED filesysVars
      PROVE  UNCHANGED <<vars, deviceTable>>
  BY <1>4 DEF Mount, UnMount, filesysVars, tables
<1> QED BY <1>1, <1>2, <1>3, <1>4 DEF FilesysNext

\* Only devices of the table have loaded tables, open files or an open directory.
LEMMA RegisteredStep ==
  ASSUME FilesysInv, [FilesysNext]_filesysVars
  PROVE  OnlyRegisteredInUse'
<1>1. TypeOK /\ TablesTypeOK /\ EntriesValid /\ OnlyRegisteredInUse
  BY DEF FilesysInv
<1>2. CASE UsesFollow /\ deviceTable' = deviceTable
  <2>1. \A v : Registered(v)' <=> Registered(v)
    BY <1>2 DEF Registered
  <2>2. \A m : \A v \in Resolve(m) : Registered(v)
    BY <1>1, ResolveRegistered
  <2> QED BY <1>1, <1>2, <2>1, <2>2 DEF UsesFollow, OnlyRegisteredInUse, Loaded
<1>3. CASE LibInit
  BY <1>3, ResetUses DEF OnlyRegisteredInUse
<1>4. ASSUME NEW name \in DeviceName, NEW base \in Device, InitFS(name, base)
      PROVE  OnlyRegisteredInUse'
  <2>1. PICK i \in FreeDevices :
          deviceTable' = [deviceTable EXCEPT
            ![i] = [InUse |-> TRUE, BaseAddress |-> base, DeviceName |-> name]]
    BY <1>1, <1>4, InitFSEntry
  <2>2. \A v : Registered(v) => Registered(v)'
    BY <1>1, <2>1 DEF Registered, FreeDevices, TablesTypeOK
  <2>3. Registered(base)'
    BY <1>1, <2>1 DEF Registered, FreeDevices, TablesTypeOK
  <2>4. /\ \A v \in Device \ {base} : inode'[v] = inode[v]
        /\ fdTable' = fdTable /\ dir' = dir
    BY <1>1, <1>4 DEF InitFS, LibInitFS, TypeOK
  <2> QED BY <1>1, <2>2, <2>3, <2>4 DEF OnlyRegisteredInUse, Loaded
<1> QED BY <1>1, <1>2, <1>3, <1>4, OtherStepUses

(***************************************************************************)
(* The theorems                                                            *)
(***************************************************************************)
\* FilesysInv holds at first and every step keeps it.
LEMMA FilesysInvInductive ==
  /\ FilesysInit => FilesysInv
  /\ FilesysInv /\ [FilesysNext]_filesysVars => FilesysInv'
<1>1. FilesysInit => FilesysInv
  <2> SUFFICES ASSUME FilesysInit PROVE FilesysInv
    OBVIOUS
  <2>1. TypeOK
    BY InitType DEF FilesysInit
  <2>2. TablesTypeOK /\ EntriesValid
    BY DEF FilesysInit, TablesTypeOK, EntriesValid, DeviceEntry, VolumeEntry,
           ZeroDevice, ZeroVolume
  <2>3. OnlyRegisteredInUse
    BY DEF FilesysInit, Init, OnlyRegisteredInUse, Loaded, ZeroTable, ZeroDescriptor,
           ZeroDirectory
  <2> QED BY <2>1, <2>2, <2>3 DEF FilesysInv
<1>2. FilesysInv /\ [FilesysNext]_filesysVars => FilesysInv'
  <2> SUFFICES ASSUME FilesysInv, [FilesysNext]_filesysVars PROVE FilesysInv'
    OBVIOUS
  <2>1. TypeOK'
    BY StepImplements, NextType DEF FilesysInv
  <2> QED BY <2>1, TablesStep, RegisteredStep DEF FilesysInv
<1> QED BY <1>1, <1>2

\* The device and volume tables hold values of their C types, whatever is mounted and
\* unmounted in whatever order.
THEOREM TablesTypeCorrect == FilesysSpec => []TablesTypeOK
<1>1. FilesysInv => TablesTypeOK
  BY DEF FilesysInv
<1> QED BY <1>1, FilesysInvInductive, PTL DEF FilesysSpec

\* The path layer implements the library: whatever applications do through paths, the
\* library sees a sequence of calls that its own specification allows.
THEOREM PathsImplementLibrary == FilesysSpec => Spec
<1>1. FilesysInit => Init
  BY DEF FilesysInit
<1>2. FilesysInv /\ [FilesysNext]_filesysVars => [Next]_vars
  BY StepImplements
<1> QED BY <1>1, <1>2, FilesysInvInductive, PTL DEF FilesysSpec, Spec

\* No inode table is loaded, and no file or directory is open, on a device that is not in
\* the device table.
THEOREM UsedTablesRegistered == FilesysSpec => []OnlyRegisteredInUse
<1>1. FilesysInv => OnlyRegisteredInUse
  BY DEF FilesysInv
<1> QED BY <1>1, FilesysInvInductive, PTL DEF FilesysSpec

\* What is proved of the slots for callers of the library holds for applications that
\* use paths, however many mount points lead to one device.
THEOREM PathsKeepSlots ==
  ASSUME FlagsSeparateCreat
  PROVE  FilesysSpec => []SlotsDisjoint /\ SlotsFixed
BY PathsImplementLibrary, SlotsNeverOverlap, SlotsStayFixed, PTL

\* So does what is proved of the files: through whatever paths they are reached, the image
\* can be mounted at every instant, names are unique, an open file is neither removed nor
\* written by two, no descriptor leaves its file, and only a writer changes its data.
THEOREM PathsKeepFiles ==
  ASSUME FlagsSeparateCreat, FlagsSeparateWriters
  PROVE  FilesysSpec => /\ [](MountableImage /\ UniqueNames)
                        /\ [](OpenFilesProtected /\ DescriptorsInBounds)
                        /\ DataChangesByItsWriter
<1>1. Spec => []MountableImage /\ []UniqueNames
  BY ImageStaysMountable, NamesStayUnique
<1>2. Spec => []OpenFilesProtected /\ []DescriptorsInBounds
  BY OpenFilesAreProtected, DescriptorsStayInBounds
<1>3. Spec => DataChangesByItsWriter
  BY DataChangesOnlyByItsWriter
<1> QED BY <1>1, <1>2, <1>3, PathsImplementLibrary, PTL

\* And so does the promise itself: on every device an application finds a store of named
\* files, through however many mount points it looks.
THEOREM PathsImplementStore ==
  ASSUME FlagsSeparateCreat, FlagsSeparateWriters, FlagsTruncateToWrite
  PROVE  FilesysSpec => ImplementsFileStore
BY PathsImplementLibrary, LibraryImplementsStore, PTL

(***************************************************************************)
(* Names and mount points                                                  *)
(***************************************************************************)
\* Device names, base addresses and mount points stay unique.
LEMMA UnambiguousStep ==
  ASSUME TablesTypeOK, TablesUnambiguous, [FilesysNext]_filesysVars
  PROVE  TablesUnambiguous'
<1>1. ASSUME NEW name \in DeviceName, NEW base \in Device, InitFS(name, base)
      PROVE  TablesUnambiguous'
  <2> DEFINE entry == [InUse |-> TRUE, BaseAddress |-> base, DeviceName |-> name]
  <2>1. volumeTable' = volumeTable
    BY <1>1 DEF InitFS
  <2>2. PICK i \in FreeDevices : deviceTable' = [deviceTable EXCEPT ![i] = entry]
    BY <1>1, InitFSEntry
  <2>3. \A j \in DeviceIndex : deviceTable[j].InUse =>
          deviceTable[j].DeviceName # name /\ deviceTable[j].BaseAddress # base
    BY <1>1 DEF InitFS, Configured
  <2>4. \A j \in DeviceIndex : deviceTable'[j] = IF j = i THEN entry ELSE deviceTable[j]
    BY <2>2 DEF TablesTypeOK
  <2>5. entry.DeviceName = name /\ entry.BaseAddress = base
    OBVIOUS
  <2> HIDE DEF entry
  <2> QED BY <2>1, <2>3, <2>4, <2>5 DEF TablesUnambiguous
<1>2. ASSUME NEW name \in DeviceName, NEW m \in MountPoint, Mount(name, m)
      PROVE  TablesUnambiguous'
  <2> DEFINE i == First(FreeVolumes)
  <2>1. /\ deviceTable' = deviceTable
        /\ volumeTable' = [volumeTable EXCEPT ![i] = NewVolume(name, m)]
        /\ VolumesAt(m) = {}
    BY <1>2 DEF Mount, Unmounted
  <2>2. \A j \in VolumeIndex :
          volumeTable'[j] = IF j = i THEN NewVolume(name, m) ELSE volumeTable[j]
    BY <2>1 DEF TablesTypeOK
  <2>3. NewVolume(name, m).MountPoint = m
    BY DEF NewVolume
  <2> HIDE DEF i
  <2> QED BY <2>1, <2>2, <2>3 DEF TablesUnambiguous, VolumesAt
<1>3. ASSUME NEW m \in MountPoint, UnMount(m)
      PROVE  TablesUnambiguous'
  BY <1>3 DEF UnMount, ZeroVolume, TablesTypeOK, TablesUnambiguous
<1>4. CASE ResetTables
  BY <1>4 DEF ResetTables, ZeroDevice, ZeroVolume, TablesUnambiguous
<1>5. CASE UNCHANGED tables
  BY <1>5 DEF tables, TablesUnambiguous
<1> QED BY <1>1, <1>2, <1>3, <1>4, <1>5 DEF FilesysNext, filesysVars, tables

\* The table of an open file or directory is found through some mount point.
Mounted(v) == \E m \in MountPoint : v \in Resolve(m)

\* While every volume leads to a device, configuring another device changes no path.
LEMMA InitFSKeepsPaths ==
  ASSUME TablesTypeOK, OpenFilesMounted,
         NEW name \in DeviceName, NEW base \in Device, InitFS(name, base)
  PROVE  \A m : Resolve(m)' = Resolve(m)
<1> TAKE m
<1>1. volumeTable' = volumeTable /\ VolumesAt(m)' = VolumesAt(m)
  BY DEF InitFS, VolumesAt
<1>2. CASE VolumesAt(m) = {}
  BY <1>1, <1>2 DEF Resolve
<1>3. CASE VolumesAt(m) # {}
  <2> DEFINE i == First(VolumesAt(m))
  <2>1. Resolve(m) # {}
    BY <1>3 DEF OpenFilesMounted, VolumesAt
  <2>2. DevicesNamed(volumeTable[i].DeviceName) # {}
    BY <2>1 DEF Resolve
  <2>3. PICK k \in FreeDevices :
          /\ deviceTable' = [deviceTable EXCEPT
               ![k] = [InUse |-> TRUE, BaseAddress |-> base, DeviceName |-> name]]
          /\ DevicesNamed(name) = {}
    BY InitFSEntry
  <2>4. ASSUME NEW x, DevicesNamed(x) # {}
        PROVE  /\ DevicesNamed(x)' = DevicesNamed(x)
               /\ First(DevicesNamed(x)) \in DevicesNamed(x)
               /\ \A j \in DevicesNamed(x) : deviceTable'[j] = deviceTable[j]
    <3>1. x # name
      BY <2>3, <2>4
    <3>2. DevicesNamed(x)' = DevicesNamed(x)
      BY <2>3, <3>1 DEF DevicesNamed, FreeDevices, TablesTypeOK
    <3>3. \A j \in DevicesNamed(x) : deviceTable'[j] = deviceTable[j]
      BY <2>3 DEF DevicesNamed, FreeDevices, TablesTypeOK
    <3>4. First(DevicesNamed(x)) \in DevicesNamed(x)
      BY <2>4, FirstIsElement, TablesAssumption DEF DevicesNamed, DeviceIndex
    <3> QED BY <3>2, <3>3, <3>4
  <2>5. Resolve(m)' = LET S == DevicesNamed(volumeTable[i].DeviceName)
                      IN  {deviceTable'[First(S)].BaseAddress}
    BY <1>1, <1>3, <2>2, <2>4 DEF Resolve
  <2> QED BY <1>3, <2>2, <2>4, <2>5 DEF Resolve
<1> QED BY <1>2, <1>3

\* Mounting a volume gives a path to its mount point and changes no other path.
LEMMA MountAddsPath ==
  ASSUME TablesTypeOK, NEW name \in DeviceName, NEW m \in MountPoint, Mount(name, m)
  PROVE  /\ \A p : p # m => Resolve(p)' = Resolve(p)
         /\ Resolve(m) = {} /\ Resolve(m)' # {}
<1>1. FreeVolumes # {} /\ FreeVolumes \in SUBSET Nat
  BY TablesAssumption DEF Mount, FreeVolumes, VolumeIndex
<1>2. PICK i \in FreeVolumes :
        volumeTable' = [volumeTable EXCEPT ![i] = NewVolume(name, m)]
  BY <1>1, FirstIsElement DEF Mount
<1>3. /\ deviceTable' = deviceTable /\ VolumesAt(m) = {} /\ DevicesNamed(name) # {}
      /\ \A x : DevicesNamed(x)' = DevicesNamed(x)
  BY DEF Mount, Unmounted, DevicesNamed
<1>4. \A j \in VolumeIndex :
        volumeTable'[j] = IF j = i THEN NewVolume(name, m) ELSE volumeTable[j]
  BY <1>2 DEF TablesTypeOK
<1>5. ASSUME NEW p, p # m
      PROVE  Resolve(p)' = Resolve(p)
  <2>1. VolumesAt(p)' = VolumesAt(p) /\ i \notin VolumesAt(p)
    BY <1>2, <1>4, <1>5 DEF VolumesAt, FreeVolumes, NewVolume
  <2>2. CASE VolumesAt(p) = {}
    BY <2>1, <2>2 DEF Resolve
  <2>3. CASE VolumesAt(p) # {}
    <3>1. First(VolumesAt(p)) \in VolumesAt(p)
      BY <2>3, FirstIsElement, TablesAssumption DEF VolumesAt, VolumeIndex
    <3>2. volumeTable'[First(VolumesAt(p))] = volumeTable[First(VolumesAt(p))]
      BY <1>4, <2>1, <3>1 DEF VolumesAt
    <3> QED BY <1>3, <2>1, <3>2 DEF Resolve
  <2> QED BY <2>2, <2>3
<1>6. Resolve(m) = {}
  BY <1>3 DEF Resolve
<1>7. Resolve(m)' # {}
  <2>1. VolumesAt(m)' = {i}
    BY <1>2, <1>3, <1>4 DEF VolumesAt, FreeVolumes, NewVolume
  <2>2. First({i}) = i
    BY FirstIsElement, TablesAssumption DEF FreeVolumes, VolumeIndex
  <2>3. volumeTable'[i].DeviceName = name
    BY <1>2, <1>4 DEF FreeVolumes, NewVolume
  <2> QED BY <1>3, <2>1, <2>2, <2>3 DEF Resolve
<1> QED BY <1>5, <1>6, <1>7

\* Unmounting takes away the path of its mount point, which leads to a device with no
\* open file and no open directory, and changes no other path.
LEMMA UnMountRemovesPath ==
  ASSUME TablesTypeOK, TablesUnambiguous, NEW m \in MountPoint, UnMount(m)
  PROVE  /\ \A p : p # m => Resolve(p)' = Resolve(p)
         /\ VolumesAt(m)' = {}
         /\ \A v \in Resolve(m) : ~ Busy(v)
<1> DEFINE i == First(VolumesAt(m))
<1>1. PICK v : v \in Resolve(m) /\ ~ Busy(v)
  BY DEF UnMount
<1>2. \A w \in Resolve(m) : w = v
  BY <1>1 DEF Resolve
<1>3. VolumesAt(m) # {} /\ i \in VolumesAt(m)
  BY <1>1, FirstIsElement, TablesAssumption DEF Resolve, VolumesAt, VolumeIndex
<1>4. /\ deviceTable' = deviceTable
      /\ volumeTable' = [volumeTable EXCEPT ![i] = ZeroVolume]
      /\ \A x : DevicesNamed(x)' = DevicesNamed(x)
  BY DEF UnMount, DevicesNamed
<1> HIDE DEF i
<1>5. \A j \in VolumeIndex : volumeTable'[j] = IF j = i THEN ZeroVolume ELSE volumeTable[j]
  BY <1>4 DEF TablesTypeOK
<1>6. VolumesAt(m)' = {}
  BY <1>3, <1>5 DEF VolumesAt, TablesUnambiguous, ZeroVolume
<1>7. ASSUME NEW p, p # m
      PROVE  Resolve(p)' = Resolve(p)
  <2>1. VolumesAt(p)' = VolumesAt(p) /\ i \notin VolumesAt(p)
    BY <1>3, <1>5, <1>7 DEF VolumesAt, ZeroVolume
  <2>2. CASE VolumesAt(p) = {}
    BY <2>1, <2>2 DEF Resolve
  <2>3. CASE VolumesAt(p) # {}
    <3>1. First(VolumesAt(p)) \in VolumesAt(p)
      BY <2>3, FirstIsElement, TablesAssumption DEF VolumesAt, VolumeIndex
    <3>2. volumeTable'[First(VolumesAt(p))] = volumeTable[First(VolumesAt(p))]
      BY <1>5, <2>1, <3>1 DEF VolumesAt
    <3> QED BY <1>4, <2>1, <3>2 DEF Resolve
  <2> QED BY <2>2, <2>3
<1> QED BY <1>1, <1>2, <1>6, <1>7

\* Every open file and directory keeps a path that leads to its device.
LEMMA MountedStep ==
  ASSUME FilesysInv, TablesUnambiguous, OpenFilesMounted, [FilesysNext]_filesysVars
  PROVE  OpenFilesMounted'
<1>1. /\ TypeOK /\ TablesTypeOK /\ EntriesValid
      /\ \A i \in VolumeIndex : volumeTable[i].InUse =>
           Resolve(volumeTable[i].MountPoint) # {}
      /\ \A d \in Descriptor : fdTable[d].InUse => Mounted(fdTable[d].InodeTable)
      /\ dir.InUse => Mounted(dir.InodeTable)
  BY DEF FilesysInv, OpenFilesMounted, Mounted
<1>2. ASSUME UsesFollow, UNCHANGED tables
      PROVE  OpenFilesMounted'
  <2>1. volumeTable' = volumeTable /\ \A m : Resolve(m)' = Resolve(m)
    BY <1>2 DEF tables, Resolve, VolumesAt, DevicesNamed
  <2> QED BY <1>1, <1>2, <2>1 DEF UsesFollow, OpenFilesMounted, Mounted
<1>3. ASSUME NEW name \in DeviceName, NEW base \in Device, InitFS(name, base)
      PROVE  OpenFilesMounted'
  <2>1. volumeTable' = volumeTable /\ fdTable' = fdTable /\ dir' = dir
    BY <1>3 DEF InitFS, LibInitFS
  <2>2. \A m : Resolve(m)' = Resolve(m)
    BY <1>1, <1>3, InitFSKeepsPaths
  <2> QED BY <2>1, <2>2 DEF OpenFilesMounted
<1>4. ASSUME NEW name \in DeviceName, NEW m \in MountPoint, Mount(name, m)
      PROVE  OpenFilesMounted'
  <2>1. fdTable' = fdTable /\ dir' = dir
    BY <1>4 DEF Mount, vars
  <2>2. \A v : Mounted(v) => Mounted(v)'
    BY <1>1, <1>4, MountAddsPath DEF Mounted
  <2>3. \A i \in VolumeIndex :
          volumeTable'[i] = volumeTable[i] \/ volumeTable'[i].MountPoint = m
    BY <1>1, <1>4 DEF Mount, NewVolume, TablesTypeOK
  <2>4. \A p : Resolve(p) # {} => Resolve(p)' # {}
    BY <1>1, <1>4, MountAddsPath
  <2>5. Resolve(m)' # {}
    BY <1>1, <1>4, MountAddsPath
  <2> QED BY <1>1, <2>1, <2>2, <2>3, <2>4, <2>5 DEF OpenFilesMounted, Mounted
<1>5. ASSUME NEW m \in MountPoint, UnMount(m)
      PROVE  OpenFilesMounted'
  <2>1. fdTable' = fdTable /\ dir' = dir
    BY <1>5 DEF UnMount, vars
  <2>2. /\ \A p : p # m => Resolve(p)' = Resolve(p)
        /\ VolumesAt(m)' = {}
        /\ \A v \in Resolve(m) : ~ Busy(v)
    BY <1>1, <1>5, UnMountRemovesPath
  <2>3. \A d \in Descriptor : fdTable[d].InUse => Busy(fdTable[d].InodeTable)
    BY DEF Busy, HasOpenFiles, OpenOn
  <2>4. dir.InUse => Busy(dir.InodeTable)
    BY DEF Busy, HasOpenDir
  <2>5. \A v : Mounted(v) /\ Busy(v) => Mounted(v)'
    BY <2>2 DEF Mounted
  <2>6. \A i \in VolumeIndex : volumeTable'[i].InUse =>
          volumeTable[i] = volumeTable'[i] /\ volumeTable'[i].MountPoint # m
    BY <1>1, <1>5, <2>2 DEF UnMount, ZeroVolume, TablesTypeOK, VolumesAt
  <2> QED BY <1>1, <2>1, <2>2, <2>3, <2>4, <2>5, <2>6 DEF OpenFilesMounted, Mounted
<1>6. CASE LibInit /\ ResetTables
  BY <1>6, ResetUses DEF OpenFilesMounted, ResetTables, ZeroVolume
<1>7. CASE LibraryCall /\ UNCHANGED tables
  BY <1>1, <1>2, <1>7, LibraryCallUses
<1>8. CASE UNCHANGED filesysVars
  BY <1>2, <1>8 DEF filesysVars, vars, tables, UsesFollow, Loaded
<1> QED BY <1>3, <1>4, <1>5, <1>6, <1>7, <1>8 DEF FilesysNext, Reset, ResetDuringClose

\* "Note that the DeviceName and the BaseAddress of the file system must be unique": they
\* are, and so are the mount points, whatever the sizes of the tables.
THEOREM NamesUnambiguous == FilesysSpec => []TablesUnambiguous
<1>1. FilesysInit => TablesUnambiguous
  BY DEF FilesysInit, TablesUnambiguous, ZeroDevice, ZeroVolume
<1>2. FilesysInv /\ TablesUnambiguous /\ [FilesysNext]_filesysVars => TablesUnambiguous'
  BY UnambiguousStep DEF FilesysInv
<1> QED BY <1>1, <1>2, FilesysInvInductive, PTL DEF FilesysSpec

\* "can't unmount a volume while files are open": an open file or directory always has a
\* volume that leads to its device, and no volume ever leads nowhere.
THEOREM OpenFilesStayMounted == FilesysSpec => []OpenFilesMounted
<1>1. FilesysInit => OpenFilesMounted
  BY DEF FilesysInit, Init, OpenFilesMounted, ZeroVolume, ZeroDescriptor, ZeroDirectory
<1>2. FilesysInv /\ TablesUnambiguous /\ OpenFilesMounted /\ [FilesysNext]_filesysVars
        => OpenFilesMounted'
  BY MountedStep
<1> QED BY <1>1, <1>2, NamesUnambiguous, FilesysInvInductive, PTL DEF FilesysSpec
=============================================================================
