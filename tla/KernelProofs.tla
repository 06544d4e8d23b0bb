---------------------------- MODULE KernelProofs ----------------------------
(***************************************************************************)
(* Theorems about the kernel: every place of the program holds exactly the *)
(* descriptor it needs and the splash screen shows what the boot wrote,    *)
(* whatever the user's habits.  Of a user who never restarts: the boot     *)
(* gets the file system going, and every step is one of the path layer.    *)
(* If that user adds new names only, files stay intact and apart under the *)
(* flags of the kernel's build, although the library alone does not        *)
(* separate files under them.                                              *)
(***************************************************************************)
EXTENDS Kernel, EefsFilesysProofs

(***************************************************************************)
(* The calls of the kernel are calls of the path layer                     *)
(***************************************************************************)
\* A call with the kernel's mount point in front of a file name is one of the path layer.
LEMMA PathCall ==
  ASSUME NEW filename \in Filename,
         noosfs_create(filename) \/ noosfs_open(filename) \/ noosfs_delete(filename)
  PROVE  FilesysNext
<1> DEFINE path == tempname(filename)
<1>1. path \in Path
  BY NoOSAssumption DEF tempname, Path
<1>2. \/ Creat(path, NONE) \/ Open(path, O_RDWR) \/ Remove(path)
  BY DEF noosfs_create, noosfs_open, noosfs_delete
<1>3. UNCHANGED tables
  BY DEF noosfs_create, noosfs_open, noosfs_delete
<1> HIDE DEF path
<1>4. LibraryCall
  BY <1>1, <1>2, CallerAssumption DEF LibraryCall
<1> QED BY <1>3, <1>4 DEF FilesysNext

\* A call on a descriptor is one of the path layer.
LEMMA FdCall ==
  ASSUME NEW d, noosfs_close(d) \/ (\E size \in Lengths : noosfs_read(d, size))
                \/ (\E size \in Lengths, b \in Byte : noosfs_write(d, size, b))
  PROVE  FilesysNext
<1>1. d \in Descriptor
  BY DEF noosfs_close, noosfs_read, noosfs_write, LibClose, LibRead, LibWrite,
         IsValidFileDescriptor
<1>2. DescriptorCall(d) /\ UNCHANGED tables
  BY DEF noosfs_close, noosfs_read, noosfs_write, DescriptorCall
<1> QED BY <1>1, <1>2 DEF FilesysNext, LibraryCall

\* So is each call that lists the directory.
LEMMA ListCall ==
  ASSUME noosfs_list_open \/ noosfs_list_entry \/ noosfs_list_close
  PROVE  FilesysNext
BY NoOSAssumption
   DEF noosfs_list_open, noosfs_list_entry, noosfs_list_close, FilesysNext, LibraryCall

\* The boot changes the file system by calls of the path layer, after it has formatted
\* the buffer.
LEMMA BootCalls ==
  ASSUME Boot
  PROVE  \/ FilesysNext \/ UNCHANGED filesysVars
         \/ phase = "format" /\ phase' = "init" /\ noosfs_format
<1>1. {BuildSize, BuildBufferSize} \subseteq Lengths /\ BuildByte \in Byte /\ BuildFile \in Filename
  BY CallerAssumption, KernelAssumption
<1>2. \/ UNCHANGED filesysVars
      \/ phase = "format" /\ phase' = "init" /\ noosfs_format
      \/ noosfs_init \/ noosfs_mount
      \/ noosfs_create(BuildFile) \/ noosfs_open(BuildFile)
      \/ noosfs_write(fd, BuildSize, BuildByte) \/ noosfs_close(fd)
      \/ noosfs_read(fd, BuildBufferSize)
  BY DEF Boot, Step, OnFd, OpenAs, ReadBuild
<1>3. noosfs_init \/ noosfs_mount => FilesysNext
  BY NoOSAssumption DEF noosfs_init, noosfs_mount, FilesysNext
<1> QED BY <1>1, <1>2, <1>3, PathCall, FdCall

\* So do the commands.
LEMMA CommandCalls ==
  ASSUME KernelNext, ~ Boot
  PROVE  FilesysNext \/ UNCHANGED filesysVars
<1>1. {LineSize, 1} \subseteq Lengths
  BY CallerAssumption
<1>2. \/ UNCHANGED filesysVars
      \/ \E filename \in Filename : \/ noosfs_create(filename) \/ noosfs_open(filename)
                                    \/ noosfs_delete(filename)
      \/ noosfs_close(fd) \/ noosfs_read(fd, 1)
      \/ \E b \in Byte : noosfs_write(fd, LineSize, b)
      \/ noosfs_list_open \/ noosfs_list_entry \/ noosfs_list_close
  BY DEF KernelNext, Program, User, Restart, Add, Rewrite, Show, Kill, TypeLine, EndInput,
         List, ShowByte, EndShow, ListEntry, EndList, Command, OnFd, OpenAs
<1> QED BY <1>1, <1>2, PathCall, FdCall, ListCall

\* Every step of the kernel is one of the path layer, except that it formats the buffer.
LEMMA KernelStep ==
  ASSUME [KernelNext]_kernelVars
  PROVE  \/ [FilesysNext]_filesysVars
         \/ phase = "format" /\ phase' = "init" /\ noosfs_format
BY BootCalls, CommandCalls DEF kernelVars

\* Formatting the buffer keeps the invariant of the path layer.
LEMMA FormatKeepsFilesys ==
  ASSUME FilesysInv, noosfs_format
  PROVE  FilesysInv'
<1>1. EmptyFat \in Table
  <2>1. FatSize \in Nat /\ DeviceSize - FatSize \in Nat
    BY SizesAssumption
  <2> QED BY <2>1, ZeroTypes DEF EmptyFat, Table
<1>2. [a \in Address |-> ErasedByte] \in [Address -> Cell]
  BY DEF Cell
<1>3. TypeOK'
  BY <1>1, <1>2 DEF FilesysInv, noosfs_format, TypeOK, counters
<1>4. TablesTypeOK' /\ EntriesValid'
  BY DEF FilesysInv, noosfs_format, tables, TablesTypeOK, EntriesValid
<1>5. OnlyRegisteredInUse'
  BY DEF FilesysInv, noosfs_format, tables, OnlyRegisteredInUse, Loaded, Registered
<1> QED BY <1>3, <1>4, <1>5 DEF FilesysInv

LEMMA KernelFilesys ==
  /\ KernelInit => FilesysInv
  /\ FilesysInv /\ [KernelNext]_kernelVars => FilesysInv'
BY KernelStep, FormatKeepsFilesys, FilesysInvInductive DEF KernelInit

(***************************************************************************)
(* The inductive invariant: what the boot has achieved at each place       *)
(***************************************************************************)
OpenFds == {d \in Descriptor : fdTable[d].InUse}

\* EEFS_InitFS has filled one entry of the device table; nothing is mounted.
DeviceReady ==
  /\ \E i \in DeviceIndex :
       /\ deviceTable[i] = [InUse |-> TRUE, BaseAddress |-> Buffer, DeviceName |-> NoOSDevice]
       /\ \A j \in DeviceIndex \ {i} : ~ deviceTable[j].InUse
  /\ \A i \in VolumeIndex : ~ volumeTable[i].InUse
  /\ inode[Buffer] = EmptyFat

BankMounted == Resolve(NoOSBank) = {Buffer}

\* The build file is the only file of the device, and its header says that it has this size.
BuildStored(size) ==
  /\ inode[Buffer].NumberOfFiles = 1
  /\ inode[Buffer].File[0].FileHeaderPointer = FatSize
  /\ IntactHeader(eeprom[Buffer], FatSize)
  /\ LET h == HeaderAt(eeprom[Buffer], FatSize)
     IN  h.InUse /\ h.Attributes = NONE /\ h.FileSize = size /\ h.Filename = BuildFile

BuildWritten ==
  \A k \in 0 .. BuildSize - 1 : eeprom[Buffer][FatSize + HeaderSize + k] = BuildByte

\* A descriptor of the build file that has moved over this many bytes.
OnBuildFile(f, moved, size) ==
  /\ f.InodeTable = Buffer /\ f.InodeIndex = 0
  /\ f.FileHeaderPointer = FatSize
  /\ f.FileDataPointer = FatSize + HeaderSize + moved
  /\ f.ByteOffset = moved /\ f.FileSize = size

Creating(f, moved) ==
  /\ OnBuildFile(f, moved, moved)
  /\ f.Mode = {FWRITE, FCREAT}
  /\ f.MaxFileSize = DeviceSize - FatSize - HeaderSize

BuildText == [k \in 0 .. BuildSize - 1 |-> BuildByte]

\* The boot is over: the kernel's mount point leads to its device, for ever.
Booted == BankMounted /\ build = BuildText

\* A first boot succeeds step by step; a boot after a restart fails at its second step.
BootInv ==
  /\ phase \in {"format", "init"} => FilesysInit \/ (Booted /\ "restart" \in Habits)
  /\ phase = "mount" => DeviceReady
  /\ phase = "create" => BankMounted /\ inode[Buffer] = EmptyFat
  /\ phase = "write" => BankMounted /\ BuildStored(0) /\ Creating(fdTable[fd], 0)
  /\ phase = "close" => /\ BankMounted /\ BuildStored(0) /\ BuildWritten
                        /\ Creating(fdTable[fd], BuildSize)
  /\ phase = "open" => BankMounted /\ BuildStored(BuildSize) /\ BuildWritten
  /\ phase = "read" => /\ BankMounted /\ BuildStored(BuildSize) /\ BuildWritten
                       /\ OnBuildFile(fdTable[fd], 0, BuildSize)
                       /\ fdTable[fd].Mode = OpenMode(O_RDWR)
  /\ phase = "close again" => BankMounted /\ BuildStored(BuildSize) /\ build = BuildText
  /\ phase \in {"shell", "edit", "show", "list"} => Booted

KernelInv == FilesysInv /\ DescriptorsOwned /\ BootInv

(***************************************************************************)
(* What the calls do to the tables and descriptors                         *)
(***************************************************************************)
\* The two tables decide what a mount point leads to.
LEMMA ResolveSame ==
  ASSUME UNCHANGED tables
  PROVE  BankMounted' <=> BankMounted
BY DEF tables, BankMounted, Resolve, DevicesNamed, VolumesAt

\* EEFS_LibGetFileDescriptor takes the entry whose index the kernel keeps in fd.
LEMMA Taken ==
  ASSUME TypeOK, NEW g, g.InUse, GetFileDescriptor(g), fd' = First(FreeDescriptors)
  PROVE  /\ fd' \in FreeDescriptors
         /\ fdTable' = [fdTable EXCEPT ![fd'] = g]
         /\ fdTable'[fd'] = g
         /\ OpenFds' = OpenFds \cup {fd'}
<1>1. FreeDescriptors \in SUBSET Nat /\ FreeDescriptors # {}
  BY SizesAssumption DEF FreeDescriptors, Descriptor, GetFileDescriptor
<1>2. fd' \in FreeDescriptors
  BY <1>1, FirstIsElement
<1>3. fdTable' = [fdTable EXCEPT ![fd'] = g]
  BY DEF GetFileDescriptor, First
<1>4. fdTable'[fd'] = g
  BY <1>2, <1>3 DEF TypeOK, FreeDescriptors
<1> QED BY <1>2, <1>3, <1>4 DEF TypeOK, FreeDescriptors, OpenFds

\* Creating or opening a file opens the descriptor in fd and nothing else.
LEMMA OpenAsOpens ==
  ASSUME FilesysInv, NEW filename \in Filename,
         OpenAs(noosfs_create(filename)) \/ OpenAs(noosfs_open(filename))
  PROVE  /\ OpenFds' = OpenFds \cup {fd'} /\ dir' = dir
         /\ UNCHANGED tables /\ build' = build
<1>1. fd' = First(FreeDescriptors) /\ UNCHANGED tables /\ build' = build
  BY DEF OpenAs, noosfs_create, noosfs_open
<1>2. PICK v : \/ LibCreat(v, filename, NONE)
               \/ LibOpen(v, filename, O_RDWR)
  BY DEF OpenAs, noosfs_create, noosfs_open, Creat, Open, tempname
<1>3. \/ \E i, Flags : LibOpenFile(v, i, Flags)
      \/ LibCreatFile(v, filename, NONE)
  BY <1>2 DEF LibCreat, LibOpen
<1>4. /\ \E i, mode, size, max : GetFileDescriptor(NewDescriptor(v, i, mode, size, max))
      /\ dir' = dir
  BY <1>3 DEF LibOpenFile, LibCreatFile
<1>5. PICK g : GetFileDescriptor(g) /\ g.InUse
  BY <1>4 DEF NewDescriptor
<1> QED BY <1>1, <1>4, <1>5, Taken DEF FilesysInv

\* Reading and writing open and close nothing.
LEMMA TransferKeeps ==
  ASSUME FilesysInv, NEW d,
         \/ \E size \in Lengths : noosfs_read(d, size)
         \/ \E size \in Lengths, b \in Byte : noosfs_write(d, size, b)
  PROVE  OpenFds' = OpenFds /\ dir' = dir /\ UNCHANGED tables
<1>1. \/ \E size \in Lengths : LibRead(d, size)
      \/ \E size \in Lengths, b \in Byte : LibWrite(d, size, b)
  BY DEF noosfs_read, noosfs_write
<1>2. d \in Descriptor /\ dir' = dir
  BY <1>1 DEF LibRead, LibWrite, IsValidFileDescriptor
<1>3. \A e \in Descriptor : fdTable'[e].InUse = fdTable[e].InUse
  BY <1>1, <1>2, TransferStep DEF FilesysInv
<1>4. UNCHANGED tables
  BY DEF noosfs_read, noosfs_write
<1> QED BY <1>2, <1>3, <1>4 DEF OpenFds

\* Closing a descriptor closes nothing else.
LEMMA CloseFrees ==
  ASSUME FilesysInv, NEW d, noosfs_close(d)
  PROVE  OpenFds' = OpenFds \ {d} /\ dir' = dir /\ UNCHANGED tables
<1>1. /\ d \in Descriptor /\ dir' = dir /\ UNCHANGED tables
      /\ fdTable' = [fdTable EXCEPT ![d] = ZeroDescriptor]
  BY DEF noosfs_close, LibClose, IsValidFileDescriptor, FreeFileDescriptor
<1>2. ~ ZeroDescriptor.InUse
  BY DEF ZeroDescriptor
<1> QED BY <1>1, <1>2 DEF OpenFds, FilesysInv, TypeOK

(***************************************************************************)
(* DescriptorsOwned                                                        *)
(***************************************************************************)
\* The places of the program that hold a descriptor.
Holding == {"write", "close", "read", "close again", "edit", "show"}

LEMMA OwnedMeans ==
  /\ DescriptorsOwned <=> /\ OpenFds = IF phase \in Holding THEN {fd} ELSE {}
                          /\ dir.InUse <=> phase = "list"
  /\ DescriptorsOwned' <=> /\ OpenFds' = IF phase' \in Holding THEN {fd'} ELSE {}
                           /\ dir'.InUse <=> phase' = "list"
BY DEF DescriptorsOwned, OpenFds, Holding

\* A step of the boot passes its descriptor on to the next step.  It could not give up a
\* descriptor because a write or a read fails: those do not.
LEMMA BootOwns ==
  ASSUME FilesysInv, DescriptorsOwned, Boot,
         phase = "write" => WriteSucceeds(fd), phase = "read" => ReadSucceeds(fd)
  PROVE  DescriptorsOwned'
<1>1. CASE Step("format", TRUE, OnFd(noosfs_format), "init")
  <2>1. OpenFds' = OpenFds /\ dir' = dir
    BY <1>1 DEF Step, OnFd, noosfs_format, OpenFds
  <2> QED BY <1>1, <2>1, OwnedMeans DEF Step, Holding
<1>2. CASE Step("init", InitSucceeds, OnFd(noosfs_init), "mount")
  <2>1. OpenFds' = OpenFds /\ dir' = dir
    BY <1>2 DEF Step, OnFd, noosfs_init, InitFS, LibInitFS, OpenFds, filesysVars, vars
  <2> QED BY <1>2, <2>1, OwnedMeans DEF Step, Holding
<1>3. CASE Step("mount", MountSucceeds, OnFd(noosfs_mount), "create")
  <2>1. OpenFds' = OpenFds /\ dir' = dir
    BY <1>3 DEF Step, OnFd, noosfs_mount, Mount, OpenFds, filesysVars, vars
  <2> QED BY <1>3, <2>1, OwnedMeans DEF Step, Holding
<1>4. CASE \/ Step("create", CreateSucceeds(BuildFile), OpenAs(noosfs_create(BuildFile)), "write")
           \/ Step("open", OpenSucceeds(BuildFile), OpenAs(noosfs_open(BuildFile)), "read")
  <2>1. phase \in {"create", "open"}
    BY <1>4 DEF Step
  <2>2. CASE OpenAs(noosfs_create(BuildFile)) \/ OpenAs(noosfs_open(BuildFile))
    <3>1. phase' \in {"write", "read"} \/ (phase' = "shell" /\ UNCHANGED <<filesysVars, fd>>)
      BY <1>4 DEF Step
    <3>2. OpenFds' = OpenFds \cup {fd'} /\ dir' = dir
      BY <2>2, KernelAssumption, OpenAsOpens
    <3>3. CASE phase' \in {"write", "read"}
      BY <2>1, <3>2, <3>3, OwnedMeans DEF Holding
    <3>4. CASE phase' = "shell" /\ UNCHANGED <<filesysVars, fd>>
      <4>1. OpenFds' = OpenFds
        BY <3>4 DEF OpenFds, filesysVars, vars
      <4> QED BY <2>1, <3>2, <3>4, <4>1, OwnedMeans DEF Holding
    <3> QED BY <3>1, <3>3, <3>4
  <2>3. CASE phase' = "shell" /\ UNCHANGED filesysVars
    <3>1. OpenFds' = OpenFds /\ dir' = dir
      BY <2>3 DEF OpenFds, filesysVars, vars
    <3> QED BY <2>1, <2>3, <3>1, OwnedMeans DEF Holding
  <2> QED BY <1>4, <2>2, <2>3 DEF Step
<1>5. CASE \/ Step("write", WriteSucceeds(fd), OnFd(noosfs_write(fd, BuildSize, BuildByte)), "close")
           \/ Step("read", ReadSucceeds(fd), ReadBuild, "close again")
  <2>1. /\ \/ noosfs_write(fd, BuildSize, BuildByte)
           \/ noosfs_read(fd, BuildBufferSize)
        /\ phase \in {"write", "read"} /\ phase' \in {"close", "close again"} /\ fd' = fd
    BY <1>5 DEF Step, OnFd, ReadBuild
  <2>2. OpenFds' = OpenFds /\ dir' = dir
    BY <2>1, TransferKeeps, CallerAssumption, KernelAssumption
  <2> QED BY <2>1, <2>2, OwnedMeans DEF Holding
<1>6. CASE \/ Step("close", CloseSucceeds(fd), OnFd(noosfs_close(fd)), "open")
           \/ Step("close again", CloseSucceeds(fd), OnFd(noosfs_close(fd)), "shell")
  <2>1. /\ phase \in {"close", "close again"} /\ phase' \in {"open", "shell"}
        /\ noosfs_close(fd) \/ ~ CloseSucceeds(fd)
    BY <1>6 DEF Step, OnFd
  <2>2. OpenFds = {fd} /\ ~ dir.InUse
    BY <2>1, OwnedMeans DEF Holding
  <2>3. CloseSucceeds(fd)
    BY <2>2 DEF CloseSucceeds, IsValidFileDescriptor, OpenFds
  <2>4. OpenFds' = OpenFds \ {fd} /\ dir' = dir
    BY <2>1, <2>3, CloseFrees
  <2> QED BY <2>1, <2>2, <2>4, OwnedMeans DEF Holding
<1> QED BY <1>1, <1>2, <1>3, <1>4, <1>5, <1>6 DEF Boot

\* A command that opens a file or the directory closes it before the prompt returns.
LEMMA CommandOwns ==
  ASSUME FilesysInv, DescriptorsOwned, KernelNext, ~ Boot
  PROVE  DescriptorsOwned'
<1>1. CASE Restart
  <2>1. OpenFds' = OpenFds /\ dir' = dir
    BY <1>1 DEF Restart, OpenFds, filesysVars, vars
  <2> QED BY <1>1, <2>1, OwnedMeans DEF Restart, Holding
<1>2. ASSUME NEW filename \in Filename, Add(filename) \/ Rewrite(filename) \/ Show(filename)
      PROVE  DescriptorsOwned'
  <2>1. /\ OpenAs(noosfs_create(filename)) \/ OpenAs(noosfs_open(filename))
        /\ phase = "shell" /\ phase' \in {"edit", "show"}
    BY <1>2 DEF Add, Rewrite, Show, Command
  <2>2. OpenFds' = OpenFds \cup {fd'} /\ dir' = dir
    BY <2>1, OpenAsOpens
  <2> QED BY <2>1, <2>2, OwnedMeans DEF Holding
<1>3. ASSUME NEW filename \in Filename, Kill(filename)
      PROVE  DescriptorsOwned'
  <2>1. OpenFds' = OpenFds /\ dir' = dir
    BY <1>3 DEF Kill, Command, OnFd, noosfs_delete, Remove, LibRemove, StoreHeader, OpenFds
  <2> QED BY <1>3, <2>1, OwnedMeans DEF Kill, Command, Holding
<1>4. CASE ShowByte \/ \E b \in Byte : TypeLine(b)
  <2>1. /\ noosfs_read(fd, 1) \/ \E b \in Byte : noosfs_write(fd, LineSize, b)
        /\ phase \in {"edit", "show"} /\ phase' = phase /\ fd' = fd
    BY <1>4 DEF ShowByte, TypeLine, OnFd
  <2>2. OpenFds' = OpenFds /\ dir' = dir
    BY <2>1, TransferKeeps, CallerAssumption
  <2> QED BY <2>1, <2>2, OwnedMeans DEF Holding
<1>5. CASE EndInput \/ EndShow
  <2>1. noosfs_close(fd) /\ phase \in {"edit", "show"} /\ phase' = "shell"
    BY <1>5 DEF EndInput, EndShow, OnFd
  <2>2. OpenFds' = OpenFds \ {fd} /\ dir' = dir
    BY <2>1, CloseFrees
  <2> QED BY <2>1, <2>2, OwnedMeans DEF Holding
<1>6. CASE List
  <2>1. OpenFds' = OpenFds /\ dir'.InUse
    BY <1>6 DEF List, Command, OnFd, noosfs_list_open, OpenDir, LibOpenDir, OpenFds
  <2> QED BY <1>6, <2>1, OwnedMeans DEF List, Command, Holding
<1>7. CASE ListEntry
  <2>1. OpenFds' = OpenFds /\ dir'.InUse
    BY <1>7 DEF ListEntry, OnFd, noosfs_list_entry, LibReadDir, OpenFds, FilesysInv, TypeOK,
                DirectoryDescriptor
  <2> QED BY <1>7, <2>1, OwnedMeans DEF ListEntry, Holding
<1>8. CASE EndList
  <2>1. OpenFds' = OpenFds /\ ~ dir'.InUse
    BY <1>8 DEF EndList, OnFd, noosfs_list_close, LibCloseDir, ZeroDirectory, OpenFds
  <2> QED BY <1>8, <2>1, OwnedMeans DEF EndList, Holding
<1> QED BY <1>1, <1>2, <1>3, <1>4, <1>5, <1>6, <1>7, <1>8 DEF KernelNext, Program, User

LEMMA BuildSizes == BuildSize \in Nat /\ BuildBufferSize \in Nat
BY ZenonT(20), KernelAssumption

\* The build file lies behind its header, and all of it fits into the buffer.
LEMMA BuildLengths ==
  ASSUME BuildFits
  PROVE  /\ FatSize + HeaderSize + 0 = FatSize + HeaderSize
         /\ USub(BuildSize, 0) = BuildSize
         /\ Lesser(BuildSize, BuildBufferSize) = BuildSize
<1>1. FatSize + HeaderSize + 0 = FatSize + HeaderSize
  BY SizesAssumption
<1>2. USub(BuildSize, 0) = BuildSize
  BY BuildSizes DEF USub
<1>3. Lesser(BuildSize, BuildBufferSize) = BuildSize
  BY BuildSizes DEF BuildFits, Lesser
<1> QED BY <1>1, <1>2, <1>3

(***************************************************************************)
(* The first boot, step by step                                            *)
(***************************************************************************)
\* What every place of the boot has of the invariant.
AtBoot(place) == FilesysInv /\ DescriptorsOwned /\ BootInv /\ phase = place

\* A program that has just started formats a buffer that is already as formatted.
LEMMA FormatAgain ==
  ASSUME FilesysInit, noosfs_format
  PROVE  UNCHANGED filesysVars
<1>1. /\ eeprom = [v \in Device |-> [a \in Address |-> ErasedByte]]
      /\ fat = [v \in Device |-> EmptyFat]
  BY DEF FilesysInit, Init
<1>2. eeprom' = eeprom
  BY <1>1 DEF noosfs_format
<1>3. fat' = fat
  BY <1>1 DEF noosfs_format
<1> QED BY <1>2, <1>3 DEF noosfs_format, filesysVars, vars, counters, tables

LEMMA FormatStep ==
  ASSUME AtBoot("format"), Step("format", TRUE, OnFd(noosfs_format), "init")
  PROVE  BootInv' /\ phase' = "init"
<1>1. noosfs_format /\ phase' = "init" /\ build' = build
  BY DEF Step, OnFd
<1>2. CASE FilesysInit
  <2>1. UNCHANGED filesysVars
    BY <1>1, <1>2, FormatAgain
  <2>2. FilesysInit'
    BY <1>2, <2>1 DEF filesysVars, vars, tables, FilesysInit, Init
  <2> QED BY <1>1, <2>2 DEF BootInv
<1>3. CASE Booted /\ "restart" \in Habits
  BY <1>1, <1>3, ResolveSame DEF noosfs_format, Booted, BuildText, BootInv
<1> QED BY <1>1, <1>2, <1>3 DEF AtBoot, BootInv

\* After a restart the device is still configured and EEFS_InitFS refuses it.
LEMMA InitStep ==
  ASSUME AtBoot("init"), Step("init", InitSucceeds, OnFd(noosfs_init), "mount")
  PROVE  BootInv' /\ (phase' = "mount" \/ "restart" \in Habits)
<1>1. CASE FilesysInit
  <2>1. \A i \in DeviceIndex : ~ deviceTable[i].InUse
    BY <1>1 DEF FilesysInit, ZeroDevice
  <2>2. FreeDevices = DeviceIndex /\ 0 \in FreeDevices
    BY <2>1, TablesAssumption DEF FreeDevices, DeviceIndex
  <2>3. fat[Buffer] = EmptyFat /\ EmptyFat.NumberOfFiles = 0
    BY <1>1, NoOSAssumption DEF FilesysInit, Init, EmptyFat, ZeroTable
  <2>4. InitSucceeds
    BY <2>1, <2>2, <2>3, SizesAssumption DEF InitSucceeds, Configured
  <2>5. InitFS(NoOSDevice, Buffer) /\ phase' = "mount"
    BY <2>4 DEF Step, OnFd, noosfs_init
  <2> DEFINE entry == [InUse |-> TRUE, BaseAddress |-> Buffer, DeviceName |-> NoOSDevice]
  <2>6. PICK i \in FreeDevices : deviceTable' = [deviceTable EXCEPT ![i] = entry]
    BY <2>5, InitFSEntry, NoOSAssumption DEF AtBoot, FilesysInv
  <2>7. i \in DeviceIndex /\ deviceTable'[i] = entry
        /\ \A j \in DeviceIndex \ {i} : ~ deviceTable'[j].InUse
    BY <2>1, <2>2, <2>6 DEF AtBoot, FilesysInv, TablesTypeOK
  <2>8. \A j \in VolumeIndex : ~ volumeTable'[j].InUse
    BY <1>1, <2>5 DEF InitFS, FilesysInit, ZeroVolume
  <2>9. inode'[Buffer] = EmptyFat
    <3>1. inode'[Buffer] = [fat[Buffer] EXCEPT !.File = [j \in FileIndex |->
            IF j < fat[Buffer].NumberOfFiles THEN fat[Buffer].File[j] ELSE ZeroTable.File[j]]]
      BY <2>5, NoOSAssumption DEF InitFS, LibInitFS, AtBoot, FilesysInv, TypeOK
    <3>2. \A j \in FileIndex : ~ (j < 0)
      BY DEF FileIndex
    <3>3. inode'[Buffer] = [EmptyFat EXCEPT !.File = [j \in FileIndex |-> ZeroTable.File[j]]]
      BY <2>3, <3>1, <3>2
    <3>4. ZeroTable.File = [j \in FileIndex |-> ZeroTable.File[j]] /\ EmptyFat.File = ZeroTable.File
      BY DEF ZeroTable, EmptyFat
    <3> QED BY <3>3, <3>4 DEF EmptyFat, ZeroTable
  <2> HIDE DEF entry
  <2>10. DeviceReady'
    BY <2>7, <2>8, <2>9 DEF DeviceReady, entry
  <2> QED BY <2>5, <2>10 DEF BootInv
<1>2. CASE Booted /\ "restart" \in Habits
  <2>1. Registered(Buffer)
    BY <1>2, ResolveRegistered DEF Booted, BankMounted, AtBoot, FilesysInv
  <2>2. ~ InitSucceeds
    BY <2>1 DEF InitSucceeds, Configured, Registered
  <2>3. phase' = "shell" /\ UNCHANGED filesysVars /\ build' = build
    BY <2>2 DEF Step
  <2>4. Booted'
    BY <1>2, <2>3, ResolveSame DEF Booted, BuildText, filesysVars, tables
  <2>5. BootInv'
    BY <2>3, <2>4 DEF BootInv
  <2> QED BY <1>2, <2>5
<1> QED BY <1>1, <1>2 DEF AtBoot, BootInv

\* A set of one index has that index first.
LEMMA FirstOfOne ==
  ASSUME NEW i \in Nat
  PROVE  First({i}) = i
BY FirstIsElement

LEMMA MountStep ==
  ASSUME AtBoot("mount"), Step("mount", MountSucceeds, OnFd(noosfs_mount), "create")
  PROVE  BootInv' /\ phase' = "create"
<1>1. DeviceReady /\ TablesTypeOK
  BY DEF AtBoot, BootInv, FilesysInv
<1>2. PICK i \in DeviceIndex :
        /\ deviceTable[i] = [InUse |-> TRUE, BaseAddress |-> Buffer, DeviceName |-> NoOSDevice]
        /\ \A j \in DeviceIndex \ {i} : ~ deviceTable[j].InUse
  BY <1>1 DEF DeviceReady
<1>3. DevicesNamed(NoOSDevice) = {i} /\ i \in Nat
  BY <1>2, TablesAssumption DEF DevicesNamed, DeviceIndex
<1>4. FreeVolumes = VolumeIndex /\ 0 \in FreeVolumes /\ Unmounted(NoOSBank)
  BY <1>1, TablesAssumption DEF DeviceReady, FreeVolumes, VolumeIndex, Unmounted, VolumesAt
<1>5. MountSucceeds
  BY <1>3, <1>4 DEF MountSucceeds
<1>6. Mount(NoOSDevice, NoOSBank) /\ phase' = "create"
  BY <1>5 DEF Step, OnFd, noosfs_mount
<1> DEFINE j == First(FreeVolumes)
<1>7. j \in VolumeIndex /\ j \in Nat
  <2>1. VolumeIndex \in SUBSET Nat
    BY TablesAssumption DEF VolumeIndex
  <2> QED BY <1>4, <2>1, FirstIsElement
<1>8. /\ volumeTable'[j] = NewVolume(NoOSDevice, NoOSBank)
      /\ \A k \in VolumeIndex \ {j} : ~ volumeTable'[k].InUse
  BY <1>1, <1>6, <1>7 DEF Mount, TablesTypeOK, DeviceReady
<1> HIDE DEF j
<1>9. /\ volumeTable'[j].InUse /\ volumeTable'[j].MountPoint = NoOSBank
      /\ volumeTable'[j].DeviceName = NoOSDevice
  BY <1>8 DEF NewVolume
<1>10. VolumesAt(NoOSBank)' = {j} /\ First({j}) = j
  BY <1>7, <1>8, <1>9, FirstOfOne DEF VolumesAt
<1>11. deviceTable' = deviceTable /\ inode' = inode
  BY <1>6 DEF Mount, vars
<1>12. {k \in DeviceIndex : deviceTable'[k].InUse /\ deviceTable'[k].DeviceName = NoOSDevice} = {i}
  BY <1>3, <1>11 DEF DevicesNamed
<1>13. Resolve(NoOSBank)' = {Buffer}
  <2> DEFINE named == {k \in DeviceIndex : /\ deviceTable'[k].InUse
                                           /\ deviceTable'[k].DeviceName = NoOSDevice}
  <2>1. named = {i} /\ First(named) = i
    BY <1>3, <1>12, FirstOfOne
  <2>2. deviceTable'[i].BaseAddress = Buffer
    BY <1>2, <1>11
  <2>3. volumeTable'[First(VolumesAt(NoOSBank)')].DeviceName = NoOSDevice
    BY <1>9, <1>10
  <2>4. DevicesNamed(volumeTable[First(VolumesAt(NoOSBank))].DeviceName)' = named
    BY <2>3 DEF DevicesNamed
  <2>5. VolumesAt(NoOSBank)' # {} /\ named # {}
    BY <1>10, <2>1
  <2> HIDE DEF named
  <2> QED BY <2>1, <2>2, <2>4, <2>5 DEF Resolve
<1> QED BY <1>1, <1>6, <1>11, <1>13 DEF BootInv, BankMounted, DeviceReady

\* Nothing is open at this place, so that the kernel gets a descriptor.
LEMMA NothingOpen ==
  ASSUME DescriptorsOwned, phase \notin Holding
  PROVE  OpenFds = {} /\ FreeDescriptors # {} /\ \A v : OpenOn(v) = {}
<1>1. OpenFds = {}
  BY OwnedMeans
<1>2. 0 \in Descriptor
  BY SizesAssumption DEF Descriptor
<1> QED BY <1>1, <1>2 DEF OpenFds, FreeDescriptors, OpenOn

\* The build file is created as the first file of the empty device.
LEMMA CreateBuild ==
  ASSUME BuildFits, AtBoot("create"),
         Step("create", CreateSucceeds(BuildFile), OpenAs(noosfs_create(BuildFile)), "write")
  PROVE  BootInv' /\ phase' = "write"
<1> DEFINE max == DeviceSize - FatSize - HeaderSize
           h == [InUse |-> TRUE, Attributes |-> NONE, FileSize |-> 0, Filename |-> BuildFile]
           entry == [FileHeaderPointer |-> FatSize, MaxFileSize |-> max]
           g == NewDescriptor(Buffer, 0, {FWRITE, FCREAT}, 0, max)
<1>1. /\ Resolve(NoOSBank) = {Buffer} /\ inode[Buffer] = EmptyFat
      /\ TypeOK /\ Buffer \in Device
  BY NoOSAssumption DEF AtBoot, BootInv, BankMounted, FilesysInv
<1>2. /\ EmptyFat.NumberOfFiles = 0 /\ EmptyFat.FreeMemoryPointer = FatSize
      /\ EmptyFat.FreeMemorySize = DeviceSize - FatSize
  BY DEF EmptyFat, ZeroTable
<1>3. FindFile(Buffer, BuildFile) = FILE_NOT_FOUND
  BY <1>1, <1>2 DEF FindFile, Slots
<1>4. FreeDescriptors # {} /\ ~ HasOpenCreat(Buffer)
  BY NothingOpen DEF AtBoot, Holding, HasOpenCreat, Creators
<1>5. CreateSucceeds(BuildFile)
  BY <1>1, <1>2, <1>3, <1>4, SizesAssumption
     DEF BuildFits, CreateSucceeds, RoomForFile
<1>6. /\ LibCreat(Buffer, BuildFile, NONE) /\ UNCHANGED tables
      /\ phase' = "write" /\ fd' = First(FreeDescriptors)
  BY <1>1, <1>5 DEF Step, OpenAs, noosfs_create, Creat, tempname
<1>7. /\ inode' = [inode EXCEPT ![Buffer].NumberOfFiles = 1, ![Buffer].File[0] = entry]
      /\ eeprom' = [eeprom EXCEPT ![Buffer] = WriteHeader(eeprom[Buffer], FatSize, h)]
      /\ GetFileDescriptor(g)
  BY <1>1, <1>2, <1>3, <1>6 DEF LibCreat, LibCreatFile
<1>8. inode[Buffer] \in Table /\ 0 \in FileIndex
  BY <1>1, SizesAssumption DEF TypeOK, FileIndex
<1> HIDE DEF entry
<1>9. inode'[Buffer].NumberOfFiles = 1 /\ inode'[Buffer].File[0] = entry
  BY <1>1, <1>7, <1>8 DEF TypeOK, Table
<1>10. h \in FileHeader
  BY KernelAssumption DEF FileHeader
<1> HIDE DEF h
<1>11. eeprom'[Buffer] = WriteHeader(eeprom[Buffer], FatSize, h)
  BY <1>1, <1>7 DEF TypeOK
<1>12. FatSize \in Nat /\ FatSize + HeaderSize <= DeviceSize
  BY SizesAssumption DEF BuildFits
<1>13. IntactHeader(eeprom'[Buffer], FatSize) /\ HeaderAt(eeprom'[Buffer], FatSize) = h
  BY <1>10, <1>11, <1>12, HeaderWritten
<1>14. BuildStored(0)'
  BY <1>9, <1>13 DEF BuildStored, h, entry
<1>15. g.InUse /\ fdTable'[fd'] = g
  BY <1>1, <1>6, <1>7, Taken DEF NewDescriptor
<1>16. Creating(fdTable'[fd'], 0)
  <2>1. inode'[Buffer].File[0].FileHeaderPointer = FatSize
    BY <1>9 DEF entry
  <2>2. FatSize + HeaderSize + 0 = FatSize + HeaderSize
    BY SizesAssumption
  <2> QED BY <1>15, <2>1, <2>2 DEF NewDescriptor, Creating, OnBuildFile
<1>17. BankMounted'
  BY <1>1, <1>6, ResolveSame DEF BankMounted
<1> QED BY <1>6, <1>14, <1>16, <1>17 DEF BootInv

\* Its text fits into the slot and is written behind the header.
LEMMA WriteBuild ==
  ASSUME BuildFits, AtBoot("write"),
         Step("write", WriteSucceeds(fd), OnFd(noosfs_write(fd, BuildSize, BuildByte)), "close")
  PROVE  WriteSucceeds(fd) /\ BootInv' /\ phase' = "close"
<1> DEFINE f == fdTable[fd]
           n == BytesToWrite(f, BuildSize)
           start == FatSize + HeaderSize
           g == [f EXCEPT !.FileDataPointer = @ + n, !.ByteOffset = @ + n,
                          !.FileSize = IF f.ByteOffset + n > @ THEN f.ByteOffset + n ELSE @]
<1>1. BankMounted /\ BuildStored(0) /\ Creating(f, 0) /\ TypeOK /\ Buffer \in Device
  BY NoOSAssumption DEF AtBoot, BootInv, FilesysInv
<1>2. fd \in Descriptor /\ f.InUse
  BY OwnedMeans DEF AtBoot, Holding, OpenFds
<1>3. WriteSucceeds(fd)
  BY <1>1, <1>2 DEF WriteSucceeds, IsValidFileDescriptor, Creating
<1>4. LibWrite(fd, BuildSize, BuildByte) /\ UNCHANGED tables /\ phase' = "close" /\ fd' = fd
  BY <1>3 DEF Step, OnFd, noosfs_write
<1>5. n = BuildSize
  BY <1>1, SizesAssumption, BuildSizes
     DEF Creating, OnBuildFile, BuildFits, BytesToWrite, USub, Lesser
<1>6. fdTable' = [fdTable EXCEPT ![fd] = g]
  BY <1>4 DEF LibWrite
<1>7. eeprom' = [eeprom EXCEPT ![Buffer] = WriteData(eeprom[Buffer], start, BuildSize, BuildByte)]
  <2>1. f.InodeTable = Buffer /\ f.FileDataPointer = start
    BY <1>1, SizesAssumption DEF Creating, OnBuildFile
  <2>2. eeprom' = [eeprom EXCEPT ![f.InodeTable] =
                     WriteData(eeprom[f.InodeTable], f.FileDataPointer, n, BuildByte)]
    BY <1>4 DEF LibWrite
  <2> HIDE DEF f, n, start
  <2> QED BY <1>5, <2>1, <2>2
<1>8. eeprom'[Buffer] = WriteData(eeprom[Buffer], start, BuildSize, BuildByte) /\ inode' = inode
  BY <1>1, <1>4, <1>7 DEF TypeOK, LibWrite
<1>9. eeprom[Buffer] \in [Address -> Cell] /\ start \in Nat /\ BuildSize \in Nat
  BY <1>1, SizesAssumption, BuildSizes DEF TypeOK
<1>10. \A x \in Address : FatSize <= x /\ x < start => eeprom'[Buffer][x] = eeprom[Buffer][x]
  BY <1>8, <1>9, DataWriteKeeps
<1>11. BuildStored(0)'
  <2>1. FatSize \in Address
    BY <1>1 DEF BuildStored, IntactHeader
  <2>2. IntactHeader(eeprom'[Buffer], FatSize) <=> IntactHeader(eeprom[Buffer], FatSize)
    BY <1>10, SizesAssumption, SameCells
  <2>3. eeprom'[Buffer][FatSize] = eeprom[Buffer][FatSize]
    BY <1>10, <2>1, SizesAssumption
  <2> QED BY <1>1, <1>8, <2>2, <2>3 DEF BuildStored, HeaderAt
<1>12. BuildWritten'
  <2> SUFFICES ASSUME NEW k \in 0 .. BuildSize - 1
               PROVE  eeprom'[Buffer][FatSize + HeaderSize + k] = BuildByte
    BY DEF BuildWritten
  <2>1. start + k \in Address /\ start <= start + k /\ start + k < start + BuildSize
    BY <1>9, SizesAssumption, BuildSizes DEF BuildFits, Address
  <2> QED BY <1>8, <2>1 DEF WriteData
<1>13. Creating(fdTable'[fd], BuildSize)
  <2>1. f \in FileDescriptor /\ fdTable'[fd] = g
    BY <1>1, <1>2, <1>6 DEF TypeOK
  <2> HIDE DEF n
  <2>2. /\ g.InodeTable = f.InodeTable /\ g.InodeIndex = f.InodeIndex /\ g.Mode = f.Mode
        /\ g.FileHeaderPointer = f.FileHeaderPointer /\ g.MaxFileSize = f.MaxFileSize
        /\ g.FileDataPointer = f.FileDataPointer + n /\ g.ByteOffset = f.ByteOffset + n
        /\ g.FileSize = IF f.ByteOffset + n > f.FileSize THEN f.ByteOffset + n ELSE f.FileSize
    BY <2>1 DEF FileDescriptor
  <2> HIDE DEF f, g
  <2> QED BY <1>1, <1>5, <2>1, <2>2, SizesAssumption, BuildSizes DEF Creating, OnBuildFile
<1>14. BankMounted'
  BY <1>1, <1>4, ResolveSame
<1> QED BY <1>3, <1>4, <1>11, <1>12, <1>13, <1>14 DEF BootInv

\* Closing it stores its size in the header and leaves its text.
LEMMA CloseBuild ==
  ASSUME BuildFits, AtBoot("close"),
         Step("close", CloseSucceeds(fd), OnFd(noosfs_close(fd)), "open")
  PROVE  BootInv' /\ phase' = "open"
<1> DEFINE f == fdTable[fd]
           m == eeprom[Buffer]
           h == [HeaderAt(m, FatSize) EXCEPT !.FileSize = BuildSize]
<1>1. /\ BankMounted /\ BuildStored(0) /\ BuildWritten /\ Creating(f, BuildSize)
      /\ TypeOK /\ Buffer \in Device
  BY NoOSAssumption DEF AtBoot, BootInv, FilesysInv
<1>2. fd \in Descriptor /\ f.InUse
  BY OwnedMeans DEF AtBoot, Holding, OpenFds
<1>3. LibClose(fd) /\ UNCHANGED tables /\ phase' = "open"
  BY <1>2 DEF Step, OnFd, noosfs_close, CloseSucceeds, IsValidFileDescriptor
<1>4. /\ f.InodeTable = Buffer /\ f.InodeIndex = 0 /\ f.FileHeaderPointer = FatSize
      /\ f.FileSize = BuildSize /\ FCREAT \in f.Mode
  BY <1>1 DEF Creating, OnBuildFile
<1>5. /\ inode' = [inode EXCEPT ![f.InodeTable] = AllocateSlot(inode[f.InodeTable], fd)]
      /\ eeprom' = [eeprom EXCEPT ![f.InodeTable] = StoreFileSize(eeprom[f.InodeTable], fd)]
  BY <1>3, <1>4 DEF LibClose, CloseCreated, CloseWritten, CloseRead
<1>6. inode'[Buffer] = AllocateSlot(inode[Buffer], fd) /\ eeprom'[Buffer] = StoreFileSize(m, fd)
  BY <1>1, <1>4, <1>5 DEF TypeOK
<1>7. /\ inode'[Buffer].NumberOfFiles = 1
      /\ inode'[Buffer].File[0].FileHeaderPointer = FatSize
  <2>1. inode[Buffer] \in Table /\ 0 \in FileIndex
    BY <1>1, SizesAssumption DEF TypeOK, FileIndex
  <2> DEFINE t == inode[Buffer]
             max == SlotSize(fdTable[fd].FileSize, t.FreeMemorySize)
  <2>2. inode'[Buffer] = [t EXCEPT !.FreeMemoryPointer = @ + HeaderSize + max,
                                   !.FreeMemorySize = USub(@, HeaderSize + max),
                                   !.File[0].MaxFileSize = max]
    BY <1>4, <1>6 DEF AllocateSlot
  <2> HIDE DEF max
  <2> QED BY <1>1, <2>1, <2>2 DEF Table, Entry, BuildStored
<1>8. eeprom'[Buffer] = WriteHeader(m, FatSize, h)
  BY <1>4, <1>6 DEF StoreFileSize
<1>9. /\ h \in FileHeader /\ h.FileSize = BuildSize
      /\ h.InUse /\ h.Attributes = NONE /\ h.Filename = BuildFile
  <2>1. HeaderAt(m, FatSize) \in FileHeader
    BY <1>1 DEF BuildStored, IntactHeader, HeaderAt
  <2>2. BuildSize \in Nat
    BY BuildSizes
  <2> QED BY <1>1, <2>1, <2>2 DEF FileHeader, BuildStored
<1> HIDE DEF h
<1>10. FatSize \in Nat /\ FatSize + HeaderSize <= DeviceSize
  BY SizesAssumption DEF BuildFits
<1>11. IntactHeader(eeprom'[Buffer], FatSize) /\ HeaderAt(eeprom'[Buffer], FatSize) = h
  BY <1>8, <1>9, <1>10, HeaderWritten
<1>12. BuildStored(BuildSize)'
  BY <1>7, <1>9, <1>11 DEF BuildStored
<1>13. BuildWritten'
  <2> SUFFICES ASSUME NEW k \in 0 .. BuildSize - 1
               PROVE  eeprom'[Buffer][FatSize + HeaderSize + k] = BuildByte
    BY DEF BuildWritten
  <2> DEFINE x == FatSize + HeaderSize + k
  <2>1. x \in Address /\ FatSize + HeaderSize <= x
    BY BuildSizes, SizesAssumption DEF BuildFits, Address
  <2>2. m[x] = BuildByte
    BY <1>1 DEF BuildWritten
  <2>3. m \in [Address -> Cell]
    BY <1>1 DEF TypeOK
  <2> HIDE DEF x
  <2> QED BY <1>8, <1>10, <2>1, <2>2, <2>3, HeaderWriteKeeps DEF x
<1>14. BankMounted'
  BY <1>1, <1>3, ResolveSame
<1> QED BY <1>3, <1>12, <1>13, <1>14 DEF BootInv

\* The build file is found by its name.
LEMMA BuildFound ==
  ASSUME TypeOK, NEW size, BuildStored(size)
  PROVE  /\ FindFile(Buffer, BuildFile) = 0
         /\ Header(Buffer, 0).FileSize = size /\ Header(Buffer, 0).Attributes = NONE
<1>1. /\ Header(Buffer, 0).InUse /\ Header(Buffer, 0).Attributes = NONE
      /\ Header(Buffer, 0).FileSize = size /\ Header(Buffer, 0).Filename = BuildFile
  BY DEF BuildStored, Header
<1>2. Slots(inode[Buffer]) = {0}
  BY DEF BuildStored, Slots
<1>3. FindFile(Buffer, BuildFile) \in Slots(inode[Buffer])
  BY <1>1, <1>2, NoOSAssumption, FindFileResult
<1> QED BY <1>1, <1>2, <1>3

\* It is opened for reading, at its beginning.
LEMMA OpenBuild ==
  ASSUME ReadsByReadWrite, AtBoot("open"),
         Step("open", OpenSucceeds(BuildFile), OpenAs(noosfs_open(BuildFile)), "read")
  PROVE  BootInv' /\ phase' = "read"
<1>1. /\ Resolve(NoOSBank) = {Buffer} /\ BuildStored(BuildSize) /\ BuildWritten
      /\ TypeOK /\ Buffer \in Device
  BY NoOSAssumption DEF AtBoot, BootInv, BankMounted, FilesysInv
<1>2. /\ FindFile(Buffer, BuildFile) = 0
      /\ Header(Buffer, 0).FileSize = BuildSize /\ Header(Buffer, 0).Attributes # READONLY
  BY <1>1, BuildFound DEF NONE, READONLY
<1>3. FreeDescriptors # {} /\ Fmode(Buffer, 0) = {}
  BY NothingOpen DEF AtBoot, Holding, Fmode
<1>4. Bits(O_RDWR) \subseteq SupportedBits
  BY DEF SupportedBits
<1>5. OpenFileStatus(Buffer, 0, O_RDWR) = SUCCESS
  BY <1>2, <1>3, <1>4 DEF OpenFileStatus
<1>6. OpenSucceeds(BuildFile)
  BY <1>1, <1>2, <1>5 DEF OpenSucceeds, FILE_NOT_FOUND
<1>7. /\ LibOpen(Buffer, BuildFile, O_RDWR) /\ UNCHANGED tables
      /\ phase' = "read" /\ fd' = First(FreeDescriptors)
  BY <1>1, <1>6 DEF Step, OpenAs, noosfs_open, Open, tempname
<1> DEFINE g == NewDescriptor(Buffer, 0, OpenMode(O_RDWR), BuildSize,
                              inode[Buffer].File[0].MaxFileSize)
<1>8. GetFileDescriptor(g) /\ UNCHANGED <<image, inode>>
  BY <1>2, <1>7 DEF LibOpen, LibOpenFile, ReadsByReadWrite, FILE_NOT_FOUND
<1>9. fdTable'[fd'] = g
  BY <1>1, <1>7, <1>8, Taken DEF NewDescriptor
<1>10. inode' = inode /\ eeprom' = eeprom
  BY <1>8 DEF image
<1>11. OnBuildFile(fdTable'[fd'], 0, BuildSize) /\ fdTable'[fd'].Mode = OpenMode(O_RDWR)
  <2>1. inode'[Buffer].File[0].FileHeaderPointer = FatSize
    BY <1>1, <1>10 DEF BuildStored
  <2>2. FatSize + HeaderSize + 0 = FatSize + HeaderSize
    BY SizesAssumption
  <2> QED BY <1>9, <2>1, <2>2 DEF NewDescriptor, OnBuildFile
<1>12. (BankMounted /\ BuildStored(BuildSize) /\ BuildWritten)'
  BY <1>1, <1>7, <1>10, ResolveSame DEF BankMounted, BuildStored, BuildWritten
<1> QED BY <1>7, <1>11, <1>12 DEF BootInv

\* All of it is read into the text that the splash screen shows.
LEMMA ReadBuildText ==
  ASSUME BuildFits, ReadsByReadWrite, AtBoot("read"),
         Step("read", ReadSucceeds(fd), ReadBuild, "close again")
  PROVE  ReadSucceeds(fd) /\ BootInv' /\ phase' = "close again"
<1> DEFINE f == fdTable[fd]
<1>1. /\ BankMounted /\ BuildStored(BuildSize) /\ BuildWritten /\ OnBuildFile(f, 0, BuildSize)
      /\ f.Mode = OpenMode(O_RDWR)
  BY DEF AtBoot, BootInv
<1>2. fd \in Descriptor /\ f.InUse
  BY OwnedMeans DEF AtBoot, Holding, OpenFds
<1>3. ReadSucceeds(fd)
  BY <1>1, <1>2 DEF ReadSucceeds, IsValidFileDescriptor, ReadsByReadWrite
<1>4. /\ LibRead(fd, BuildBufferSize) /\ UNCHANGED tables
      /\ build' = BytesRead(fd, BuildBufferSize) /\ phase' = "close again"
  BY <1>3 DEF Step, ReadBuild, noosfs_read
<1>5. BytesToRead(f, BuildBufferSize) = BuildSize
  <2>1. f.FileSize = BuildSize /\ f.ByteOffset = 0
    BY <1>1 DEF OnBuildFile
  <2> HIDE DEF f
  <2> QED BY <2>1, BuildLengths DEF BytesToRead
<1>6. build' = BuildText
  <2>1. build' = [k \in 0 .. BuildSize - 1 |-> eeprom[f.InodeTable][f.FileDataPointer + k]]
    BY <1>4, <1>5 DEF BytesRead
  <2> HIDE DEF f
  <2>2. f.InodeTable = Buffer /\ f.FileDataPointer = FatSize + HeaderSize
    BY <1>1, BuildLengths DEF OnBuildFile
  <2> QED BY <1>1, <2>1, <2>2 DEF BuildWritten, BuildText
<1>7. (BankMounted /\ BuildStored(BuildSize))'
  BY <1>1, <1>4, ResolveSame DEF LibRead, image, BuildStored
<1> QED BY <1>3, <1>4, <1>6, <1>7 DEF BootInv, BuildText

LEMMA CloseBuildAgain ==
  ASSUME AtBoot("close again"),
         Step("close again", CloseSucceeds(fd), OnFd(noosfs_close(fd)), "shell")
  PROVE  BootInv'
<1>1. BankMounted /\ build = BuildText
  BY DEF AtBoot, BootInv
<1>2. UNCHANGED tables /\ build' = build /\ phase' = "shell"
  BY DEF Step, OnFd, noosfs_close, filesysVars
<1> QED BY <1>1, <1>2, ResolveSame DEF BootInv, Booted, BuildText

(***************************************************************************)
(* The invariant is inductive                                              *)
(***************************************************************************)
LEMMA BootStep ==
  ASSUME BuildFits, ReadsByReadWrite, KernelInv, Boot
  PROVE  /\ BootInv'
         /\ phase = "write" => WriteSucceeds(fd)
         /\ phase = "read" => ReadSucceeds(fd)
         /\ phase = "close again" \/ phase' # "shell" \/ "restart" \in Habits
<1>1. AtBoot(phase)
  BY DEF KernelInv, AtBoot
<1>2. CASE Step("format", TRUE, OnFd(noosfs_format), "init")
  BY <1>1, <1>2, FormatStep DEF Step
<1>3. CASE Step("init", InitSucceeds, OnFd(noosfs_init), "mount")
  BY <1>1, <1>3, InitStep DEF Step
<1>4. CASE Step("mount", MountSucceeds, OnFd(noosfs_mount), "create")
  BY <1>1, <1>4, MountStep DEF Step
<1>5. CASE Step("create", CreateSucceeds(BuildFile), OpenAs(noosfs_create(BuildFile)), "write")
  BY <1>1, <1>5, CreateBuild DEF Step
<1>6. CASE Step("write", WriteSucceeds(fd), OnFd(noosfs_write(fd, BuildSize, BuildByte)), "close")
  BY <1>1, <1>6, WriteBuild DEF Step
<1>7. CASE Step("close", CloseSucceeds(fd), OnFd(noosfs_close(fd)), "open")
  BY <1>1, <1>7, CloseBuild DEF Step
<1>8. CASE Step("open", OpenSucceeds(BuildFile), OpenAs(noosfs_open(BuildFile)), "read")
  BY <1>1, <1>8, OpenBuild DEF Step
<1>9. CASE Step("read", ReadSucceeds(fd), ReadBuild, "close again")
  BY <1>1, <1>9, ReadBuildText DEF Step
<1>10. CASE Step("close again", CloseSucceeds(fd), OnFd(noosfs_close(fd)), "shell")
  BY <1>1, <1>10, CloseBuildAgain DEF Step
<1> QED BY <1>2, <1>3, <1>4, <1>5, <1>6, <1>7, <1>8, <1>9, <1>10 DEF Boot

\* No command touches the two tables or the text of the splash screen.
LEMMA CommandStep ==
  ASSUME KernelInv, KernelNext, ~ Boot
  PROVE  BootInv'
<1>1. UNCHANGED tables /\ build' = build
  BY DEF KernelNext, Program, User, Restart, Add, Rewrite, Show, Kill, TypeLine, EndInput,
         List, ShowByte, EndShow, ListEntry, EndList, Command, OnFd, OpenAs, filesysVars,
         noosfs_create, noosfs_open, noosfs_delete, noosfs_write, noosfs_read, noosfs_close,
         noosfs_list_open, noosfs_list_entry, noosfs_list_close
<1>2. /\ phase \in {"shell", "edit", "show", "list"}
      /\ \/ phase' \in {"shell", "edit", "show", "list"}
         \/ phase' = "format" /\ "restart" \in Habits
  BY DEF KernelNext, Program, User, Restart, Add, Rewrite, Show, Kill, TypeLine, EndInput,
         List, ShowByte, EndShow, ListEntry, EndList, Command
<1>3. Booted'
  BY <1>1, <1>2, ResolveSame DEF KernelInv, BootInv, Booted, BuildText
<1> QED BY <1>2, <1>3 DEF BootInv

LEMMA KernelInvInductive ==
  ASSUME BuildFits, ReadsByReadWrite
  PROVE  /\ KernelInit => KernelInv
         /\ KernelInv /\ [KernelNext]_kernelVars => KernelInv'
<1>1. KernelInit => KernelInv
  <2> SUFFICES ASSUME KernelInit PROVE KernelInv
    OBVIOUS
  <2>1. BootInv
    BY DEF KernelInit, BootInv
  <2>2. DescriptorsOwned
    BY OwnedMeans DEF KernelInit, FilesysInit, Init, ZeroDescriptor, ZeroDirectory, OpenFds,
                      Holding
  <2> QED BY <2>1, <2>2, KernelFilesys DEF KernelInv
<1>2. KernelInv /\ [KernelNext]_kernelVars => KernelInv'
  <2> SUFFICES ASSUME KernelInv, [KernelNext]_kernelVars PROVE KernelInv'
    OBVIOUS
  <2>1. FilesysInv'
    BY KernelFilesys DEF KernelInv
  <2>2. CASE Boot
    BY <2>1, <2>2, BootStep, BootOwns DEF KernelInv
  <2>3. CASE KernelNext /\ ~ Boot
    BY <2>1, <2>3, CommandStep, CommandOwns DEF KernelInv
  <2>4. CASE UNCHANGED kernelVars
    <3>1. DescriptorsOwned'
      BY <2>4 DEF KernelInv, DescriptorsOwned, kernelVars, filesysVars, vars
    <3>2. /\ eeprom' = eeprom /\ fat' = fat /\ inode' = inode /\ fdTable' = fdTable
          /\ FileDescriptorsInUse' = FileDescriptorsInUse /\ HighWaterMark' = HighWaterMark
          /\ dir' = dir /\ deviceTable' = deviceTable /\ volumeTable' = volumeTable
          /\ phase' = phase /\ fd' = fd /\ build' = build
      BY <2>4 DEF kernelVars, filesysVars, vars, tables
    <3>3. BankMounted' <=> BankMounted
      BY <3>2, ResolveSame DEF tables
    <3>4. FilesysInit' <=> FilesysInit
      BY <3>2 DEF FilesysInit, Init
    <3>5. /\ DeviceReady' <=> DeviceReady
          /\ BuildWritten' <=> BuildWritten
          /\ \A size : BuildStored(size)' <=> BuildStored(size)
      BY <3>2 DEF DeviceReady, BuildWritten, BuildStored
    <3>6. BootInv'
      BY <3>2, <3>3, <3>4, <3>5 DEF KernelInv, BootInv, Booted, Creating, OnBuildFile
    <3> QED BY <2>1, <3>1, <3>6 DEF KernelInv
  <2> QED BY <2>2, <2>3, <2>4
<1> QED BY <1>1, <1>2

(***************************************************************************)
(* The theorems                                                            *)
(***************************************************************************)
\* Whatever the user's habits, restarts included: each place of the program holds exactly
\* the descriptor it needs, and the prompt none.
THEOREM DescriptorsStayOwned ==
  ASSUME BuildFits, ReadsByReadWrite
  PROVE  KernelSpec => []DescriptorsOwned
<1>1. KernelInv => DescriptorsOwned
  BY DEF KernelInv
<1>2. KernelInit => KernelInv
  BY KernelInvInductive
<1>3. KernelInv /\ [KernelNext]_kernelVars => KernelInv'
  BY KernelInvInductive
<1> QED BY <1>1, <1>2, <1>3, PTL DEF KernelSpec

\* The splash screen shows what the first boot wrote into the build file and read back,
\* also after a restart.
THEOREM BuildStaysShown ==
  ASSUME BuildFits, ReadsByReadWrite
  PROVE  KernelSpec => []BuildShown
<1>1. KernelInv => BuildShown
  BY DEF KernelInv, BootInv, Booted, BuildShown, BuildText
<1>2. KernelInit => KernelInv
  BY KernelInvInductive
<1>3. KernelInv /\ [KernelNext]_kernelVars => KernelInv'
  BY KernelInvInductive
<1> QED BY <1>1, <1>2, <1>3, PTL DEF KernelSpec

(***************************************************************************)
(* How far the prompt is                                                   *)
(***************************************************************************)
\* The steps before the prompt, at most: those of the boot that are left, the bytes that the
\* file has still to show, the entries that are still to be listed.
StepsLeft ==
  CASE phase = "format" -> 9 [] phase = "init" -> 8 [] phase = "mount" -> 7
    [] phase = "create" -> 6 [] phase = "write" -> 5 [] phase = "close" -> 4
    [] phase = "open" -> 3 [] phase = "read" -> 2 [] phase = "close again" -> 1
    [] phase = "show" -> USub(fdTable[fd].FileSize, fdTable[fd].ByteOffset)
    [] phase = "list" -> inode[dir.InodeTable].NumberOfFiles - dir.InodeIndex

GetsNearer ==
  phase \notin {"shell", "edit"} =>
    \/ phase' = "shell"
    \/ /\ phase' \notin {"shell", "edit"}
       /\ StepsLeft \in Nat /\ StepsLeft' \in 0 .. StepsLeft - 1

\* Counting down by one, as long as there is something left, never goes round.
LEMMA OneLess ==
  ASSUME NEW x \in Int, NEW m \in Nat \ {0}, x % m > 0
  PROVE  (x - 1) % m = (x % m) - 1
<1> DEFINE q == x \div m  r == x % m  p == (x - 1) \div m  s == (x - 1) % m
<1>1. q \in Int /\ r \in 1 .. m - 1 /\ x = m * q + r
  OBVIOUS
<1>2. p \in Int /\ s \in 0 .. m - 1 /\ x - 1 = m * p + s
  OBVIOUS
<1> HIDE DEF q, r, p, s
<1>3. m * (q - p) = s - r + 1
  <2>1. m * (q - p) = m * q - m * p /\ m * q \in Int /\ m * p \in Int
    BY <1>1, <1>2
  <2> QED BY <1>1, <1>2, <2>1
<1>4. ~ (q - p >= 1)
  <2> SUFFICES ASSUME q - p >= 1 PROVE FALSE
    OBVIOUS
  <2>1. m * (q - p - 1) >= 0 /\ m * (q - p - 1) = m * (q - p) - m
    BY <1>1, <1>2
  <2> QED BY <1>1, <1>2, <1>3, <2>1
<1>5. ~ (q - p <= -1)
  <2> SUFFICES ASSUME q - p <= -1 PROVE FALSE
    OBVIOUS
  <2>1. m * (p - q - 1) >= 0 /\ m * (p - q - 1) = -(m * (q - p)) - m
    BY <1>1, <1>2
  <2> QED BY <1>1, <1>2, <1>3, <2>1
<1>6. q - p = 0
  BY <1>1, <1>2, <1>4, <1>5
<1>7. m * (q - p) = 0
  BY <1>6
<1>8. s = r - 1
  BY <1>1, <1>2, <1>3, <1>7
<1> QED BY <1>8 DEF r, s

LEMMA BootGetsNearer ==
  ASSUME Boot
  PROVE  GetsNearer
<1>1. CASE Step("format", TRUE, OnFd(noosfs_format), "init")
  <2>1. phase = "format" /\ (phase' = "init" \/ phase' = "shell")
    BY <1>1 DEF Step
  <2>2. StepsLeft = 9
    BY <2>1 DEF StepsLeft
  <2>3. phase' = "init" => StepsLeft' = 8
    BY DEF StepsLeft
  <2>4. 9 \in Nat /\ 8 \in 0 .. 9 - 1
    OBVIOUS
  <2> QED BY <2>1, <2>2, <2>3, <2>4, Zenon DEF GetsNearer
<1>2. CASE Step("init", InitSucceeds, OnFd(noosfs_init), "mount")
  <2>1. phase = "init" /\ (phase' = "mount" \/ phase' = "shell")
    BY <1>2 DEF Step
  <2>2. StepsLeft = 8
    BY <2>1 DEF StepsLeft
  <2>3. phase' = "mount" => StepsLeft' = 7
    BY DEF StepsLeft
  <2>4. 8 \in Nat /\ 7 \in 0 .. 8 - 1
    OBVIOUS
  <2> QED BY <2>1, <2>2, <2>3, <2>4, Zenon DEF GetsNearer
<1>3. CASE Step("mount", MountSucceeds, OnFd(noosfs_mount), "create")
  <2>1. phase = "mount" /\ (phase' = "create" \/ phase' = "shell")
    BY <1>3 DEF Step
  <2>2. StepsLeft = 7
    BY <2>1 DEF StepsLeft
  <2>3. phase' = "create" => StepsLeft' = 6
    BY DEF StepsLeft
  <2>4. 7 \in Nat /\ 6 \in 0 .. 7 - 1
    OBVIOUS
  <2> QED BY <2>1, <2>2, <2>3, <2>4, Zenon DEF GetsNearer
<1>4. CASE Step("create", CreateSucceeds(BuildFile), OpenAs(noosfs_create(BuildFile)), "write")
  <2>1. phase = "create" /\ (phase' = "write" \/ phase' = "shell")
    BY <1>4 DEF Step
  <2>2. StepsLeft = 6
    BY <2>1 DEF StepsLeft
  <2>3. phase' = "write" => StepsLeft' = 5
    BY DEF StepsLeft
  <2>4. 6 \in Nat /\ 5 \in 0 .. 6 - 1
    OBVIOUS
  <2> QED BY <2>1, <2>2, <2>3, <2>4, Zenon DEF GetsNearer
<1>5. CASE Step("write", WriteSucceeds(fd),
               OnFd(noosfs_write(fd, BuildSize, BuildByte)), "close")
  <2>1. phase = "write" /\ (phase' = "close" \/ phase' = "shell")
    BY <1>5 DEF Step
  <2>2. StepsLeft = 5
    BY <2>1 DEF StepsLeft
  <2>3. phase' = "close" => StepsLeft' = 4
    BY DEF StepsLeft
  <2>4. 5 \in Nat /\ 4 \in 0 .. 5 - 1
    OBVIOUS
  <2> QED BY <2>1, <2>2, <2>3, <2>4, Zenon DEF GetsNearer
<1>6. CASE Step("close", CloseSucceeds(fd), OnFd(noosfs_close(fd)), "open")
  <2>1. phase = "close" /\ (phase' = "open" \/ phase' = "shell")
    BY <1>6 DEF Step
  <2>2. StepsLeft = 4
    BY <2>1 DEF StepsLeft
  <2>3. phase' = "open" => StepsLeft' = 3
    BY DEF StepsLeft
  <2>4. 4 \in Nat /\ 3 \in 0 .. 4 - 1
    OBVIOUS
  <2> QED BY <2>1, <2>2, <2>3, <2>4, Zenon DEF GetsNearer
<1>7. CASE Step("open", OpenSucceeds(BuildFile), OpenAs(noosfs_open(BuildFile)), "read")
  <2>1. phase = "open" /\ (phase' = "read" \/ phase' = "shell")
    BY <1>7 DEF Step
  <2>2. StepsLeft = 3
    BY <2>1 DEF StepsLeft
  <2>3. phase' = "read" => StepsLeft' = 2
    BY DEF StepsLeft
  <2>4. 3 \in Nat /\ 2 \in 0 .. 3 - 1
    OBVIOUS
  <2> QED BY <2>1, <2>2, <2>3, <2>4, Zenon DEF GetsNearer
<1>8. CASE Step("read", ReadSucceeds(fd), ReadBuild, "close again")
  <2>1. phase = "read" /\ (phase' = "close again" \/ phase' = "shell")
    BY <1>8 DEF Step
  <2>2. StepsLeft = 2
    BY <2>1 DEF StepsLeft
  <2>3. phase' = "close again" => StepsLeft' = 1
    BY DEF StepsLeft
  <2>4. 2 \in Nat /\ 1 \in 0 .. 2 - 1
    OBVIOUS
  <2> QED BY <2>1, <2>2, <2>3, <2>4, Zenon DEF GetsNearer
<1>9. CASE Step("close again", CloseSucceeds(fd), OnFd(noosfs_close(fd)), "shell")
  BY <1>9 DEF Step, GetsNearer
<1> QED BY <1>1, <1>2, <1>3, <1>4, <1>5, <1>6, <1>7, <1>8, <1>9, Zenon DEF Boot

\* A byte is shown: it is the one that is missing from those that were left.
LEMMA ShowGetsNearer ==
  ASSUME TypeOK, ShowByte
  PROVE  GetsNearer
<1> DEFINE f == fdTable[fd]
           n == BytesToRead(f, 1)
<1>1. /\ phase = "show" /\ phase' = "show" /\ n # 0 /\ fd' = fd /\ fd \in Descriptor
      /\ fdTable' = [fdTable EXCEPT ![fd].FileDataPointer = @ + n, ![fd].ByteOffset = @ + n]
  BY DEF ShowByte, AtEnd, OnFd, noosfs_read, LibRead, IsValidFileDescriptor
<1>2. fdTable \in [Descriptor -> FileDescriptor] /\ f.FileSize \in Nat /\ f.ByteOffset \in Nat
  BY <1>1 DEF TypeOK, FileDescriptor
<1>3. fdTable'[fd].FileSize = f.FileSize /\ fdTable'[fd].ByteOffset = f.ByteOffset + n
  BY <1>1, <1>2 DEF FileDescriptor
<1> DEFINE size == f.FileSize  at == f.ByteOffset
<1>4. HalfWord \in Nat \ {0}
  BY SizesAssumption
<1>5. n = Lesser(USub(size, at), 1)
  BY DEF BytesToRead
<1>6. StepsLeft = USub(size, at) /\ StepsLeft' = USub(size, at + n)
  BY <1>1, <1>3 DEF StepsLeft
<1> HIDE DEF n, size, at, f
<1>7. size \in Nat /\ at \in Nat
  BY <1>2 DEF size, at
<1>8. USub(size, at) \in Nat
  BY <1>4, <1>7 DEF USub
<1>9. n = 1 /\ USub(size, at) > 0
  BY <1>1, <1>5, <1>8 DEF Lesser
<1>10. USub(size, at + 1) = USub(size, at) - 1
  <2>1. CASE size >= at
    BY <1>7, <1>9, <2>1 DEF USub
  <2>2. CASE ~ (size >= at)
    <3> DEFINE M == 2 * HalfWord
               x == size - at
    <3>1. M \in Nat \ {0} /\ x \in Int /\ size - (at + 1) = x - 1 /\ ~ (size >= at + 1)
      BY <1>4, <1>7, <2>2
    <3> HIDE DEF M
    <3>2. USub(size, at) = x % M /\ USub(size, at + 1) = (size - (at + 1)) % M
      BY <2>2, <3>1 DEF USub, M
    <3> HIDE DEF x
    <3>3. x % M > 0
      BY <1>9, <3>2
    <3> QED BY <3>1, <3>2, <3>3, OneLess
  <2> QED BY <2>1, <2>2
<1> QED BY <1>1, <1>6, <1>8, <1>9, <1>10 DEF GetsNearer

\* An entry is listed.
LEMMA ListGetsNearer ==
  ASSUME FilesysInv, ListEntry
  PROVE  GetsNearer
<1> DEFINE left == inode[dir.InodeTable].NumberOfFiles
<1>1. /\ phase = "list" /\ phase' = "list" /\ dir.InUse /\ dir.InodeIndex < left
      /\ dir' = [dir EXCEPT !.InodeIndex = @ + 1] /\ inode' = inode
  BY DEF ListEntry, OnFd, noosfs_list_entry, LibReadDir
<1>2. dir.InodeTable \in Device
  BY <1>1 DEF FilesysInv, OnlyRegisteredInUse, Registered, EntriesValid, TablesTypeOK
<1>3. /\ dir.InodeIndex \in Nat /\ left \in 0 .. MaxFiles
      /\ dir'.InodeIndex = dir.InodeIndex + 1 /\ dir'.InodeTable = dir.InodeTable
  BY <1>1, <1>2 DEF FilesysInv, TypeOK, Table, DirectoryDescriptor
<1>4. MaxFiles \in Nat
  BY SizesAssumption
<1>5. StepsLeft = left - dir.InodeIndex /\ StepsLeft' = left' - dir'.InodeIndex
  BY <1>1 DEF StepsLeft
<1>6. left' = left
  BY <1>1, <1>3
<1> HIDE DEF left
<1>7. StepsLeft \in Nat /\ StepsLeft' \in 0 .. StepsLeft - 1
  BY <1>1, <1>3, <1>4, <1>5, <1>6
<1> QED BY <1>1, <1>7 DEF GetsNearer

\* Whatever the flags, the files and the user's habits: until the prompt, the kernel does what
\* the program does, and each step of it brings the prompt nearer, by a count that is as long
\* as the boot, the file or the directory.
THEOREM PromptGetsNearer == KernelSpec => [][GetsNearer]_kernelVars
<1>1. ASSUME FilesysInv, KernelNext PROVE GetsNearer
  <2>1. CASE Boot
    BY <2>1, BootGetsNearer
  <2>2. CASE ShowByte
    BY <1>1, <2>2, ShowGetsNearer DEF FilesysInv
  <2>3. CASE ListEntry
    BY <1>1, <2>3, ListGetsNearer
  <2>4. CASE EndShow \/ EndList
    BY <2>4, Zenon DEF EndShow, EndList, GetsNearer
  <2>5. CASE User
    BY <2>5, Zenon DEF User, Restart, Add, Rewrite, Show, Kill, TypeLine, EndInput, List, Command,
                GetsNearer
  <2> QED BY <1>1, <2>1, <2>2, <2>3, <2>4, <2>5, Zenon DEF KernelNext, Program
<1>2. FilesysInv /\ [KernelNext]_kernelVars => [GetsNearer]_kernelVars
  BY <1>1
<1> QED BY <1>2, KernelFilesys, PTL DEF KernelSpec

(***************************************************************************)
(* A user who never restarts                                               *)
(***************************************************************************)
\* When the boot ends, its last step has closed the build file, which is still there.
LEMMA BootEndsWithBuild ==
  ASSUME BuildFits, ReadsByReadWrite, NeverRestarts, KernelInv, KernelNext, BootEnds
  PROVE  Resolve(NoOSBank) = {Buffer} /\ Exists(BuildFile)
<1>1. Boot
  BY DEF KernelNext, Program, User, BootEnds, Restart, Add, Rewrite, Show, Kill, TypeLine,
         EndInput, List, ShowByte, EndShow, ListEntry, EndList, Command
<1>2. phase = "close again"
  BY <1>1, BootStep DEF BootEnds, NeverRestarts
<1>3. BankMounted /\ BuildStored(BuildSize)
  BY <1>2 DEF KernelInv, BootInv
<1>4. TypeOK
  BY DEF KernelInv, FilesysInv
<1> QED BY <1>3, <1>4, BuildFound DEF BankMounted, Exists, FILE_NOT_FOUND

\* "get the file system going": the boot of a user who never restarts ends with the build
\* file in a file system that the kernel's mount point leads to.
THEOREM BootGetsGoing ==
  ASSUME BuildFits, ReadsByReadWrite, NeverRestarts
  PROVE  KernelSpec => FileSystemGoing
<1>1. KernelInv /\ [KernelNext]_kernelVars =>
        [BootEnds => Resolve(NoOSBank) = {Buffer} /\ Exists(BuildFile)]_kernelVars
  BY BootEndsWithBuild
<1>2. KernelInit => KernelInv
  BY KernelInvInductive
<1>3. KernelInv /\ [KernelNext]_kernelVars => KernelInv'
  BY KernelInvInductive
<1> QED BY <1>1, <1>2, <1>3, PTL DEF KernelSpec, FileSystemGoing

\* The buffer is formatted once, while it is as formatted: the format is no step.
LEMMA KernelImplements ==
  ASSUME NeverRestarts, KernelInv, [KernelNext]_kernelVars
  PROVE  [FilesysNext]_filesysVars
<1>1. CASE phase = "format" /\ noosfs_format
  <2>1. FilesysInit
    BY <1>1 DEF KernelInv, BootInv, NeverRestarts
  <2> QED BY <1>1, <2>1, FormatAgain
<1> QED BY <1>1, KernelStep

\* Every run of the kernel without restarts is a run of the path layer, so that what is
\* proved of the paths holds below the kernel.
THEOREM KernelImplementsFilesys ==
  ASSUME BuildFits, ReadsByReadWrite, NeverRestarts
  PROVE  KernelSpec => FilesysSpec
<1>1. KernelInit => FilesysInit
  BY DEF KernelInit
<1>2. KernelInit => KernelInv
  BY KernelInvInductive
<1>3. KernelInv /\ [KernelNext]_kernelVars => KernelInv'
  BY KernelInvInductive
<1>4. KernelInv /\ [KernelNext]_kernelVars => [FilesysNext]_filesysVars
  BY KernelImplements
<1> QED BY <1>1, <1>2, <1>3, <1>4, PTL DEF KernelSpec, FilesysSpec

(***************************************************************************)
(* A user who adds new names only                                          *)
(***************************************************************************)
\* The calls of the library that a careful kernel makes: it creates no file twice.
CarefulCall ==
  \/ UNCHANGED vars
  \/ \E v \in Device : ~ Loaded(v) /\ LibInitFS(v)
  \/ \E v \in Device, n \in Filename :
       \/ FindFile(v, n) = FILE_NOT_FOUND /\ LibCreat(v, n, NONE)
       \/ LibOpen(v, n, O_RDWR)
       \/ LibRemove(v, n)
  \/ \E d \in Descriptor :
       \/ LibClose(d)
       \/ \E Length \in Lengths : LibRead(d, Length)
       \/ \E Length \in Lengths, b \in Byte : LibWrite(d, Length, b)
  \/ (\E v \in Device : LibOpenDir(v)) \/ LibReadDir \/ LibCloseDir

\* A name is created where the kernel's mount point leads, and it is new there.
LEMMA NewNameCreated ==
  ASSUME BankMounted, NEW filename \in Filename, ~ Exists(filename), noosfs_create(filename)
  PROVE  CarefulCall
<1>1. LibCreat(Buffer, filename, NONE)
  BY DEF BankMounted, noosfs_create, Creat, tempname
<1>2. Buffer \in Device /\ FindFile(Buffer, filename) = FILE_NOT_FOUND
  BY NoOSAssumption DEF Exists
<1> QED BY <1>1, <1>2 DEF CarefulCall

LEMMA PathCalled ==
  ASSUME FilesysInv, NEW filename \in Filename,
         noosfs_open(filename) \/ noosfs_delete(filename)
  PROVE  CarefulCall
<1>1. \A v \in Resolve(NoOSBank) : v \in Device
  BY ResolveRegistered DEF FilesysInv
<1>2. \E v \in Resolve(NoOSBank) : LibOpen(v, filename, O_RDWR) \/ LibRemove(v, filename)
  BY DEF noosfs_open, noosfs_delete, Open, Remove, tempname
<1> QED BY <1>1, <1>2 DEF CarefulCall

LEMMA FdCalled ==
  ASSUME NEW d, \/ noosfs_close(d)
                \/ \E size \in Lengths : noosfs_read(d, size)
                \/ \E size \in Lengths, b \in Byte : noosfs_write(d, size, b)
  PROVE  CarefulCall
<1>1. \/ LibClose(d)
      \/ \E size \in Lengths : LibRead(d, size)
      \/ \E size \in Lengths, b \in Byte : LibWrite(d, size, b)
  BY DEF noosfs_close, noosfs_read, noosfs_write
<1>2. d \in Descriptor
  BY <1>1 DEF LibClose, LibRead, LibWrite, IsValidFileDescriptor
<1> QED BY <1>1, <1>2 DEF CarefulCall

LEMMA ListCalled ==
  ASSUME FilesysInv, noosfs_list_open \/ noosfs_list_entry \/ noosfs_list_close
  PROVE  CarefulCall
<1>1. \A v \in Resolve(NoOSBank) : v \in Device
  BY ResolveRegistered DEF FilesysInv
<1> QED BY <1>1 DEF noosfs_list_open, noosfs_list_entry, noosfs_list_close, OpenDir, CarefulCall

LEMMA CarefulBoot ==
  ASSUME NeverRestarts, KernelInv, Boot
  PROVE  CarefulCall
<1>1. FilesysInv
  BY DEF KernelInv
<1>2. CASE UNCHANGED filesysVars
  BY <1>2 DEF filesysVars, CarefulCall
<1>3. CASE phase = "format" /\ noosfs_format
  <2>1. FilesysInit
    BY <1>3 DEF KernelInv, BootInv, NeverRestarts
  <2> QED BY <1>2, <1>3, <2>1, FormatAgain
<1>4. CASE noosfs_init
  BY <1>1, <1>4, NoOSAssumption, InitFSLoadsUnused DEF noosfs_init, CarefulCall
<1>5. CASE noosfs_mount
  BY <1>5 DEF noosfs_mount, Mount, CarefulCall
<1>6. CASE phase = "create" /\ noosfs_create(BuildFile)
  <2>1. BankMounted /\ inode[Buffer] = EmptyFat
    BY <1>6 DEF KernelInv, BootInv
  <2>2. EmptyFat.NumberOfFiles = 0
    BY DEF EmptyFat, ZeroTable
  <2>3. ~ Exists(BuildFile)
    BY <2>1, <2>2 DEF Exists, FindFile, Slots
  <2> QED BY <1>6, <2>1, <2>3, KernelAssumption, NewNameCreated
<1>7. CASE noosfs_open(BuildFile)
  BY <1>1, <1>7, KernelAssumption, PathCalled
<1>8. CASE \/ noosfs_close(fd) \/ noosfs_read(fd, BuildBufferSize)
           \/ noosfs_write(fd, BuildSize, BuildByte)
  <2>1. {BuildSize, BuildBufferSize} \subseteq Lengths /\ BuildByte \in Byte
    BY CallerAssumption, KernelAssumption
  <2> QED BY <1>8, <2>1, FdCalled
<1> QED BY <1>2, <1>3, <1>4, <1>5, <1>6, <1>7, <1>8 DEF Boot, Step, OnFd, OpenAs, ReadBuild

LEMMA CarefulCommand ==
  ASSUME AddsNewNames, KernelInv, KernelNext, ~ Boot
  PROVE  CarefulCall
<1>1. FilesysInv
  BY DEF KernelInv
<1>2. CASE Restart
  BY <1>2 DEF Restart, filesysVars, CarefulCall
<1>3. ASSUME NEW filename \in Filename, Add(filename)
      PROVE  CarefulCall
  <2>1. ~ Exists(filename) /\ noosfs_create(filename) /\ phase = "shell"
    BY <1>3 DEF Add, Command, OpenAs, AddsNewNames
  <2>2. BankMounted
    BY <2>1 DEF KernelInv, BootInv, Booted
  <2> QED BY <2>1, <2>2, NewNameCreated
<1>4. ASSUME NEW filename \in Filename, Rewrite(filename) \/ Show(filename) \/ Kill(filename)
      PROVE  CarefulCall
  BY <1>1, <1>4, PathCalled DEF Rewrite, Show, Kill, Command, OpenAs, OnFd
<1>5. CASE EndInput \/ EndShow \/ ShowByte \/ \E b \in Byte : TypeLine(b)
  <2>1. {LineSize, 1} \subseteq Lengths
    BY CallerAssumption
  <2> QED BY <1>5, <2>1, FdCalled DEF EndInput, EndShow, ShowByte, TypeLine, OnFd
<1>6. CASE List \/ ListEntry \/ EndList
  BY <1>1, <1>6, ListCalled DEF List, ListEntry, EndList, Command, OnFd
<1> QED BY <1>2, <1>3, <1>4, <1>5, <1>6 DEF KernelNext, Program, User

LEMMA CarefulStep ==
  ASSUME NeverRestarts, AddsNewNames, KernelInv, [KernelNext]_kernelVars
  PROVE  CarefulCall
<1>1. CASE UNCHANGED kernelVars
  BY <1>1 DEF kernelVars, filesysVars, CarefulCall
<1> QED BY <1>1, CarefulBoot, CarefulCommand

\* These calls keep the tables in agreement,
LEMMA CarefulTables ==
  ASSUME WritesByReadWrite, TypeOK, TableInv, CarefulCall
  PROVE  TableInv'
<1>1. ASSUME NEW v \in Device, ~ Loaded(v), LibInitFS(v)
      PROVE  TableInv'
  BY <1>1, InitFSTableStep
<1>2. ASSUME NEW v \in Device, NEW n \in Filename,
             \/ FindFile(v, n) = FILE_NOT_FOUND /\ LibCreat(v, n, NONE)
             \/ LibOpen(v, n, O_RDWR)
      PROVE  TableInv'
  <2>1. \/ \E i : LibOpenFile(v, i, O_RDWR)
        \/ \E Attributes : LibCreatFile(v, n, Attributes)
    BY <1>2 DEF LibOpen, LibCreat
  <2> QED BY <2>1, OpenFileTableStep, CreatFileTableStep DEF WritesByReadWrite
<1>3. ASSUME NEW v \in Device, NEW n \in Filename, LibRemove(v, n)
      PROVE  TableInv'
  BY <1>3, OtherTableStep DEF LibRemove, StoreHeader
<1>4. ASSUME NEW d \in Descriptor, LibClose(d)
      PROVE  TableInv'
  BY <1>4, CloseTableStep
<1>5. ASSUME NEW d \in Descriptor,
             \/ \E Length \in Lengths : LibRead(d, Length)
             \/ \E Length \in Lengths, b \in Byte : LibWrite(d, Length, b)
      PROVE  TableInv'
  BY <1>5, TransferStep, DescriptorsMoved
<1>6. CASE (\E v \in Device : LibOpenDir(v)) \/ LibReadDir \/ LibCloseDir
  BY <1>6, OtherTableStep DEF LibOpenDir, LibReadDir, LibCloseDir, image
<1>7. CASE UNCHANGED vars
  BY <1>7, OtherTableStep DEF vars
<1> QED BY <1>1, <1>2, <1>3, <1>4, <1>5, <1>6, <1>7 DEF CarefulCall

\* and the files intact.
LEMMA CarefulFiles ==
  ASSUME ReadsByReadWrite, WritesByReadWrite, TypeOK, TableInv, FileInv, TypeOK', TableInv',
         CarefulCall
  PROVE  FileInv'
<1>1. ASSUME NEW v \in Device, ~ Loaded(v), LibInitFS(v)
      PROVE  FileInv'
  BY <1>1, InitFSStep
<1>2. ASSUME NEW v \in Device, NEW n \in Filename,
             \/ FindFile(v, n) = FILE_NOT_FOUND /\ LibCreat(v, n, NONE)
             \/ LibOpen(v, n, O_RDWR)
      PROVE  FileInv'
  <2> DEFINE i == FindFile(v, n)
  <2>1. \/ i # FILE_NOT_FOUND /\ LibOpenFile(v, i, O_RDWR)
        \/ /\ i = FILE_NOT_FOUND
           /\ \E Attributes \in {NONE, READONLY} : LibCreatFile(v, n, Attributes)
    BY <1>2 DEF LibOpen, LibCreat
  <2>2. i # FILE_NOT_FOUND => i \in Slots(inode[v]) /\ Header(v, i).InUse
    BY FindFileResult
  <2>3. FlagsSafe(O_RDWR)
    BY DEF ReadsByReadWrite, WritesByReadWrite, FlagsSafe
  <2>4. CASE i # FILE_NOT_FOUND
    <3> HIDE DEF i
    <3> QED BY <2>1, <2>2, <2>3, <2>4, OpenFileStep
  <2>5. CASE i = FILE_NOT_FOUND
    BY <2>1, <2>5, CreatFileStep
  <2> QED BY <2>4, <2>5
<1>3. ASSUME NEW v \in Device, NEW n \in Filename, LibRemove(v, n)
      PROVE  FileInv'
  BY <1>3, RemoveStep
<1>4. ASSUME NEW d \in Descriptor, LibClose(d)
      PROVE  FileInv'
  BY <1>4, CloseStep
<1>5. ASSUME NEW d \in Descriptor, NEW Length \in Lengths,
             LibRead(d, Length) \/ \E b \in Byte : LibWrite(d, Length, b)
      PROVE  FileInv'
  BY <1>5, ReadStep, WriteStep
<1>6. CASE (\E v \in Device : LibOpenDir(v)) \/ LibReadDir \/ LibCloseDir
  <2>1. eeprom' = eeprom /\ fat' = fat /\ inode' = inode /\ fdTable' = fdTable
    BY <1>6 DEF LibOpenDir, LibReadDir, LibCloseDir, image
  <2> QED BY <2>1, NothingStored DEF FreedOrKept
<1>7. CASE UNCHANGED vars
  BY <1>7, NothingStored DEF vars, FreedOrKept
<1> QED BY <1>1, <1>2, <1>3, <1>4, <1>5, <1>6, <1>7 DEF CarefulCall

CarefulInv == KernelInv /\ TableInv /\ FileInv

LEMMA CarefulInvInductive ==
  ASSUME BuildFits, ReadsByReadWrite, WritesByReadWrite, NeverRestarts, AddsNewNames
  PROVE  KernelSpec => []CarefulInv
<1>1. KernelInit => CarefulInv
  BY KernelInvInductive, InitTable, InitFile DEF KernelInit, FilesysInit, CarefulInv
<1>2. CarefulInv /\ [KernelNext]_kernelVars => CarefulInv'
  <2> SUFFICES ASSUME CarefulInv, [KernelNext]_kernelVars PROVE CarefulInv'
    OBVIOUS
  <2>1. KernelInv /\ TypeOK /\ TableInv /\ FileInv
    BY DEF CarefulInv, KernelInv, FilesysInv
  <2>2. KernelInv' /\ CarefulCall
    BY <2>1, KernelInvInductive, CarefulStep
  <2>3. TypeOK'
    BY <2>2 DEF KernelInv, FilesysInv
  <2>4. TableInv'
    BY <2>1, <2>2, CarefulTables
  <2>5. FileInv'
    BY <2>1, <2>2, <2>3, <2>4, CarefulFiles
  <2> QED BY <2>2, <2>4, <2>5 DEF CarefulInv
<1> QED BY <1>1, <1>2, PTL DEF KernelSpec

\* Under the flags of the kernel's own build, where the library alone lets two files share
\* memory (an existing file that is created again keeps a creating descriptor), the files
\* of a user who adds new names only lie apart for ever.
THEOREM KernelKeepsFilesApart ==
  ASSUME BuildFits, ReadsByReadWrite, WritesByReadWrite, NeverRestarts, AddsNewNames
  PROVE  KernelSpec => []SlotsDisjoint
<1>1. CarefulInv => SlotsDisjoint
  BY LoadedTablesTiled DEF CarefulInv, KernelInv, FilesysInv
<1> QED BY <1>1, CarefulInvInductive, PTL

\* The library's other promises hold for that user too: names are unique, open files are
\* protected, descriptors stay inside their files, the image can be mounted again, and
\* EEFS_LibStat agrees with the descriptors.
THEOREM KernelKeepsFilesIntact ==
  ASSUME BuildFits, ReadsByReadWrite, WritesByReadWrite, NeverRestarts, AddsNewNames
  PROVE  KernelSpec => [](UniqueNames /\ OpenFilesProtected /\ DescriptorsInBounds
                          /\ MountableImage /\ StatsAgree)
<1>1. CarefulInv => /\ UniqueNames /\ OpenFilesProtected /\ DescriptorsInBounds
                    /\ MountableImage /\ StatsAgree
  BY BoundsFollow, NamesFollow, ProtectionFollows, ImageFollows, StatsFollow
     DEF CarefulInv, KernelInv, FilesysInv
<1> QED BY <1>1, CarefulInvInductive, PTL
=============================================================================
