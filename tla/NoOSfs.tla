------------------------------- MODULE NoOSfs -------------------------------
(***************************************************************************)
(* The file system of the kernel (NoOS/src/NoOSfs.c): one device, whose    *)
(* EEPROM is the array myBuffer, mounted at one mount point, and the       *)
(* noosfs_ calls, which put that mount point before a file name.           *)
(*                                                                         *)
(* noosfs_init is two actions, in the order of the code: it writes an      *)
(* empty image over the buffer, and then it calls EEFS_InitFS, which may   *)
(* refuse.                                                                 *)
(***************************************************************************)
EXTENDS EefsFilesys

CONSTANTS
  Buffer,         \* the address of myBuffer
  NoOSDevice,     \* DeviceName, "/EEDEV1"
  NoOSBank        \* eefs_mountpoint, "/eebank1"

ASSUME NoOSAssumption ==
  Buffer \in Device /\ NoOSDevice \in DeviceName /\ NoOSBank \in MountPoint

\* tempname: the mount point, a '/' and the file name.
tempname(filename) == [MountPoint |-> NoOSBank, Filename |-> filename]

noosfs_format ==
  /\ eeprom' = [eeprom EXCEPT ![Buffer] = [a \in Address |-> ErasedByte]]
  /\ fat' = [fat EXCEPT ![Buffer] = EmptyFat]
  /\ UNCHANGED <<inode, fdTable, counters, dir, tables>>

noosfs_init == InitFS(NoOSDevice, Buffer)
noosfs_mount == Mount(NoOSDevice, NoOSBank)

noosfs_create(filename) == Creat(tempname(filename), NONE) /\ UNCHANGED tables
noosfs_open(filename) == Open(tempname(filename), O_RDWR) /\ UNCHANGED tables
noosfs_read(fd, size) == LibRead(fd, size) /\ UNCHANGED tables
noosfs_write(fd, size, b) == LibWrite(fd, size, b) /\ UNCHANGED tables
noosfs_close(fd) == LibClose(fd) /\ UNCHANGED tables
noosfs_delete(filename) == Remove(tempname(filename)) /\ UNCHANGED tables

\* What noosfs_read puts into the caller's buffer.
BytesRead(fd, size) ==
  LET f == fdTable[fd]
  IN  [k \in 0 .. BytesToRead(f, size) - 1 |-> eeprom[f.InodeTable][f.FileDataPointer + k]]

\* noosfs_list: the directory is opened, read to its end and closed.  The calls of
\* EEFS_Stat in between change nothing.
noosfs_list_open == OpenDir(NoOSBank) /\ UNCHANGED tables
noosfs_list_entry == LibReadDir /\ UNCHANGED tables
noosfs_list_close == LibCloseDir /\ UNCHANGED tables

(***************************************************************************)
(* When a call succeeds, for callers that test its return value.  A call   *)
(* that fails changes nothing.                                             *)
(***************************************************************************)
InitSucceeds ==
  /\ ~ Configured(NoOSDevice, Buffer)
  /\ FreeDevices # {}
  /\ fat[Buffer].NumberOfFiles <= MaxFiles

MountSucceeds == DevicesNamed(NoOSDevice) # {} /\ Unmounted(NoOSBank) /\ FreeVolumes # {}

RoomForFile(v) ==
  /\ inode[v].NumberOfFiles < MaxFiles
  /\ ~ HasOpenCreat(v)
  /\ inode[v].FreeMemorySize > HeaderSize
  /\ FreeDescriptors # {}

CreateSucceeds(filename) ==
  \E v \in Resolve(NoOSBank) :
    IF FindFile(v, filename) # FILE_NOT_FOUND
    THEN OpenFileStatus(v, FindFile(v, filename), CreatFlags) = SUCCESS
    ELSE RoomForFile(v)

OpenSucceeds(filename) ==
  \E v \in Resolve(NoOSBank) :
    IF FindFile(v, filename) # FILE_NOT_FOUND
    THEN OpenFileStatus(v, FindFile(v, filename), O_RDWR) = SUCCESS
    ELSE Bits(O_RDWR) \cap Bits(O_CREAT) # {} /\ RoomForFile(v)

ReadSucceeds(fd) == IsValidFileDescriptor(fd) /\ FREAD \in fdTable[fd].Mode
WriteSucceeds(fd) == IsValidFileDescriptor(fd) /\ FWRITE \in fdTable[fd].Mode
CloseSucceeds(fd) == IsValidFileDescriptor(fd)

\* EEFS_ReadDir returns NULL.
NoMoreEntries == dir.InodeIndex >= inode[dir.InodeTable].NumberOfFiles
=============================================================================
