----------------------------- MODULE EefsFilesys -----------------------------
(***************************************************************************)
(* The path layer of the file system (NoOS/src/eefs_filesys.c): the device *)
(* table, which gives a name and an inode table to each EEPROM image, the  *)
(* volume table, which mounts devices, and the calls of EefsFileApi as     *)
(* applications make them, through a path.  The inode table of a device    *)
(* table entry is named by the base address of the entry; a path is split  *)
(* into its mount point and its file name.                                 *)
(***************************************************************************)
EXTENDS EefsFileApi

CONSTANTS
  DeviceName,     \* device names, which begin with '/'
  MountPoint,     \* mount points, which begin with '/'
  MaxDevices,     \* EEFS_MAX_DEVICES
  MaxVolumes      \* EEFS_MAX_VOLUMES

VARIABLES
  deviceTable,    \* EEFS_DeviceTable
  volumeTable     \* EEFS_VolumeTable

tables == <<deviceTable, volumeTable>>
filesysVars == <<vars, tables>>

ASSUME TablesAssumption ==
  /\ MaxDevices \in Nat \ {0} /\ MaxVolumes \in Nat \ {0}
  /\ NoName \notin DeviceName \cup MountPoint

DeviceIndex == 0 .. MaxDevices - 1
VolumeIndex == 0 .. MaxVolumes - 1

DeviceEntry == [InUse : BOOLEAN, BaseAddress : Device \cup {NullTable},
                DeviceName : DeviceName \cup {NoName}]
VolumeEntry == [InUse : BOOLEAN, DeviceName : DeviceName \cup {NoName},
                MountPoint : MountPoint \cup {NoName}]
Path == [MountPoint : MountPoint, Filename : Filename]

ZeroDevice == [InUse |-> FALSE, BaseAddress |-> NullTable, DeviceName |-> NoName]
ZeroVolume == [InUse |-> FALSE, DeviceName |-> NoName, MountPoint |-> NoName]

(***************************************************************************)
(* Look-ups.  Each search of a table returns its first match.              *)
(***************************************************************************)
First(S) == CHOOSE i \in S : \A j \in S : i <= j

DevicesNamed(name) ==
  {i \in DeviceIndex : deviceTable[i].InUse /\ deviceTable[i].DeviceName = name}
VolumesAt(m) == {i \in VolumeIndex : volumeTable[i].InUse /\ volumeTable[i].MountPoint = m}
FreeDevices == {i \in DeviceIndex : ~ deviceTable[i].InUse}
FreeVolumes == {i \in VolumeIndex : ~ volumeTable[i].InUse}

\* The inode table that mount point m leads to: none, or the one of the first device
\* with the device name of the first volume there.
Resolve(m) ==
  LET found == DevicesNamed(volumeTable[First(VolumesAt(m))].DeviceName)
  IN  IF VolumesAt(m) = {} \/ found = {} THEN {}
      ELSE {deviceTable[First(found)].BaseAddress}

(***************************************************************************)
(* Boot, devices and volumes                                               *)
(***************************************************************************)
FilesysInit ==
  /\ Init
  /\ deviceTable = [i \in DeviceIndex |-> ZeroDevice]
  /\ volumeTable = [i \in VolumeIndex |-> ZeroVolume]

\* A reset zeroes both tables with the rest of RAM.
ResetTables ==
  /\ deviceTable' = [i \in DeviceIndex |-> ZeroDevice]
  /\ volumeTable' = [i \in VolumeIndex |-> ZeroVolume]

NameConfigured(name, base) ==       \* seeded bug: a second device on one base address
  DevicesNamed(name) # {}

\* "make sure the DeviceName and the BaseAddress are not already configured"
Configured(name, base) ==
  \E i \in DeviceIndex : /\ deviceTable[i].InUse
                         /\ \/ deviceTable[i].DeviceName = name
                            \/ deviceTable[i].BaseAddress = base

InitFS(name, base) ==
  /\ ~ Configured(name, base)
  /\ FreeDevices # {}
  /\ LibInitFS(base)
  /\ deviceTable' = [deviceTable EXCEPT ![First(FreeDevices)] =
                       [InUse |-> TRUE, BaseAddress |-> base, DeviceName |-> name]]
  /\ UNCHANGED volumeTable

AlwaysFree(m) == TRUE               \* seeded bug: a mount point can be mounted twice
Unmounted(m) == VolumesAt(m) = {}

SwappedVolume(name, m) ==           \* seeded bug: the two names are swapped
  [InUse |-> TRUE, DeviceName |-> m, MountPoint |-> name]
NewVolume(name, m) == [InUse |-> TRUE, DeviceName |-> name, MountPoint |-> m]

Mount(name, m) ==
  /\ DevicesNamed(name) # {}
  /\ Unmounted(m)
  /\ FreeVolumes # {}
  /\ volumeTable' = [volumeTable EXCEPT ![First(FreeVolumes)] = NewVolume(name, m)]
  /\ UNCHANGED <<vars, deviceTable>>

OnlyFilesBusy(v) == HasOpenFiles(v) \* seeded bug: an open directory does not matter
Busy(v) == HasOpenFiles(v) \/ HasOpenDir(v)

UnMount(m) ==
  /\ \E v \in Resolve(m) : ~ Busy(v)
  /\ volumeTable' = [volumeTable EXCEPT ![First(VolumesAt(m))] = ZeroVolume]
  /\ UNCHANGED <<vars, deviceTable>>

(***************************************************************************)
(* Files and directories                                                   *)
(***************************************************************************)
Open(path, Flags) == \E v \in Resolve(path.MountPoint) : LibOpen(v, path.Filename, Flags)
Creat(path, Mode) == \E v \in Resolve(path.MountPoint) : LibCreat(v, path.Filename, Mode)
Remove(path) == \E v \in Resolve(path.MountPoint) : LibRemove(v, path.Filename)

\* "you cannot move a file by renaming it to a different volume"
Rename(old, new) ==
  /\ old.MountPoint = new.MountPoint
  /\ \E v \in Resolve(old.MountPoint) : LibRename(v, old.Filename, new.Filename)

SetFileAttributes(path, Attributes) ==
  \E v \in Resolve(path.MountPoint) : LibSetFileAttributes(v, path.Filename, Attributes)

OpenDir(m) == \E v \in Resolve(m) : LibOpenDir(v)

\* The calls that take a descriptor go straight to the library.
DescriptorCall(d) ==
  \/ LibClose(d)
  \/ \E Length \in Lengths : LibRead(d, Length)
  \/ \E Length \in Lengths, b \in Byte : LibWrite(d, Length, b)
  \/ \E offset \in SeekOffsets, origin \in Origin : LibLSeek(d, offset, origin)

LibraryCall ==
  \/ \E path \in Path :
       \/ \E Flags \in CallerFlags : Open(path, Flags)
       \/ \E Mode \in {NONE, READONLY} : Creat(path, Mode)
       \/ Remove(path)
       \/ \E new \in Path : Rename(path, new)
       \/ \E Attributes \in {NONE, READONLY} : SetFileAttributes(path, Attributes)
  \/ \E m \in MountPoint : OpenDir(m)
  \/ LibReadDir
  \/ LibCloseDir
  \/ \E d \in Descriptor : DescriptorCall(d)

FilesysNext ==
  \/ LibraryCall /\ UNCHANGED tables
  \/ \E name \in DeviceName, base \in Device : InitFS(name, base)
  \/ \E name \in DeviceName, m \in MountPoint : Mount(name, m)
  \/ \E m \in MountPoint : UnMount(m)
  \/ Reset /\ ResetTables
  \/ \E d \in Descriptor : ResetDuringClose(d) /\ ResetTables

FilesysSpec == FilesysInit /\ [][FilesysNext]_filesysVars

(***************************************************************************)
(* Invariants.  FilesysSpec is also checked to implement Spec, the library *)
(* on its own, so that what holds of the library holds through any number  *)
(* of mount points of one device.                                          *)
(***************************************************************************)
\* Both tables hold values of their C types.
TablesTypeOK ==
  /\ deviceTable \in [DeviceIndex -> DeviceEntry]
  /\ volumeTable \in [VolumeIndex -> VolumeEntry]

\* "Note that the DeviceName and the BaseAddress of the file system must be unique":
\* two inode tables never describe one EEPROM image, and no path is ambiguous.
TablesUnambiguous ==
  /\ \A i, j \in DeviceIndex : i # j /\ deviceTable[i].InUse /\ deviceTable[j].InUse =>
       /\ deviceTable[i].DeviceName # deviceTable[j].DeviceName
       /\ deviceTable[i].BaseAddress # deviceTable[j].BaseAddress
  /\ \A i, j \in VolumeIndex : i # j /\ volumeTable[i].InUse /\ volumeTable[j].InUse =>
       volumeTable[i].MountPoint # volumeTable[j].MountPoint

Registered(v) == \E i \in DeviceIndex : deviceTable[i].InUse /\ deviceTable[i].BaseAddress = v

\* Only a device of the table has a loaded inode table, open files or an open
\* directory, so EEFS_InitFS never reloads a table that is in use.
OnlyRegisteredInUse ==
  /\ \A v \in Device : Loaded(v) => Registered(v)
  /\ \A d \in Descriptor : fdTable[d].InUse => Registered(fdTable[d].InodeTable)
  /\ dir.InUse => Registered(dir.InodeTable)

\* A volume always leads to a device, and a device with an open file or an open
\* directory keeps a volume that leads to it: "can't unmount a volume while files
\* are open".
OpenFilesMounted ==
  LET mounted == UNION {Resolve(m) : m \in MountPoint}
  IN  /\ \A i \in VolumeIndex : volumeTable[i].InUse => Resolve(volumeTable[i].MountPoint) # {}
      /\ \A d \in Descriptor : fdTable[d].InUse => fdTable[d].InodeTable \in mounted
      /\ dir.InUse => dir.InodeTable \in mounted
=============================================================================
