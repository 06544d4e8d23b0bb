\* Two devices, two mount points, one file per device.
CONSTANTS
  Device = {v1, v2}
  DeviceName = {dev1, dev2}
  MountPoint = {m1, m2}
  MaxDevices = 2
  MaxVolumes = 2
  Filename = {n1, n2}
  NoName = NoName
  NullTable = NullTable
  Byte = {x}
  ErasedByte = erased
  Pad = Pad
  Scrambled <- MCScrambled
  MaxFiles = 1
  MaxOpenFiles = 2
  FatSize = 1
  HeaderSize = 1
  DeviceSize = 3
  SpareBytes = 0
  HalfWord = 64
  O_RDONLY = 0
  O_WRONLY = 1
  O_RDWR = 2
  O_TRUNC = 512
  O_CREAT = 64
  O_ACCMODE = 3
  CallerFlags <- MCFlags
  Lengths = {0}
  SeekOffsets = {0}
SYMMETRY Symmetry
SPECIFICATION FilesysSpec
INVARIANTS
  TablesTypeOK
  TablesUnambiguous
  OnlyRegisteredInUse
  OpenFilesMounted
PROPERTIES
  Spec
