\* The hosted build: open flags of <fcntl.h>.
CONSTANTS
  Device = {v1}
  Filename = {n1, n2}
  NoName = NoName
  NullTable = NullTable
  Byte = {x}
  ErasedByte = erased
  Pad = Pad
  Scrambled <- MCScrambled
  MaxFiles = 2
  MaxOpenFiles = 2
  FatSize = 1
  HeaderSize = 2
  DeviceSize = 12
  SpareBytes = 1
  HalfWord = 64
  O_RDONLY = 0
  O_WRONLY = 1
  O_RDWR = 2
  O_TRUNC = 512
  O_CREAT = 64
  O_ACCMODE = 3
  CallerFlags <- HostedFlags
  Lengths = {4}
  SeekOffsets <- MCOffsets
SYMMETRY Symmetry
SPECIFICATION Spec
INVARIANTS
  TypeOK
  SlotsDisjoint
  EepromMatchesRam
  MountableImage
  UniqueNames
  OpenFilesProtected
  DescriptorsInBounds
  StatsAgree
  DescriptorAccounting
  DirectoryInBounds
  TableInv
PROPERTIES
  SlotsFixed
  DataChangesByItsWriter
