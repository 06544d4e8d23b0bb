\* The bare-metal build: open flags of NoOSrt.h.
CONSTANTS
  Device = {v1}
  Filename = {n1, n2}
  NoName = NoName
  NullTable = NullTable
  Byte = {x}
  ErasedByte = erased
  Pad = Pad
  Scrambled <- MCScrambled
  MaxFiles = 2
  MaxOpenFiles = 2
  FatSize = 1
  HeaderSize = 2
  DeviceSize = 12
  SpareBytes = 1
  HalfWord = 64
  O_RDONLY = 1
  O_WRONLY = 2
  O_RDWR = 3
  O_TRUNC = 4
  O_CREAT = 5
  O_ACCMODE = 6
  CallerFlags <- BareMetalFlags
  Lengths = {3}
  SeekOffsets <- MCOffsets
SYMMETRY Symmetry
SPECIFICATION Spec
PROPERTIES
  OpenNeedsFile
