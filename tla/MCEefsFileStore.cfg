\* Files, not slots: some of the flags of <fcntl.h>; room for two files with data.
CONSTANTS
  Device = {v1}
  Filename = {n1, n2}
  NoName = NoName
  NullTable = NullTable
  Byte = {x}
  ErasedByte = erased
  Pad = Pad
  Scrambled <- MCScrambled
  MaxFiles = 2
  MaxOpenFiles = 2
  FatSize = 1
  HeaderSize = 1
  DeviceSize = 8
  SpareBytes = 1
  HalfWord = 16
  O_RDONLY = 0
  O_WRONLY = 1
  O_RDWR = 2
  O_TRUNC = 512
  O_CREAT = 64
  O_ACCMODE = 3
  CallerFlags <- MCFlags
  Lengths = {4}
  SeekOffsets = {0}
SYMMETRY Symmetry
SPECIFICATION Spec
PROPERTIES
  ImplementsFileStore
