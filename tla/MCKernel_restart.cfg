\* A user with every habit: exit and quit, adding a name twice, naming a missing file.
CONSTANTS
  Device = {myBuffer}
  DeviceName = {eedev1}
  MountPoint = {eebank1}
  MaxDevices = 2
  MaxVolumes = 2
  Buffer = myBuffer
  NoOSDevice = eedev1
  NoOSBank = eebank1
  Filename = {nbuild, n1}
  NoName = NoName
  NullTable = NullTable
  Byte = {x}
  ErasedByte = erased
  Pad = Pad
  Scrambled <- MCScrambled
  MaxFiles = 3
  MaxOpenFiles = 2
  FatSize = 1
  HeaderSize = 1
  DeviceSize = 16
  SpareBytes = 1
  HalfWord = 64
  O_RDONLY = 1
  O_WRONLY = 2
  O_RDWR = 3
  O_TRUNC = 4
  O_CREAT = 5
  O_ACCMODE = 6
  CallerFlags = {1, 2, 3}
  Lengths = {1, 2}
  SeekOffsets = {0}
  BuildFile = nbuild
  BuildSize = 1
  BuildBufferSize = 2
  BuildByte = x
  LineSize = 2
  Habits = {"restart", "add existing", "open missing"}
  AddLimit = 16
SPECIFICATION KernelSpec
INVARIANTS
  DescriptorsOwned
  BuildShown
PROPERTIES
  PromptReturns
