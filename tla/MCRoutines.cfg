\* Ints of 9 bits and longs of 4 digits; names of every length around the limits, calls in
\* any order; images of both orders in bytes of four bits, with up to three files; two runs
\* of bobsort.
CONSTANTS
  IntLimit = 256
  DirectLimit = 63
  MaxPower = 3
  TextSize = 5
  Ints <- MCInts
  Longs <- MCLongs
  Name <- MCName
  Mount <- MCMount
  TempSize = 10
  PathSize = 8
  NameSize = 4
  MaxFiles = 3
  Garbage <- MCGarbage
  Machine = "LITTLE_ENDIAN"
  ByteValues = 16
  EEFS_MAX_FILES = 3
  Number <- MCNumber
  max_sort_size = 5
  Sizes <- MCSizes
  Runs = 2
SPECIFICATION RoutinesSpec
INVARIANTS
  PrintsTheInt
  PowersKeepTheNumber
  FindsByName
  ReadsAsMeant
  SortedAtTheEnd
CHECK_DEADLOCK FALSE
