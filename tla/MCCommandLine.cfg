\* A letter, exit, c and spaces; a buffer with room for a line behind the name of exit.
CONSTANTS
  LetterKeys = {"l", "x"}
  Exit = "x"
  BufferSize = 5
  PointerSize = 1
  MAX_ARGS = 2
  MaxCodes = 3
  MaxLine = 3
SPECIFICATION CommandSpec
INVARIANTS
  BufferHolds
  ArgumentsAreTheLine
PROPERTIES
  DispatchesWhatWasTyped
  LinesAreAnswered
