\* Every time of day and both hour formats; sizes from the least int to the greatest, in
\* words of 6 bits; all that can be printed on a screen of two rows, wide enough for one
\* tab, scrolled more than once.  At MaxOutput the program stops printing.
CONSTANTS
  SecondsPerMinute = 18
  MinutesPerHour = 2
  HoursPerDay = 2
  Formats <- MCFormats
  FirstTimes = {0}
  MaxAge = 2
  MaxElapsed = 4
  Word = 64
  noosrt_mem = 10
  MemSize = 8
  SizeLimit = 9
  Sizes <- MCSizes
  VGA_WIDTH = 6
  VGA_HEIGHT = 2
  Char = {"a"}
  Beyond = " "
  Margin = 9
  MaxOutput = 9
SPECIFICATION RuntimeSpec
INVARIANTS
  AnswersAreTrue
  BlocksDisjoint
  WritesInBlocks
  WritesOnScreen
  ScreenShowsTheEnd
PROPERTIES
  DurationIsElapsed
  EveryCallReturns
CHECK_DEADLOCK FALSE
