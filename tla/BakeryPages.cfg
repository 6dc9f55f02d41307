\* Five ids, page sizes of one, three and the default of two; a finished client asks no more.
SPECIFICATION PagesSpec
CONSTANTS
  Ids = {1, 2, 3, 4, 5}
  Sizes = {0, 1, 3}
  DefaultSize = 2
  NoCursor = NoCursor
INVARIANTS
  PagesTypeOK
  NoRowTwice
  SteadyRowsSeen
CHECK_DEADLOCK FALSE
