SPECIFICATION RoutingTableSpec
CONSTANTS
  Files <- MCFiles
  Blank = Blank
  IdMod = 4
  LongMod = 8
  Garbage = {3}
INVARIANT
  RouteReplaced
\* the reader stops at the end of the file
CHECK_DEADLOCK FALSE
