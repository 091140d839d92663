CONSTANTS
  Arguments <- MCArguments
  ProgramLengths = {0, 4}
  RepCounts = {0, 1, 3}
SPECIFICATION DriverSpec
INVARIANT DriverFreesAll
CHECK_DEADLOCK FALSE
