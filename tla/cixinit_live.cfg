SPECIFICATION FairSpec
CONSTANTS
  N = 2
  Tables <- MCLive
  Statuses <- MCTwoStatuses
  Ops <- StopOnly
  MaxCommands = 1
PROPERTIES ShutdownCompletes StopTakesEffect ProbeIsBounded
