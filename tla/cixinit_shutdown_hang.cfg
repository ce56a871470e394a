SPECIFICATION FairSpec
CONSTANTS
  N = 2
  Tables <- MCFailBesideStop
  Statuses <- MCTwoStatuses
  Ops <- StartOnly
  MaxCommands = 1
PROPERTIES ShutdownCompletes
