SPECIFICATION Spec
CONSTANTS
  N = 2
  Tables <- MCPairs
  Statuses <- MCTwoStatuses
  Ops <- AllOps
  MaxCommands = 2
INVARIANTS TypeOK ReadyMeansRunning HeldStaysDown RestartIsUnderWay 
PROPERTIES ShutdownOnlyStops
