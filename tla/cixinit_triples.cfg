SPECIFICATION Spec
CONSTANTS
  N = 3
  Tables <- MCTriples
  Statuses <- MCTwoStatuses
  Ops <- AllOps
  MaxCommands = 1
INVARIANTS StartedAfterDependencies ExitLeavesNothing
PROPERTIES  ImplementsSupervisor
