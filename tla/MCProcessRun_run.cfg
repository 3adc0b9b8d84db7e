SPECIFICATION FairSpec
CONSTANTS
  Leader = leader
  Kin = {child, grandchild}
  Cancellors = {"local", "custom", "none"}
  MaxOutput = 1
INVARIANTS TypeOK EndAfterOutput DrainedOnReturn NoGroupSurvivor
PROPERTIES ImplementsRunEvents StopReturns ChildExitReturns
