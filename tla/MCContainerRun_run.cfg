SPECIFICATION FairSpec
CONSTANTS
  MaxOutput = 2
  MaxProgress = 2
INVARIANTS TypeOK EndAfterLogs QuietAtRemove NoContainerForgotten
PROPERTIES ImplementsRunEvents StopReturns WaitFailureReturns
