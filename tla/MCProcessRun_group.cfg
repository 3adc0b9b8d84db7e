SPECIFICATION Spec
CONSTANTS
  Leader = leader
  Kin = {}
  Cancellors = {"local"}
  MaxOutput = 0
INVARIANTS CancelGroupSparesStrangers
