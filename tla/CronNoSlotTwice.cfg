SPECIFICATION Spec
CONSTANTS
  j1 = j1
  j2 = j2
  Jobs = {j1, j2}
  Slots <- MCSlots
  Poll = 2
  Slack = 1
  None = None
  Horizon = 7
  MaxCrashes = 1
  MaxFailures = 1
  MaxCalls = 2
INVARIANTS
  NoSlotTwice
