\* The claim does not hold of the code.
SPECIFICATION Spec
CONSTANTS
  Agents = {a1}
  Callers = {c1}
  NoAgent = NoAgent
  MaxRuns = 2
  MaxQueue = 1
INVARIANTS
  CancelledNotResumed
