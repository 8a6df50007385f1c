\* The claim does not hold of the code.
SPECIFICATION Spec
CONSTANTS
  Tasks = {t1}
  Clients = {c1}
  NoTask = NoTask
  MaxCrashes = 1
INVARIANTS
  CanceledStaysCanceled
