\* Two sessions whose tool calls interleave on one child, under fair scheduling.
SPECIFICATION FairSpec
CONSTANTS
  Agents = {a1}
  Callers = {c1, c2}
  NoAgent = NoAgent
  MaxRuns = 2
  MaxQueue = 1
INVARIANTS
  TypeOK
  SingleLiveTask
  TokenReachesTask
  TerminalStateIsTrue
  OutputOfCurrentRun
  NoSilentInputLoss
  FileLeadsTable
PROPERTIES
  UnwantedTasksEnd
  LeaseSpec
