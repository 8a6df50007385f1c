\* One task with two cancelling clients and two restarts.
SPECIFICATION FairSpec
CONSTANTS
  Tasks = {t1}
  Clients = {c1, c2}
  NoTask = NoTask
  MaxCrashes = 2
INVARIANTS
  TypeOK
  TokenWhileArmed
  FinalEventIsFinal
  TableFollowsStore
PROPERTIES
  EndedStaysEnded
  StartedTaskEnds
