\* Two sessions, three turns and a restart.  The interface waits for its
\* user, so that the system may stop.
SPECIFICATION Spec
CONSTANTS
  Sessions = {s1, s2}
  Turns = {t1, t2, t3}
  Messages = {m1}
  NoTurn = NoTurn
  MaxRestarts = 1
  MaxEffort = 3
SYMMETRY Symmetry
CHECK_DEADLOCK FALSE
INVARIANTS
  TypeOK
  RowsFollowTurns
  HeldOnce
  TokensAtHome
PROPERTIES
  TakenAtHome
