\* Two turns, one after the other or overlapping, on a chain of four providers.
SPECIFICATION MCSpec
CONSTANTS
  Turns = {t1, t2}
  Fallbacks = 3
  MaxRetries = 1
  MaxDrops = 1
INVARIANTS
  TypeOK
  ErrorMeansExhausted
  LastWordNamesActive
PROPERTIES
  LeftBehindForEver
  PrimaryNeverReturns
  TurnsEnd
