\* The claim does not hold of the code.
SPECIFICATION Spec
CONSTANTS
  MaxCalls = 1
  FollowUps = {m1}
  Fallbacks = 1
  MaxStreamRetries = 1
  MaxPhantomRetries = 1
  MaxEmptyNudges = 1
  OneShots = {"truncation", "screenshot"}
  LoopThreshold = 2
INVARIANTS
  AnswerBehindMarker
