\* A turn with up to two calls a response and one follow-up.
SPECIFICATION FairSpec
CONSTANTS
  MaxCalls = 2
  FollowUps = {m1}
  Fallbacks = 2
  MaxStreamRetries = 1
  MaxPhantomRetries = 1
  MaxEmptyNudges = 1
  OneShots = {"truncation", "screenshot"}
  LoopThreshold = 2
INVARIANTS
  TypeOK
  RequestsAreComplete
  OutputsMatchCalls
  AnswerCoversFollowUps
  AnswerBelowQuestion
PROPERTIES
  NothingRunsUnasked
  CancelEndsTurn
  OnlyCallsNarrationAndRescues
  TurnSpec
