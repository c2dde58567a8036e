SPECIFICATION Spec
CONSTANTS
  Skew = 1
  SignInLifetime = 1
  SessionIdle = 1
  SessionMax = 2
  OneTimeLifetime = 1
  TouchEvery = 1
  LimitWindow = 2
  LimitPerUser = 1
  LimitPerIP = 2
  MaxTime = 3
  MaxUsers = 2
  MaxSecrets = 2
  MaxTokens = 3
  Browsers = {b1, b2}
  FirstUsers <- MCFirstUsers
  MaxRequests = 4
  MaxCommands = 1
INVARIANTS TypeOK SessionsSound EveryStepTaken CodeUsedOnce FailuresBounded
SYMMETRY MCSymmetry
CHECK_DEADLOCK FALSE
