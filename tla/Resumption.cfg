CONSTANTS
  w1 = w1
  w2 = w2
  t1 = t1
  t2 = t2
  Calls <- MCCalls
  Tokens <- MCTokens
  NoToken = NoToken
  TTL = 2
  PruneEvery = 2
  PruneSize = 2
  ClockMod = 16
  MaxTime = 7
  MaxBoot = 1
SPECIFICATION ResumeSpec
SYMMETRY MCSymmetry
INVARIANTS TokensOK RememberedUntilExpiry OnceWhileValid
