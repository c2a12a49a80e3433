SPECIFICATION LiveSpec
CONSTANTS
  Servers = {s1, s2}
  Window = 2
  MaxRuns = 2
  MaxKeys = 1
  MaxSeq = 3
  MaxTx = 1
INVARIANTS
  TypeOK
  BlockedMeansDied
  DeliveredOnce
PROPERTIES
  HandshakeEnds
