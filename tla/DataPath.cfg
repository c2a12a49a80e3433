CONSTANTS
  w1 = w1
  w2 = w2
  Workers <- MCOneWorker
  MaxSeq = 3
  MaxKeys = 2
  Window = 2
SPECIFICATION Spec
INVARIANTS TypeOK AtMostOnce PeerOfKey SealedOnce
