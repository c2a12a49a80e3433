CONSTANTS
  w1 = w1
  w2 = w2
  Workers = {w1, w2}
  MaxEpoch = 2
  MaxConn = 2
  MaxTotal = 2
  MaxSeq = 3
  MaxUp = 2
  MaxDown = 1
  ByteBits = 2
  Bytes = 2
  None = None

SPECIFICATION Spec

SYMMETRY Symmetry

INVARIANTS
  TypeOK
  RecentKnown
  OneWorker
  RegisteredAlive
  StreamsApart
