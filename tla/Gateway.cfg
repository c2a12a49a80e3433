SPECIFICATION Spec
CONSTANTS
  Workers = {w1, w2}
  None = None
  MaxRuns = 2
  MaxServer = 2
  MaxSid = 2
  MaxSeq = 2
  MaxUp = 3
  MaxDown = 1
SYMMETRY Threads
INVARIANTS
  TypeOK
  HandledOnce
  RegisteredOpen
