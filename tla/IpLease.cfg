CONSTANTS
  w1 = w1
  s1 = s1
  s2 = s2
  i1 = i1
  i2 = i2
  Workers <- MCWorkers
  Sessions <- MCSessions
  IPs <- MCIPs
  None = None
  TTL = 1
  Idle = 1
  MaxTime = 2
  MaxLife = 2
SPECIFICATION Spec
SYMMETRY MCSymmetry
INVARIANTS TypeOK PoolPartition OneHolder TokenOutlived 
CONSTRAINT OneReturns
