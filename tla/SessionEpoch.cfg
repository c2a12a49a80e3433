CONSTANTS
  h1 = h1
  h2 = h2
  s1 = s1
  s2 = s2
  k1 = k1
  e1 = e1
  i1 = i1
  Handles <- MCHandles
  Sessions <- MCSessions
  Keys <- MCKeys
  Endpoints <- MCEndpoints
  IPs <- MCIPs
  None = None
  MaxGen = 2
SPECIFICATION Spec
INVARIANTS TypeOK QuiescedClear KeyHandleSafe ReadersExact
