CONSTANTS
  WordBits = 2
  Words = 4
  MaxSeq = 13
SPECIFICATION Spec
CONSTRAINT OneInFlight
INVARIANTS TypeOK BitmapExact
PROPERTY Implements
