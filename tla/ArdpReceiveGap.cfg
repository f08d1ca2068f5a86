SPECIFICATION Spec
CONSTANTS
  SegMax = 3
  SeqModulus = 32
  ISS = 0
  SynUnits = 1
  SegUnits = 1
  MaxLen = 1
  MaxSegment = 5
  MaxFaulty = 5
  MaxWire = 2
  Networks = {{"lose"}}
INVARIANT AckedInSequence
