SPECIFICATION FairSpec
CONSTANTS
  SegMax = 2
  SeqModulus = 16
  ISS = 14
  SynUnits = 2
  SegUnits = 2
  MaxLen = 3
  MaxSegment = 5
  MaxFaulty = 3
  MaxWire = 2
  Networks = {{}, {"lose", "reorder", "expire"}}
INVARIANTS TypeOK HeldUntilRead AckAcceptable
PROPERTIES InOrder AllRead
