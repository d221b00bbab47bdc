SPECIFICATION Spec
CONSTANTS
  default = default
  s1 = s1
  c1 = c1
  c2 = c2
  stored = stored
  Sessions <- MCSessions
  Callers <- MCCallers
  Events <- MCEvents
  Overrides <- MCOverrides
  StoredByOthers <- MCStoredByOthers
  MaxStates <- MCMaxStates
  MaxReceipts <- MCMaxReceipts
  MaxNow <- MCMaxNow
SYMMETRY MCSymmetry
INVARIANTS
  TypeOK
  SequentialSessionsChain
  PrevHashIsMintedBefore
  SealedReceiptsIntact
  EveryDecisionAttestedOnce
  AwaitedTipIsStored
CHECK_DEADLOCK FALSE
