SPECIFICATION Spec
CONSTANTS
  c1 = c1
  c2 = c2
  s1 = s1
  t1 = t1
  t2 = t2
  t3 = t3
  bad = bad
  Undefined = Undefined
  Callers <- MCCallers
  Sessions <- MCSessions
  Tpms <- MCTpms
  PhiOf <- MCPhiOf
  Cfg <- MCCfg
  NonIitCfg <- MCNonIitCfg
  Scores <- MCScores
  Events <- MCEvents
  Deployments <- MCDeployments
  CacheMax = 2
  MaxCalls = 3
SYMMETRY MCSymmetry
INVARIANT EmergenceBlocks
CHECK_DEADLOCK FALSE
