SPECIFICATION FairSpec
CONSTANTS
  c1 = c1
  c2 = c2
  c3 = c3
  c4 = c4
  c5 = c5
  l1 = l1
  l2 = l2
  l3 = l3
  Blank = Blank
  None = None
  Books <- MCBooks
  ValidGolonganDebitur = {"2090"}
  Parts = 2
  PoolSize = 2
CHECK_DEADLOCK FALSE
INVARIANTS
  HoldersReportedOnce
  ArrearsReported
PROPERTIES
  EveryGenerationEnds
