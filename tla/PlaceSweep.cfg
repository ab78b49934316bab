SPECIFICATION SweepSpec
CONSTANTS
  p1 = p1
  p2 = p2
  p3 = p3
  Nil = Nil
  Places <- ThreePlaces
  Spots = {1, 2, 3, 4}
  Lines = {"l1"}
  Areas <- TwoAreas
  Region <- Circles
  Grid <- Cells
  IncludedTypes <- Doctor
  Queries <- OneQuery
  Worlds <- Towns
  Configs <- FlagSets
  Omissions <- Gaps
  PageCap = 1
  MaxPages = 2
  MaxDepth = 1
INVARIANTS
  NoSilentMiss
  ContactKept
  EveryLineCalledOnce
CHECK_DEADLOCK FALSE
