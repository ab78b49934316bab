SPECIFICATION CutoverSpec
CONSTANTS
  o1 = o1
  o2 = o2
  o3 = o3
  r1 = r1
  l1 = l1
  d1 = d1
  u1 = u1
  u2 = u2
  None = None
  Order <- OrderDef
  Ident <- IdentDef
  Defects <- DefectsDef
  Unhashed = {o3}
  Domains = {d1}
  Values <- ValuesDef
  Sources <- SourcesDef
  Requests <- RequestsDef
  BatchSize = 2
  MaxRuns = 2
  MaxFaults = 1
  MaxWrites = 1
  Ids = {1, 2}
  MaxClock = 1
  MaxLimit = 2
INVARIANTS
  CutoverTypeOK
  NoRowTwice
  NothingLeftBehind
  ReportIsTrue
  PagesAreExact
CHECK_DEADLOCK FALSE
