SPECIFICATION Spec
CONSTANTS
  n1 = n1
  n2 = n2
  r1 = r1
  r2 = r2
  k1 = k1
  ip = ip
  None = None
  Nodes = {n1, n2}
  Requests = {r1, r2}
  Keys = {k1}
  Ips = {ip}
  Limit <- LimitDef
  MaxCounters = 0
  MaxStarts = 2
  MaxDay = 2
INVARIANTS
  TypeOK
  QuotaHolds
  RevocationHolds
SYMMETRY Symmetric
CHECK_DEADLOCK FALSE
