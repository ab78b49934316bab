SPECIFICATION ProviderSpec
CONSTANTS
  a = a
  b = b
  d = d
  l = l
  n = n
  c1 = c1
  c2 = c2
  g1 = g1
  g2 = g2
  Missing = Missing
  Processes = {a, b, d, l, n}
  Calls = {c1, c2}
  Pages = {g1, g2}
  Sample <- SampleDef
  Asked <- AskedDef
  Settings <- SettingsDef
  breaker_threshold = 1
  max_retries = 2
  max_concurrency = 1
  result_cache_maxsize = 1
INVARIANTS
  ProviderTypeOK
  OverlayIsOfItsPage
SYMMETRY Symmetric
CONSTRAINT FewFail
CHECK_DEADLOCK FALSE
