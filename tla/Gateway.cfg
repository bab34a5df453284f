SPECIFICATION Spec
CONSTANTS
  k = k
  unknown = unknown
  r1 = r1
  r2 = r2
  t1 = t1
  Kids = {k}
  Requests = {r1, r2}
  Tokens <- MCTokens
  Tenants = {t1}
  DemoTenants = {t1}
  Standard = 2
  Demo = 1
  Refresh = 1
  CacheTicks = 3
  Latency = 1
  Hour = 3
  Second = 2
 
PROPERTIES
  WithdrawnKeysExpire
  RotationIsPickedUp
  RefusalsOutlastWindow
