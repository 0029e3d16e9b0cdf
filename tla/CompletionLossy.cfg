\* one volunteer; calls refused, or lost with the process; any item may be missing
SPECIFICATION FairSpec
CONSTANTS
  v1 = v1  v2 = v2
  za = za  zb = zb  zc = zc
  r1 = r1  r2 = r2  r3 = r3
  i1 = i1  i2 = i2
  Volunteers = {v1}
  Zones = {za, zb}
  Requests = {r1, r2}
  Items = {i1}
  Catalogue = {}
  ZoneOf <- MCZoneOfLossy
  Qty <- MCQtyLossy
  Assigned <- MCAssignedLossy
  WritesCanFail = TRUE
  CanBeKilled = TRUE
  MaxConfirms = 2
  MaxRefreshes = 1
INVARIANTS
  DebitedAtMostOnce
PROPERTY CompletionEnds
CHECK_DEADLOCK FALSE
