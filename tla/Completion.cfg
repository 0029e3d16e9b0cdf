\* two volunteers who share a zone; everything is carried out; one item may be missing
SPECIFICATION Spec
CONSTANTS
  v1 = v1  v2 = v2
  za = za  zb = zb  zc = zc
  r1 = r1  r2 = r2  r3 = r3
  i1 = i1  i2 = i2
  Volunteers = {v1, v2}
  Zones = {za, zb, zc}
  Requests = {r1, r2, r3}
  Items = {i1, i2}
  Catalogue = {i1}
  ZoneOf <- MCZoneOf
  Qty <- MCQty
  Assigned <- MCAssigned
  WritesCanFail = FALSE
  CanBeKilled = FALSE
  MaxConfirms = 2
  MaxRefreshes = 0
INVARIANTS
  TypeOK
  SettledAfterOne
  NeverOverstated
  SuccessIsTrue
CHECK_DEADLOCK FALSE
