\* any save may fail, and the process may end anywhere
SPECIFICATION Spec
CONSTANTS
  za = za  zb = zb
  r1 = r1  r2 = r2  r3 = r3
  i1 = i1  i2 = i2
  d1 = d1  d2 = d2
  e1 = e1  e2 = e2
  Zones = {za, zb}
  Requests = {r1, r2}
  Items = {i1}
  Details = {d1, d2}
  Extras = {e1, e2}
  ZoneOf <- MCZoneOfSmall
  Copies <- MCCopiesSmall
  SaveCanFail = TRUE
  ReadCanFail = FALSE
  NoZone = NoZone
INVARIANTS
  SavedCoherent
  UpdateReachesMerge
