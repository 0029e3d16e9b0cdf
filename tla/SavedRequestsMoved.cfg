\* the delivery slot of a saved request changes on the server
SPECIFICATION Spec
CONSTANTS
  za = za  zb = zb
  r1 = r1  r2 = r2  r3 = r3
  i1 = i1  i2 = i2
  d1 = d1  d2 = d2
  e1 = e1  e2 = e2
  Zones = {za, zb}
  Requests = {r1, r2}
  Items = {i1}
  Details = {d1, d2}
  Extras = {e1, e2}
  ZoneOf <- MCZoneOfSmall
  Copies <- MCCopiesMoved
  SaveCanFail = FALSE
  ReadCanFail = FALSE
  NoZone = NoZone
INVARIANT UpdatedToServer
