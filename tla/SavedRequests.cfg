\* updateSavedRequests in every order, killed anywhere, all saves succeeding
SPECIFICATION FairSpec
CONSTANTS
  za = za  zb = zb
  r1 = r1  r2 = r2  r3 = r3
  i1 = i1  i2 = i2
  d1 = d1  d2 = d2
  e1 = e1  e2 = e2
  Zones = {za, zb}
  Requests = {r1, r2, r3}
  Items = {i1, i2}
  Details = {d1, d2}
  Extras = {e1}
  ZoneOf <- MCZoneOf
  Copies <- MCCopies
  SaveCanFail = FALSE
  ReadCanFail = FALSE
  NoZone = NoZone
INVARIANTS
  TypeOK
  SavedCoherent
  KilledUpdateKeepsTicks
PROPERTIES
  UpdateTerminates
  ImplementsPromise
