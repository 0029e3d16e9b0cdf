\* one request whose status changes on the server; every fetch is answered
SPECIFICATION FairSpec
CONSTANTS
  za = za  zb = zb
  r1 = r1  r2 = r2
  i1 = i1  i2 = i2
  d1 = d1  d2 = d2  nameless = nameless
  e1 = e1
  k1 = k1  k2 = k2
  Zones = {za, zb}
  Requests = {r1}
  Items = {i1}
  Details = {d1, d2, nameless}
  Extras = {e1}
  ZoneOf <- MCZoneOfOne
  Nodes <- MCNodes
  Copies <- MCCopies
  Catalogue = {i1}
  Nothing = Nothing
  NoRequest = NoRequest
  Assigned = {za, zb}
  Undisplayable = {nameless}
  Refreshes = {k1, k2}
  FetchesCanBeLost = FALSE
  CanBeKilled = TRUE
  MaxChanges = 1
INVARIANT SavedWasThere
PROPERTIES
  TicksOfUnchangedStay
  RefreshControlStops
