\* reads answered in any order or refused, the server changing meanwhile
SPECIFICATION FairSpec
CONSTANTS
  za = za  zb = zb
  r1 = r1  r2 = r2  r3 = r3
  i1 = i1  i2 = i2
  d1 = d1  e1 = e1
  Zones = {za, zb}
  Requests = {r1, r2, r3}
  Items = {i1, i2}
  Details = {d1}
  Extras = {e1}
  ZoneOf <- MCZoneOf
  Nodes <- MCNodes
  Copies <- MCCopies
  Catalogue = {i1}
  Assignments <- MCAssignments
  Nothing = Nothing
  ReadsCanBeDenied = TRUE
  MaxChanges = 1
INVARIANTS
  TypeOK
  DeliveredFetchable
  DeliveredWasThere
  ThereIsDelivered
  NothingComesLate
  NoAnswerNoList
PROPERTIES
  ImplementsFetchPromise
  FetchEnds
CHECK_DEADLOCK FALSE
