---------------------------- MODULE RequestData ----------------------------
(***************************************************************************)
(* The values the ANSWR tasksheet handles, and what it means to bring a     *)
(* saved tasksheet up to date with a freshly fetched one.                   *)
(*                                                                          *)
(* A request exists in two forms.  A COPY is what getRequest delivers from  *)
(* Firebase (Request.swift); a ROW is what Core Data keeps (CDRequest with  *)
(* its CDRequestItems).  The fields of a request are grouped by what the    *)
(* code distinguishes:                                                      *)
(*   detail - status, elderlyName and elderlyAddressString, which == reads  *)
(*   extra  - delSlotStart, dateCreated and the quantities of the items,    *)
(*            which == never reads                                          *)
(*   items  - the identifiers of the requested items                        *)
(***************************************************************************)
CONSTANTS
  Zones,      \* identifiers of delivery zones
  Requests,   \* identifiers of requests
  Items,      \* identifiers of catalogue items
  Details,    \* values of the fields == compares
  Extras,     \* values of the fields == ignores
  ZoneOf,     \* the zone under whose node a request is stored on the server
  Copies      \* the versions of requests the server may deliver

Copy == [id : Requests, detail : Details, extra : Extras, items : SUBSET Items]

ASSUME ZoneOfAssumption == ZoneOf \in [Requests -> Zones]
ASSUME CopiesAssumption == Copies \subseteq Copy

(* A saved request: its zone relationship, the check mark of each item and  *)
(* the "new" flag.                                                          *)
Row == [id : Requests, zone : Zones, detail : Details, extra : Extras,
        items : SUBSET Items, checked : SUBSET Items, isNew : BOOLEAN]

(* The saved object graph: the CDZoneRequests objects and their CDRequests. *)
Graph == [zones : SUBSET Zones, rows : SUBSET Row]

EmptyGraph == [zones |-> {}, rows |-> {}]

(* A list of ZoneRequests: the zones fetched and the copies found in them.  *)
(* A zone may be listed with no request: getZoneRequests delivers it when   *)
(* the zone node exists and every getRequest in it answers nil.             *)
ZoneList == [zones : SUBSET Zones, copies : SUBSET Copies]

EmptyList == [zones |-> {}, copies |-> {}]

(* The lists a fetch can deliver: one copy per request, under its own zone. *)
Fetchable ==
  {f \in ZoneList :
     /\ \A c \in f.copies : ZoneOf[c.id] \in f.zones
     /\ \A c, d \in f.copies : c.id = d.id => c = d}

----------------------------------------------------------------------------
(* Request.==, saved row on the left.  Items are compared by identifier and *)
(* only from left to right; delSlotCheck compares the status again.         *)
Matches(row, copy) ==
  /\ row.id = copy.id
  /\ row.detail = copy.detail
  /\ row.items \subseteq copy.items

(* The row addRequestToZoneRequest inserts for a copy.                      *)
NewRow(copy, zone) ==
  [id |-> copy.id, zone |-> zone, detail |-> copy.detail,
   extra |-> copy.extra, items |-> copy.items, checked |-> {}, isNew |-> TRUE]

(* A row after markRequestAsOld.                                            *)
Seen(row) == [row EXCEPT !.isNew = FALSE]

(* A row after one of its items was checked or unchecked.                   *)
Ticked(row, item, checked) ==
  IF item \notin row.items THEN row
  ELSE [row EXCEPT !.checked = IF checked THEN @ \union {item} ELSE @ \ {item}]

Identified(g, id) == {r \in g.rows : r.id = id}

----------------------------------------------------------------------------
(* Reference definition of an update, independent of the loops that compute *)
(* it: of the saved rows those with a match stay, check marks included, and *)
(* stop being new; every fetched copy without a match becomes a new row.    *)
Listed(row, f) == \E c \in f.copies : ZoneOf[c.id] = row.zone /\ Matches(row, c)

Known(copy, g) == \E r \in g.rows : r.zone = ZoneOf[copy.id] /\ Matches(r, copy)

Merge(g, f) ==
  [zones |-> f.zones,
   rows  |-> {Seen(r) : r \in {r \in g.rows : Listed(r, f)}}
               \union {NewRow(c, ZoneOf[c.id]) : c \in {c \in f.copies : ~Known(c, g)}}]

(* Every row belongs to a saved zone and ticks only items of its own, and   *)
(* no request is saved twice.                                               *)
Coherent(g) ==
  /\ \A r \in g.rows : r.zone \in g.zones /\ r.zone = ZoneOf[r.id]
  /\ \A r \in g.rows : r.checked \subseteq r.items
  /\ \A r, s \in g.rows : r.id = s.id => r = s

(* What may be left of an update of g to f that was cut short: a coherent   *)
(* mixture in which every row that f still lists has survived.              *)
CutShort(g, f, h) ==
  /\ h \in Graph
  /\ Coherent(h)
  /\ h.rows \subseteq g.rows \union Merge(g, f).rows
  /\ g.zones \intersect f.zones \subseteq h.zones
  /\ h.zones \subseteq g.zones \union f.zones
  /\ \A r \in g.rows : Listed(r, f) => r \in h.rows \/ Seen(r) \in h.rows
============================================================================
