------------------------- MODULE RequestData_proofs -------------------------
(***************************************************************************)
(* Facts about rows, copies and the reference update, for every set of      *)
(* zones, requests, items and versions.                                     *)
(***************************************************************************)
EXTENDS RequestData, TLAPS

(* The row inserted for a copy is a row of that copy's request.             *)
LEMMA NewRowType ==
  ASSUME NEW c \in Copies, NEW z \in Zones
  PROVE  /\ NewRow(c, z) \in Row
         /\ NewRow(c, z).id = c.id
         /\ NewRow(c, z).zone = z
         /\ NewRow(c, z).items = c.items
         /\ NewRow(c, z).checked = {}
  BY CopiesAssumption DEF NewRow, Row, Copy

(* Marking a row as seen changes nothing but the flag.                      *)
LEMMA SeenType ==
  ASSUME NEW r \in Row
  PROVE  /\ Seen(r) \in Row
         /\ Seen(r).id = r.id
         /\ Seen(r).zone = r.zone
         /\ Seen(r).items = r.items
         /\ Seen(r).checked = r.checked
         /\ ~r.isNew => Seen(r) = r
  BY DEF Seen, Row

(* Ticking an item changes nothing but the check marks of the row.          *)
LEMMA TickedType ==
  ASSUME NEW r \in Row, NEW i \in Items, NEW b \in BOOLEAN
  PROVE  /\ Ticked(r, i, b) \in Row
         /\ Ticked(r, i, b).id = r.id
         /\ Ticked(r, i, b).zone = r.zone
         /\ Ticked(r, i, b).items = r.items
         /\ r.checked \subseteq r.items => Ticked(r, i, b).checked \subseteq r.items
  BY DEF Ticked, Row

(* The empty list is a fetch result.                                        *)
LEMMA EmptyFetchable == EmptyList \in Fetchable /\ EmptyList \in ZoneList
  BY DEF EmptyList, Fetchable, ZoneList

(* Every copy names a request, and lies under a zone.                       *)
LEMMA CopyZone ==
  ASSUME NEW c \in Copies
  PROVE  c.id \in Requests /\ ZoneOf[c.id] \in Zones
  BY CopiesAssumption, ZoneOfAssumption DEF Copy

(* What a row kept by an update is.                                         *)
LEMMA KeptByMerge ==
  ASSUME NEW g \in Graph, NEW f, NEW r \in g.rows, Listed(r, f)
  PROVE  Seen(r) \in Merge(g, f).rows
  BY DEF Merge

(* An update leaves rows it kept and rows it added.                         *)
LEMMA MergedRow ==
  ASSUME NEW g, NEW f, NEW r \in Merge(g, f).rows
  PROVE  \/ \E s \in g.rows : Listed(s, f) /\ r = Seen(s)
         \/ \E c \in f.copies : ~Known(c, g) /\ r = NewRow(c, ZoneOf[c.id])
  BY DEF Merge

(* An update of a coherent graph with a list a fetch can deliver ends in a  *)
(* coherent graph.                                                          *)
LEMMA MergeCoherent ==
  ASSUME NEW g \in Graph, Coherent(g), NEW f \in Fetchable
  PROVE  Merge(g, f) \in Graph /\ Coherent(Merge(g, f))
<1> DEFINE m == Merge(g, f)
<1>0. /\ f.zones \subseteq Zones /\ f.copies \subseteq Copies /\ g.rows \subseteq Row
      /\ \A c \in f.copies : ZoneOf[c.id] \in f.zones
      /\ \A c, d \in f.copies : c.id = d.id => c = d
  BY DEF Fetchable, ZoneList, Graph
<1>1. m.zones = f.zones
  BY DEF Merge
<1>2. ASSUME NEW s \in g.rows, Listed(s, f)
      PROVE  /\ Seen(s) \in Row /\ Seen(s).zone \in f.zones
             /\ Seen(s).zone = ZoneOf[Seen(s).id]
             /\ Seen(s).checked \subseteq Seen(s).items
  BY <1>0, <1>2, SeenType DEF Listed, Coherent
<1>3. ASSUME NEW c \in f.copies
      PROVE  LET n == NewRow(c, ZoneOf[c.id]) IN
             /\ n \in Row /\ n.zone \in f.zones /\ n.zone = ZoneOf[n.id]
             /\ n.checked \subseteq n.items
  BY <1>0, CopyZone, NewRowType
<1>4. ASSUME NEW r \in m.rows
      PROVE  /\ r \in Row /\ r.zone \in f.zones /\ r.zone = ZoneOf[r.id]
             /\ r.checked \subseteq r.items
  BY <1>2, <1>3, MergedRow
<1>5. ASSUME NEW s \in g.rows, Listed(s, f), NEW c \in f.copies, ~Known(c, g)
      PROVE  s.id # c.id
  BY <1>0, <1>5 DEF Listed, Known, Matches
<1>6. ASSUME NEW r \in m.rows, NEW s \in m.rows, r.id = s.id PROVE r = s
  <2>1. CASE /\ \E p \in g.rows : Listed(p, f) /\ r = Seen(p)
             /\ \E q \in g.rows : Listed(q, f) /\ s = Seen(q)
    BY <1>0, <1>6, <2>1, SeenType DEF Coherent
  <2>2. CASE /\ \E c \in f.copies : ~Known(c, g) /\ r = NewRow(c, ZoneOf[c.id])
             /\ \E d \in f.copies : ~Known(d, g) /\ s = NewRow(d, ZoneOf[d.id])
    BY <1>0, <1>6, <2>2, NewRowType, CopyZone
  <2>3. CASE /\ \E p \in g.rows : Listed(p, f) /\ r = Seen(p)
             /\ \E d \in f.copies : ~Known(d, g) /\ s = NewRow(d, ZoneOf[d.id])
    BY <1>0, <1>5, <1>6, <2>3, SeenType, NewRowType, CopyZone
  <2>4. CASE /\ \E c \in f.copies : ~Known(c, g) /\ r = NewRow(c, ZoneOf[c.id])
             /\ \E q \in g.rows : Listed(q, f) /\ s = Seen(q)
    BY <1>0, <1>5, <1>6, <2>4, SeenType, NewRowType, CopyZone
  <2>5. QED
    BY <2>1, <2>2, <2>3, <2>4, MergedRow
<1>7. m \in Graph
  BY <1>0, <1>1, <1>4 DEF Merge, Graph
<1>8. QED
  BY <1>1, <1>4, <1>6, <1>7 DEF Coherent

(* After an update every copy of the list has a row.                        *)
LEMMA CopySaved ==
  ASSUME NEW g \in Graph, NEW f \in Fetchable, NEW c \in f.copies
  PROVE  \E r \in Merge(g, f).rows : r.id = c.id
<1>0. c \in Copies /\ g.rows \subseteq Row /\ \A d \in f.copies : c.id = d.id => c = d
  BY DEF Fetchable, ZoneList, Graph
<1>1. CASE Known(c, g)
  <2>1. PICK r \in g.rows : r.zone = ZoneOf[c.id] /\ Matches(r, c)
    BY <1>1 DEF Known
  <2>2. Listed(r, f) /\ r.id = c.id
    BY <2>1 DEF Listed, Matches
  <2>3. QED  BY <1>0, <2>2, KeptByMerge, SeenType
<1>2. CASE ~Known(c, g)
  BY <1>0, <1>2, CopyZone, NewRowType DEF Merge
<1>3. QED  BY <1>1, <1>2
============================================================================
