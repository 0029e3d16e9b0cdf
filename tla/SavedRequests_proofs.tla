----------------------- MODULE SavedRequests_proofs -----------------------
(***************************************************************************)
(* Proofs about SavedRequests, for every set of zones, requests, items and  *)
(* versions, and for every pattern of failing saves.                        *)
(***************************************************************************)
EXTENDS SavedRequests, RequestData_proofs

USE DEF Save, ReadFails

----------------------------------------------------------------------------
----------------------------------------------------------------------------
(* Every call and every pass of the loops of CDHandler preserves what the   *)
(* variables range over.                                                    *)
LEMMA TypeStep == TypeOK /\ [Next]_vars => TypeOK'
<1> SUFFICES ASSUME TypeOK, [Next]_vars PROVE TypeOK'
  OBVIOUS
<1> USE DEF TypeOK
<1>0. /\ \A g \in Graph : g.zones \in SUBSET Zones /\ g.rows \in SUBSET Row
      /\ \A Z \in SUBSET Zones, R \in SUBSET Row : [zones |-> Z, rows |-> R] \in Graph
  BY DEF Graph
<1>1. ASSUME NEW f \in Fetchable, BeginUpdate(f) PROVE TypeOK'
  BY <1>1, <1>0 DEF BeginUpdate, loadAllZoneRequests, Fetchable, EmptyGraph
<1>2. ASSUME NEW z \in Zones, EnterZone(z) PROVE TypeOK'
  BY <1>2 DEF EnterZone
<1>3. ASSUME NEW z \in Zones, DropZone(z) PROVE TypeOK'
  BY <1>3, <1>0 DEF DropZone, deleteZoneRequest, RowsOf
<1>4. ASSUME NEW z \in Zones, InsertZone(z) PROVE TypeOK'
  BY <1>4 DEF InsertZone, Graph
<1>5. ASSUME NEW r \in old.rows, NEW c \in new.copies, MatchRequest(r, c)
      PROVE  TypeOK'
  <2>1. old' \in Graph /\ new' \in ZoneList
    BY <1>5 DEF MatchRequest, Graph, ZoneList
  <2>2. ctx' \in Graph /\ store' \in Graph
    BY <1>5, SeenType DEF MatchRequest, markRequestAsOld, Identified, Graph
  <2>3. QED  BY <1>5, <2>1, <2>2 DEF MatchRequest
<1>6. ASSUME NEW r \in old.rows, DropRequest(r) PROVE TypeOK'
  BY <1>6 DEF DropRequest, deleteRequest, Identified, Graph
<1>7. ASSUME NEW c \in new.copies, AddRequest(c) PROVE TypeOK'
  <2>1. new' \in ZoneList
    BY <1>7 DEF AddRequest, ZoneList
  <2>2. c \in Copies
    BY DEF ZoneList
  <2>3. cur \in Zones
    BY <1>7, <2>2, CopyZone DEF AddRequest, CopiesOf
  <2>4. NewRow(c, cur) \in Row
    BY <2>2, <2>3, NewRowType
  <2>5. ctx' \in Graph /\ store' \in Graph
    BY <1>7, <2>4 DEF AddRequest, addRequestToZoneUsingID, addRequestToZoneRequest, Graph
  <2>6. QED  BY <1>7, <2>1, <2>5 DEF AddRequest
<1>8. ASSUME NEW c \in new.copies, FillZone(c) PROVE TypeOK'
  <2>1. new' \in ZoneList
    BY <1>8 DEF FillZone, ZoneList
  <2>2. c \in Copies
    BY DEF ZoneList
  <2>3. cur \in Zones
    BY <1>8, <2>2, CopyZone DEF FillZone, CopiesOf
  <2>4. NewRow(c, cur) \in Row
    BY <2>2, <2>3, NewRowType
  <2>5. ctx' \in Graph /\ store' \in Graph
    BY <1>8, <2>4 DEF FillZone, addRequestToZoneRequest, Graph
  <2>6. QED  BY <1>8, <2>1, <2>5 DEF FillZone
<1>9. CASE LeaveZone
  BY <1>9 DEF LeaveZone, Graph, ZoneList
<1>10. CASE SaveZone
  BY <1>10 DEF SaveZone, ZoneList
<1>11. ASSUME ResetJob, ctx' \in Graph, store' \in Graph PROVE TypeOK'
  BY <1>11, <1>0, EmptyFetchable DEF ResetJob, EmptyGraph
<1>12. CASE EndUpdate
  BY <1>12, <1>11 DEF EndUpdate
<1>13. CASE Kill
  BY <1>13, <1>11 DEF Kill
<1>14. ASSUME NEW id \in Requests, NEW i \in Items, NEW b \in BOOLEAN,
              markChecked(id, i, b)
       PROVE  TypeOK'
  <2>1. ctx' \in Graph /\ store' \in Graph
    BY <1>14, TickedType DEF markChecked, Identified, Graph
  <2>2. QED  BY <1>14, <2>1 DEF markChecked, job
<1>15. CASE clearAllZoneRequests
  BY <1>15, <1>0 DEF clearAllZoneRequests, EmptyGraph, job
<1>16. CASE EnterBackground
  BY <1>16, <1>13 DEF EnterBackground, job
<1>17. CASE UNCHANGED vars
  BY <1>17 DEF vars
<1>18. QED
  BY <1>1, <1>2, <1>3, <1>4, <1>5, <1>6, <1>7, <1>8, <1>9, <1>10, <1>12, <1>13,
     <1>14, <1>15, <1>16, <1>17 DEF Next, UpdateStep

(* The tasksheet in memory and on disk, and the arrays of an update, hold   *)
(* values of their types at all times.                                      *)
THEOREM TypeCorrect == Spec => []TypeOK
<1>1. Init => TypeOK
  BY EmptyFetchable DEF Init, TypeOK, Graph, EmptyGraph
<1>2. QED
  BY <1>1, TypeStep, PTL DEF Spec

----------------------------------------------------------------------------
(* The inductive invariant of updateSavedRequests: how far the loops have   *)
(* come, in terms of the graph the update began with and of the list it was *)
(* given.                                                                   *)

(* Rows compared and kept, and rows inserted, so far.                       *)
Kept == {Seen(r) : r \in {r \in before.rows \ old.rows : Listed(r, fetched)}}

Added == {NewRow(c, ZoneOf[c.id]) :
            c \in {c \in fetched.copies \ new.copies : ~Known(c, before)}}

(* What is left of the two arrays.                                          *)
Remaining ==
  /\ old.rows \subseteq before.rows
  /\ old.zones \subseteq before.zones
  /\ new.copies \subseteq fetched.copies
  /\ new.zones \subseteq fetched.zones
  /\ \A r \in old.rows : r.zone \in old.zones
  /\ \A c \in new.copies : ZoneOf[c.id] \in new.zones
  /\ old.zones \intersect fetched.zones \subseteq new.zones
  /\ before.zones \intersect new.zones \subseteq old.zones

(* A request and its equal copy are taken from the arrays together, and a   *)
(* copy is added only when no saved request of its name is left.            *)
Paired ==
  /\ \A c \in new.copies, r \in before.rows :
       r.zone = ZoneOf[c.id] /\ Matches(r, c) => r \in old.rows
  /\ \A c \in fetched.copies \ new.copies, r \in old.rows : c.id # r.id

(* Copies are taken only from the zone being processed.                     *)
ZoneByZone ==
  /\ pc \in {"zones", "idle"} => cur = NoZone
  /\ pc = "requests" => cur \in old.zones \intersect new.zones
  /\ pc = "saveZone" => old.zones = {} /\ cur \in new.zones
  /\ \A c \in fetched.copies \ new.copies :
       ZoneOf[c.id] \in new.zones => ZoneOf[c.id] = cur

Computed ==
  /\ ctx.rows = old.rows \union Kept \union Added
  /\ ctx.zones = old.zones \union (fetched.zones \ new.zones)
                   \union (IF pc = "saveZone" THEN {cur} ELSE {})

Progress == Remaining /\ Paired /\ Computed

IInv ==
  /\ TypeOK
  /\ Coherent(store)
  /\ Coherent(before)
  /\ ZoneByZone
  /\ pc = "idle" => Coherent(ctx)
  /\ pc # "idle" => Progress

----------------------------------------------------------------------------
(* What the sets of the invariant contain.                                  *)

(* A row that was kept stems from a saved row and has a copy of its name.   *)
LEMMA KeptRow ==
  ASSUME TypeOK, NEW r \in Kept
  PROVE  \E s \in before.rows \ old.rows, c \in fetched.copies :
           /\ r = Seen(s)
           /\ ZoneOf[c.id] = s.zone /\ Matches(s, c)
           /\ r.id = s.id /\ r.zone = s.zone /\ c.id = s.id
           /\ r.items = s.items /\ r.checked = s.checked
<1>1. PICK s \in before.rows \ old.rows : Listed(s, fetched) /\ r = Seen(s)
  BY DEF Kept
<1>2. PICK c \in fetched.copies : ZoneOf[c.id] = s.zone /\ Matches(s, c)
  BY <1>1 DEF Listed
<1>3. s \in Row
  BY DEF TypeOK, Graph
<1>4. r.id = s.id /\ r.zone = s.zone /\ r.items = s.items /\ r.checked = s.checked
  BY <1>1, <1>3, SeenType
<1>5. QED  BY <1>1, <1>2, <1>4 DEF Matches

(* A row that was inserted stems from a copy that no saved row matched.     *)
LEMMA AddedRow ==
  ASSUME TypeOK, NEW r \in Added
  PROVE  \E c \in fetched.copies \ new.copies :
           /\ r = NewRow(c, ZoneOf[c.id])
           /\ ~Known(c, before)
           /\ r.id = c.id /\ r.zone = ZoneOf[c.id] /\ r.checked = {}
<1>1. PICK c \in fetched.copies \ new.copies :
             ~Known(c, before) /\ r = NewRow(c, ZoneOf[c.id])
  BY DEF Added
<1>2. c \in Copies /\ ZoneOf[c.id] \in Zones
  BY CopyZone DEF TypeOK, Fetchable, ZoneList
<1>3. r.id = c.id /\ r.zone = ZoneOf[c.id] /\ r.checked = {}
  BY <1>1, <1>2, NewRowType
<1>4. QED  BY <1>1, <1>3

(* A request is fetched at most once, and under its own zone.               *)
LEMMA FetchedOnce ==
  ASSUME TypeOK
  PROVE  /\ \A c \in fetched.copies : ZoneOf[c.id] \in fetched.zones
         /\ \A c, d \in fetched.copies : c.id = d.id => c = d
         /\ fetched.copies \subseteq Copies
  BY DEF TypeOK, Fetchable, ZoneList

(* A request still to be compared is neither kept nor added yet.            *)
LEMMA OldApart ==
  ASSUME TypeOK, Coherent(before), Remaining, Paired, NEW r \in old.rows
  PROVE  /\ \A s \in Kept : r.id # s.id
         /\ \A s \in Added : r.id # s.id
<1>1. ASSUME NEW s \in Kept PROVE r.id # s.id
  BY KeptRow DEF Coherent, Remaining
<1>2. ASSUME NEW s \in Added PROVE r.id # s.id
  BY AddedRow DEF Paired
<1>3. QED  BY <1>1, <1>2

(* In the middle of an update the context is coherent.                      *)
LEMMA MidCoherent ==
  TypeOK /\ Coherent(before) /\ ZoneByZone /\ Progress => Coherent(ctx)
<1> SUFFICES ASSUME TypeOK, Coherent(before), ZoneByZone, Progress
             PROVE  Coherent(ctx)
  OBVIOUS
<1> USE DEF Progress
<1>0. /\ pc \in {"idle", "zones"} => cur \notin Zones
      /\ fetched.copies \subseteq Copies
  BY NoZoneAssumption, FetchedOnce DEF ZoneByZone
<1>1. ASSUME NEW r \in old.rows
      PROVE  /\ r \in before.rows
             /\ r.zone \in ctx.zones /\ r.zone = ZoneOf[r.id] /\ r.checked \subseteq r.items
  BY DEF Remaining, Coherent, Computed
<1>2. ASSUME NEW r \in Kept
      PROVE  r.zone \in ctx.zones /\ r.zone = ZoneOf[r.id] /\ r.checked \subseteq r.items
  <2>1. PICK s \in before.rows \ old.rows, c \in fetched.copies :
               /\ ZoneOf[c.id] = s.zone
               /\ r.id = s.id /\ r.zone = s.zone
               /\ r.items = s.items /\ r.checked = s.checked
    BY KeptRow
  <2>2. s.zone \in before.zones /\ s.zone \in fetched.zones
    BY <2>1, FetchedOnce DEF Coherent
  <2>3. s.zone \in ctx.zones
    BY <2>2 DEF Remaining, Computed
  <2>4. QED  BY <2>1, <2>3 DEF Coherent
<1>3. ASSUME NEW r \in Added
      PROVE  r.zone \in ctx.zones /\ r.zone = ZoneOf[r.id] /\ r.checked \subseteq r.items
  <2>1. PICK c \in fetched.copies \ new.copies :
               r.id = c.id /\ r.zone = ZoneOf[c.id] /\ r.checked = {}
    BY AddedRow
  <2>2. ZoneOf[c.id] \in Zones
    BY <1>0, CopyZone
  <2>3. CASE ZoneOf[c.id] \in new.zones
    <3>1. cur = ZoneOf[c.id] /\ pc \in {"requests", "saveZone"}
      BY <1>0, <2>2, <2>3 DEF ZoneByZone, TypeOK
    <3>2. QED  BY <2>1, <3>1 DEF ZoneByZone, Computed
  <2>4. CASE ZoneOf[c.id] \notin new.zones
    BY <2>1, <2>4, FetchedOnce DEF Computed
  <2>5. QED  BY <2>3, <2>4
<1>4. ASSUME NEW r \in old.rows, NEW s \in Kept PROVE r.id # s.id
  BY OldApart
<1>5. ASSUME NEW r \in old.rows, NEW s \in Added PROVE r.id # s.id
  BY OldApart
<1>6. ASSUME NEW r \in Kept, NEW s \in Kept, r.id = s.id PROVE r = s
  BY KeptRow, <1>6 DEF Coherent
<1>7. ASSUME NEW r \in Added, NEW s \in Added, r.id = s.id PROVE r = s
  BY AddedRow, FetchedOnce, <1>7
<1>8. ASSUME NEW r \in Kept, NEW s \in Added PROVE r.id # s.id
  <2> SUFFICES ASSUME r.id = s.id PROVE FALSE
    OBVIOUS
  <2>1. PICK q \in before.rows \ old.rows, c \in fetched.copies :
               ZoneOf[c.id] = q.zone /\ Matches(q, c) /\ r.id = q.id /\ c.id = q.id
    BY KeptRow
  <2>2. PICK d \in fetched.copies \ new.copies : ~Known(d, before) /\ s.id = d.id
    BY AddedRow
  <2>3. c = d
    BY <2>1, <2>2, FetchedOnce
  <2>4. QED  BY <2>1, <2>2, <2>3 DEF Known
<1>9. ctx.rows = old.rows \union Kept \union Added
  BY DEF Computed
<1>10. \A r, s \in ctx.rows : r.id = s.id => r = s
  BY <1>1, <1>4, <1>5, <1>6, <1>7, <1>8, <1>9 DEF Coherent
<1>11. QED
  BY <1>1, <1>2, <1>3, <1>9, <1>10 DEF Coherent

(* When nothing is left, what was computed is the reference update.         *)
LEMMA DoneIsMerge == IInv => UpdateReachesMerge
<1> SUFFICES ASSUME IInv, Finished PROVE ctx = Merge(before, fetched)
  BY DEF UpdateReachesMerge
<1> USE DEF IInv, Finished
<1>1. old.rows = {} /\ new.copies = {}
  BY DEF Progress, Remaining
<1>2. ctx.zones = fetched.zones
  BY DEF Progress, Computed
<1>3. ctx.rows = Kept \union Added
  BY <1>1 DEF Progress, Computed
<1>4. Kept = {Seen(r) : r \in {r \in before.rows : Listed(r, fetched)}}
  BY <1>1 DEF Kept
<1>5. Added = {NewRow(c, ZoneOf[c.id]) : c \in {c \in fetched.copies : ~Known(c, before)}}
  BY <1>1 DEF Added
<1>6. ctx = [zones |-> ctx.zones, rows |-> ctx.rows]
  BY DEF TypeOK, Graph
<1>7. QED
  BY <1>2, <1>3, <1>4, <1>5, <1>6 DEF Merge
----------------------------------------------------------------------------
(* The invariant is inductive: one lemma for each pass of the loops.        *)

(* The store holds the context or what it held before.                      *)
StoreStep == store' \in {store, ctx'}

(* The row of a request is the only one with its identifier, so the calls   *)
(* that take the first one change the row that was compared.                *)
LEMMA OnlyRow ==
  ASSUME Coherent(ctx), NEW r \in ctx.rows
  PROVE  Identified(ctx, r.id) = {r}
  BY DEF Coherent, Identified

(* updateSavedRequests begins with the saved graph and the whole list.      *)
LEMMA BeginStep ==
  ASSUME IInv, TypeOK', ReadCanFail = FALSE, NEW f \in Fetchable, BeginUpdate(f)
  PROVE  ZoneByZone' /\ Progress' /\ Coherent(before)' /\ StoreStep
<1> USE DEF IInv, BeginUpdate, loadAllZoneRequests
<1>1. /\ old' = ctx /\ before' = ctx /\ new' = f /\ fetched' = f
      /\ ctx' = ctx /\ store' = store /\ pc' = "zones" /\ cur' = NoZone
      /\ Coherent(ctx)
  BY DEF ZoneByZone
<1>2. Remaining'
  BY <1>1 DEF Remaining, Coherent, Fetchable
<1>3. Paired'
  BY <1>1 DEF Paired
<1>4. Kept' = {} /\ Added' = {}
  BY <1>1 DEF Kept, Added
<1>5. Computed'
  BY <1>1, <1>4 DEF Computed
<1>6. ZoneByZone'
  BY <1>1 DEF ZoneByZone
<1>7. QED
  BY <1>1, <1>2, <1>3, <1>5, <1>6 DEF Progress, StoreStep, Coherent

(* Turning to a saved zone moves nothing.                                   *)
LEMMA EnterStep ==
  ASSUME IInv, TypeOK', NEW z \in Zones, EnterZone(z)
  PROVE  ZoneByZone' /\ Progress' /\ StoreStep
<1> USE DEF IInv, EnterZone, Progress
<1>1. Remaining' /\ Paired'
  BY DEF Remaining, Paired
<1>2. Kept' = Kept /\ Added' = Added
  BY DEF Kept, Added
<1>3. Computed'
  BY <1>2 DEF Computed
<1>4. cur \notin Zones /\ \A c \in fetched.copies : ZoneOf[c.id] \in Zones
  BY NoZoneAssumption, FetchedOnce, CopyZone DEF ZoneByZone
<1>5. ZoneByZone'
  BY <1>4 DEF ZoneByZone
<1>6. QED
  BY <1>1, <1>3, <1>5 DEF StoreStep

(* A zone that was not fetched again holds nothing that stays.              *)
LEMMA DropZoneStep ==
  ASSUME IInv, TypeOK', ReadCanFail = FALSE, NEW z \in Zones, DropZone(z)
  PROVE  ZoneByZone' /\ Progress' /\ StoreStep
<1> USE DEF IInv, DropZone, Progress, RowsOf
<1>0. /\ ctx' = [zones |-> ctx.zones \ {z}, rows |-> {r \in ctx.rows : r.zone # z}]
      /\ store' \in {store, ctx'}
      /\ UNCHANGED <<pc, cur, new, before, fetched>>
      /\ old'.zones = old.zones \ {z}
      /\ old'.rows = old.rows \ {r \in old.rows : r.zone = z}
  BY DEF deleteZoneRequest
<1>1. z \notin fetched.zones /\ z \notin new.zones
  BY DEF Remaining
<1>2. Remaining'
  BY <1>0, <1>1 DEF Remaining
<1>3. Paired'
  BY <1>0, <1>1 DEF Paired, Remaining
<1>4. \A r \in before.rows : r.zone = z => ~Listed(r, fetched)
  BY <1>1, FetchedOnce DEF Listed
<1>5. Kept' = Kept /\ Added' = Added
  BY <1>0, <1>4 DEF Kept, Added
<1>6. \A r \in Kept \union Added : r.zone # z
  BY <1>1, KeptRow, AddedRow, FetchedOnce
<1>7. Computed'
  BY <1>0, <1>1, <1>5, <1>6 DEF Computed
<1>8. ZoneByZone'
  BY <1>0 DEF ZoneByZone
<1>9. QED
  BY <1>0, <1>2, <1>3, <1>7, <1>8 DEF StoreStep

(* A matched request leaves both arrays, and its row is kept.               *)
LEMMA MatchStep ==
  ASSUME IInv, TypeOK', ReadCanFail = FALSE,
         NEW r \in old.rows, NEW c \in new.copies, MatchRequest(r, c)
  PROVE  ZoneByZone' /\ Progress' /\ StoreStep
<1> USE DEF IInv, MatchRequest, Progress
<1>0. /\ r \in before.rows /\ r \in ctx.rows /\ r \in Row
      /\ c \in fetched.copies
      /\ r.zone = cur /\ ZoneOf[c.id] = cur /\ Matches(r, c) /\ r.id = c.id
      /\ UNCHANGED <<pc, cur, before, fetched>>
      /\ old'.rows = old.rows \ {r} /\ old'.zones = old.zones
      /\ new'.copies = new.copies \ {c} /\ new'.zones = new.zones
  BY DEF Remaining, Computed, RowsOf, CopiesOf, Matches, TypeOK, Graph
<1>1. /\ ctx'.zones = ctx.zones
      /\ ctx'.rows = (ctx.rows \ {r}) \union {Seen(r)}
      /\ store' \in {store, ctx'}
  <2>1. CASE r.isNew
    <3>1. Identified(ctx, r.id) = {r}
      BY <1>0, MidCoherent, OnlyRow
    <3>2. QED
      BY <2>1, <3>1 DEF markRequestAsOld, TypeOK, Graph
  <2>2. CASE ~r.isNew
    BY <1>0, <2>2, SeenType
  <2>3. QED  BY <2>1, <2>2
<1>2. Listed(r, fetched) /\ Known(c, before)
  BY <1>0 DEF Listed, Known
<1>3. Remaining'
  BY <1>0 DEF Remaining
<1>4. Paired'
  <2>1. \A d \in fetched.copies : d.id = r.id => d = c
    BY <1>0, FetchedOnce
  <2>2. \A s \in before.rows : s.id = c.id => s = r
    BY <1>0 DEF Coherent
  <2>3. ASSUME NEW d \in new'.copies, NEW s \in before.rows,
               s.zone = ZoneOf[d.id], Matches(s, d)
        PROVE  s \in old'.rows
    BY <1>0, <2>1, <2>3 DEF Paired, Matches, Remaining
  <2>4. ASSUME NEW d \in fetched.copies \ new'.copies, NEW s \in old'.rows
        PROVE  d.id # s.id
    BY <1>0, <2>2 DEF Paired, Remaining
  <2>5. QED  BY <1>0, <2>3, <2>4 DEF Paired
<1>5. Kept' = Kept \union {Seen(r)}
  BY <1>0, <1>2 DEF Kept
<1>6. Added' = Added
  BY <1>0, <1>2 DEF Added
<1>7. r \notin Kept \union Added
  BY OldApart
<1>8. Computed'
  BY <1>0, <1>1, <1>5, <1>6, <1>7 DEF Computed
<1>9. ZoneByZone'
  BY <1>0 DEF ZoneByZone
<1>10. QED
  BY <1>1, <1>3, <1>4, <1>8, <1>9 DEF StoreStep

(* A request without an equal copy is not listed: its copies were neither   *)
(* left in the array nor given to another request.                          *)
LEMMA DropStep ==
  ASSUME IInv, TypeOK', ReadCanFail = FALSE, NEW r \in old.rows, DropRequest(r)
  PROVE  ZoneByZone' /\ Progress' /\ StoreStep
<1> USE DEF IInv, DropRequest, Progress
<1>0. /\ r \in before.rows /\ r \in ctx.rows
      /\ r.zone = cur
      /\ UNCHANGED <<pc, cur, new, before, fetched>>
      /\ old'.rows = old.rows \ {r} /\ old'.zones = old.zones
  BY DEF Remaining, Computed, RowsOf, TypeOK, Graph
<1>1. /\ ctx'.zones = ctx.zones
      /\ ctx'.rows = ctx.rows \ {r}
      /\ store' \in {store, ctx'}
  <2>1. Identified(ctx, r.id) = {r}
    BY <1>0, MidCoherent, OnlyRow
  <2>2. QED  BY <2>1 DEF deleteRequest, TypeOK, Graph
<1>2. ASSUME NEW c \in new.copies, r.zone = ZoneOf[c.id], Matches(r, c)
      PROVE  FALSE
  BY <1>0, <1>2 DEF CopiesOf
<1>3. ~Listed(r, fetched)
  BY <1>2 DEF Listed, Paired, Matches
<1>4. Remaining'
  BY <1>0 DEF Remaining
<1>5. Paired'
  BY <1>0, <1>2 DEF Paired
<1>6. Kept' = Kept /\ Added' = Added
  BY <1>0, <1>3 DEF Kept, Added
<1>7. r \notin Kept \union Added
  BY OldApart
<1>8. Computed'
  BY <1>0, <1>1, <1>6, <1>7 DEF Computed
<1>9. ZoneByZone'
  BY <1>0 DEF ZoneByZone
<1>10. QED
  BY <1>1, <1>4, <1>5, <1>8, <1>9 DEF StoreStep

(* A copy that is inserted was matched by no saved request, neither before  *)
(* nor among the requests of its zone.                                      *)
LEMMA InsertedCopy ==
  ASSUME IInv, TypeOK', NEW c \in new.copies,
         pc # "idle", pc' = pc,
         ZoneOf[c.id] = cur, RowsOf(cur) = {},
         ctx' = [ctx EXCEPT !.rows = @ \union {NewRow(c, cur)}],
         store' \in {store, ctx'},
         new' = [new EXCEPT !.copies = @ \ {c}],
         UNCHANGED <<cur, old, before, fetched>>
  PROVE  ZoneByZone' /\ Progress' /\ StoreStep
<1> USE DEF IInv, Progress
<1>0. /\ c \in fetched.copies
      /\ \A r \in old.rows : r.zone # ZoneOf[c.id]
      /\ new'.copies = new.copies \ {c} /\ new'.zones = new.zones
      /\ ctx'.zones = ctx.zones /\ ctx'.rows = ctx.rows \union {NewRow(c, cur)}
  BY DEF Remaining, RowsOf, TypeOK, Graph, ZoneList
<1>1. ~Known(c, before)
  BY <1>0 DEF Known, Paired
<1>2. Remaining'
  BY <1>0 DEF Remaining
<1>3. Paired'
  BY <1>0 DEF Paired, Coherent, Remaining
<1>4. Kept' = Kept
  BY DEF Kept
<1>5. Added' = Added \union {NewRow(c, cur)}
  BY <1>0, <1>1 DEF Added
<1>6. Computed'
  BY <1>0, <1>4, <1>5 DEF Computed
<1>7. ZoneByZone'
  BY <1>0 DEF ZoneByZone
<1>8. QED
  BY <1>2, <1>3, <1>6, <1>7 DEF StoreStep

(* The zone a request is added to is saved, so the request is added.        *)
LEMMA AddStep ==
  ASSUME IInv, TypeOK', ReadCanFail = FALSE, NEW c \in new.copies, AddRequest(c)
  PROVE  ZoneByZone' /\ Progress' /\ StoreStep
<1>1. cur \in ctx.zones
  BY DEF IInv, Progress, ZoneByZone, Computed, AddRequest
<1>2. ctx' = [ctx EXCEPT !.rows = @ \union {NewRow(c, cur)}] /\ store' \in {store, ctx'}
  BY <1>1 DEF AddRequest, addRequestToZoneUsingID, addRequestToZoneRequest
<1>3. QED
  BY <1>2, InsertedCopy DEF AddRequest, CopiesOf

(* A zone is saved for the first time only when no saved zone is left.      *)
LEMMA FillStep ==
  ASSUME IInv, TypeOK', NEW c \in new.copies, FillZone(c)
  PROVE  ZoneByZone' /\ Progress' /\ StoreStep
<1>1. ctx' = [ctx EXCEPT !.rows = @ \union {NewRow(c, cur)}] /\ store' \in {store, ctx'}
  BY DEF FillZone, addRequestToZoneRequest
<1>2. RowsOf(cur) = {}
  BY DEF FillZone, IInv, Progress, Remaining, ZoneByZone, RowsOf
<1>3. QED
  BY <1>1, <1>2, InsertedCopy DEF FillZone, CopiesOf

(* A zone is left with neither requests nor copies in the arrays.           *)
LEMMA LeaveStep ==
  ASSUME IInv, TypeOK', LeaveZone
  PROVE  ZoneByZone' /\ Progress' /\ StoreStep
<1> USE DEF IInv, LeaveZone, Progress
<1>0. /\ old'.zones = old.zones \ {cur} /\ old'.rows = old.rows
      /\ new'.zones = new.zones \ {cur} /\ new'.copies = new.copies
      /\ pc' = "zones" /\ cur' = NoZone
      /\ cur \in new.zones /\ cur \in old.zones
      /\ UNCHANGED <<ctx, store, before, fetched>>
  BY DEF ZoneByZone, TypeOK, Graph, ZoneList
<1>1. Remaining'
  BY <1>0 DEF Remaining, RowsOf, CopiesOf
<1>2. Paired'
  BY <1>0 DEF Paired
<1>3. Kept' = Kept /\ Added' = Added
  BY <1>0 DEF Kept, Added
<1>4. Computed'
  BY <1>0, <1>3 DEF Computed, Remaining
<1>5. ZoneByZone'
  BY <1>0 DEF ZoneByZone
<1>6. QED
  BY <1>0, <1>1, <1>2, <1>4, <1>5 DEF StoreStep

(* The new zone object becomes part of the saved graph, still empty.        *)
LEMMA InsertZoneStep ==
  ASSUME IInv, TypeOK', NEW z \in Zones, InsertZone(z)
  PROVE  ZoneByZone' /\ Progress' /\ StoreStep
<1> USE DEF IInv, InsertZone, Progress
<1>0. /\ ctx'.zones = ctx.zones \union {z} /\ ctx'.rows = ctx.rows
      /\ pc' = "saveZone" /\ cur' = z
      /\ UNCHANGED <<store, old, new, before, fetched>>
  BY DEF TypeOK, Graph
<1>1. Remaining' /\ Paired'
  BY <1>0 DEF Remaining, Paired
<1>2. Kept' = Kept /\ Added' = Added
  BY <1>0 DEF Kept, Added
<1>3. Computed'
  BY <1>0, <1>2 DEF Computed
<1>4. cur \notin Zones /\ \A c \in fetched.copies : ZoneOf[c.id] \in Zones
  BY NoZoneAssumption, FetchedOnce, CopyZone DEF ZoneByZone
<1>5. ZoneByZone'
  BY <1>0, <1>4 DEF ZoneByZone
<1>6. QED
  BY <1>0, <1>1, <1>3, <1>5 DEF StoreStep

(* The new zone is complete.                                                *)
LEMMA SaveZoneStep ==
  ASSUME IInv, TypeOK', SaveZone
  PROVE  ZoneByZone' /\ Progress' /\ StoreStep
<1> USE DEF IInv, SaveZone, Progress
<1>0. /\ ctx' = ctx /\ store' \in {store, ctx'}
      /\ new'.zones = new.zones \ {cur} /\ new'.copies = new.copies
      /\ pc' = "zones" /\ cur' = NoZone
      /\ old.zones = {} /\ cur \in new.zones
      /\ UNCHANGED <<old, before, fetched>>
  BY DEF ZoneByZone, TypeOK, ZoneList
<1>1. Remaining'
  BY <1>0 DEF Remaining, CopiesOf
<1>2. Paired'
  BY <1>0 DEF Paired
<1>3. Kept' = Kept /\ Added' = Added
  BY <1>0 DEF Kept, Added
<1>4. Computed'
  BY <1>0, <1>3 DEF Computed, Remaining
<1>5. ZoneByZone'
  BY <1>0 DEF ZoneByZone
<1>6. QED
  BY <1>0, <1>1, <1>2, <1>4, <1>5 DEF StoreStep

(* Between updates: nothing is known of a job that is not running.          *)
LEMMA ResetStep ==
  ASSUME ResetJob
  PROVE  ZoneByZone' /\ Coherent(before)' /\ pc' = "idle"
  BY DEF ResetJob, ZoneByZone, Coherent, EmptyGraph, EmptyList

(* Checking an item leaves the graph coherent.                              *)
LEMMA TickStep ==
  ASSUME TypeOK, Coherent(ctx), NEW r \in ctx.rows, NEW i \in Items, NEW b \in BOOLEAN
  PROVE  Coherent([ctx EXCEPT !.rows = (@ \ {r}) \union {Ticked(r, i, b)}])
<1> DEFINE g == [ctx EXCEPT !.rows = (@ \ {r}) \union {Ticked(r, i, b)}]
<1>1. g.zones = ctx.zones /\ g.rows = (ctx.rows \ {r}) \union {Ticked(r, i, b)}
  BY DEF TypeOK, Graph
<1>2. /\ Ticked(r, i, b).id = r.id
      /\ Ticked(r, i, b).zone = r.zone
      /\ Ticked(r, i, b).items = r.items
      /\ r.checked \subseteq r.items => Ticked(r, i, b).checked \subseteq r.items
  BY TickedType DEF TypeOK, Graph
<1> HIDE DEF g
<1>3. Coherent(g)
  BY <1>1, <1>2 DEF Coherent
<1>4. QED
  BY <1>3 DEF g

(* Every step preserves the invariant, as long as fetches do not fail.      *)
LEMMA IInvStep ==
  ASSUME ReadCanFail = FALSE
  PROVE  IInv /\ [Next]_vars => IInv'
<1> SUFFICES ASSUME IInv, [Next]_vars PROVE IInv'
  OBVIOUS
<1>0. TypeOK' /\ Coherent(ctx)
  BY TypeStep, MidCoherent DEF IInv
<1>1. ASSUME ZoneByZone', Progress', Coherent(before)', StoreStep
      PROVE  IInv'
  <2>1. Coherent(ctx)'
    <3>1. (TypeOK /\ Coherent(before) /\ ZoneByZone /\ Progress => Coherent(ctx))'
      BY MidCoherent, PTL
    <3>2. QED  BY <1>0, <1>1, <3>1
  <2>2. Coherent(store)'
    BY <1>1, <2>1 DEF StoreStep, Coherent, IInv
  <2>3. QED  BY <1>0, <1>1, <2>1, <2>2 DEF IInv
<1>2. before' = before => Coherent(before)'
  BY DEF IInv, Coherent
<1>3. ASSUME ZoneByZone', Coherent(before)', pc' = "idle", Coherent(ctx)', Coherent(store)'
      PROVE  IInv'
  BY <1>0, <1>3 DEF IInv
<1>4. ASSUME NEW f \in Fetchable, BeginUpdate(f) PROVE IInv'
  BY <1>0, <1>1, <1>4, BeginStep
<1>5. ASSUME NEW z \in Zones, EnterZone(z) PROVE IInv'
  BY <1>0, <1>1, <1>2, <1>5, EnterStep DEF EnterZone
<1>6. ASSUME NEW z \in Zones, DropZone(z) PROVE IInv'
  BY <1>0, <1>1, <1>2, <1>6, DropZoneStep DEF DropZone
<1>7. ASSUME NEW z \in Zones, InsertZone(z) PROVE IInv'
  BY <1>0, <1>1, <1>2, <1>7, InsertZoneStep DEF InsertZone
<1>8. ASSUME NEW r \in old.rows, NEW c \in new.copies, MatchRequest(r, c) PROVE IInv'
  BY <1>0, <1>1, <1>2, <1>8, MatchStep DEF MatchRequest
<1>9. ASSUME NEW r \in old.rows, DropRequest(r) PROVE IInv'
  BY <1>0, <1>1, <1>2, <1>9, DropStep DEF DropRequest
<1>10. ASSUME NEW c \in new.copies, AddRequest(c) PROVE IInv'
  BY <1>0, <1>1, <1>2, <1>10, AddStep DEF AddRequest
<1>11. ASSUME NEW c \in new.copies, FillZone(c) PROVE IInv'
  BY <1>0, <1>1, <1>2, <1>11, FillStep DEF FillZone
<1>12. CASE LeaveZone
  BY <1>0, <1>1, <1>2, <1>12, LeaveStep DEF LeaveZone
<1>13. CASE SaveZone
  BY <1>0, <1>1, <1>2, <1>13, SaveZoneStep DEF SaveZone
<1>14. CASE EndUpdate
  BY <1>0, <1>3, <1>14, ResetStep DEF EndUpdate, Coherent, IInv
<1>15. CASE Kill
  BY <1>3, <1>15, ResetStep DEF Kill, Coherent, IInv
<1>16. ASSUME UNCHANGED job, pc = "idle" PROVE ZoneByZone' /\ Coherent(before)' /\ pc' = "idle"
  BY <1>16 DEF job, IInv, ZoneByZone, Coherent
<1>17. ASSUME NEW id \in Requests, NEW i \in Items, NEW b \in BOOLEAN, markChecked(id, i, b)
       PROVE  IInv'
  <2>1. /\ Coherent(ctx') /\ store' \in {store, ctx'}
        /\ UNCHANGED job /\ pc = "idle"
    BY <1>0, <1>17, TickStep DEF markChecked, Identified, IInv
  <2>2. Coherent(store')
    BY <2>1 DEF IInv
  <2>3. QED  BY <1>3, <1>16, <2>1, <2>2
<1>18. CASE clearAllZoneRequests
  <2>1. /\ ctx' = EmptyGraph /\ store' \in {store, ctx'}
        /\ UNCHANGED job /\ pc = "idle"
    BY <1>18 DEF clearAllZoneRequests
  <2>2. Coherent(ctx') /\ Coherent(store')
    BY <2>1 DEF IInv, Coherent, EmptyGraph
  <2>3. QED  BY <1>3, <1>16, <2>1, <2>2
<1>19. CASE EnterBackground
  <2>1. CASE Kill
    BY <1>15, <2>1
  <2>2. CASE store' = ctx /\ UNCHANGED <<ctx, job>>
    <3>1. Coherent(ctx)' /\ Coherent(store)' /\ pc = "idle" /\ UNCHANGED job
      BY <1>0, <1>19, <2>2 DEF EnterBackground, Coherent
    <3>2. QED  BY <1>3, <1>16, <3>1
  <2>3. QED  BY <1>19, <2>1, <2>2 DEF EnterBackground
<1>20. CASE UNCHANGED vars
  BY <1>0, <1>20 DEF IInv, vars, ZoneByZone, Progress, Remaining, Paired, Computed,
     Kept, Added, Coherent
<1>21. QED
  BY <1>4, <1>5, <1>6, <1>7, <1>8, <1>9, <1>10, <1>11, <1>12, <1>13, <1>14, <1>15,
     <1>17, <1>18, <1>19, <1>20 DEF Next, UpdateStep

(* Before the first update there is nothing to be wrong.                    *)
LEMMA IInvInit == Init => IInv
<1>1. Init => TypeOK
  BY EmptyFetchable DEF Init, TypeOK, Graph, EmptyGraph
<1>2. QED
  BY <1>1 DEF Init, IInv, ZoneByZone, Coherent, EmptyGraph, EmptyList

(* In the middle of an update, with any saves failing and the process       *)
(* ending anywhere, memory and disk hold every request at most once, in its *)
(* own saved zone: what the calls of CDHandler that take the first row with *)
(* an identifier rely on.                                                   *)
THEOREM AlwaysCoherent ==
  ASSUME ReadCanFail = FALSE
  PROVE  Spec => []SavedCoherent
<1>1. IInv => SavedCoherent
  BY MidCoherent DEF IInv, SavedCoherent
<1>2. QED
  BY <1>1, IInvInit, IInvStep, PTL DEF Spec

(* The loops of updateSavedRequests compute the reference update, in        *)
(* whatever order they meet zones and requests, and whichever saves fail.   *)
THEOREM UpdateIsMerge ==
  ASSUME ReadCanFail = FALSE
  PROVE  Spec => []UpdateReachesMerge
  BY DoneIsMerge, IInvInit, IInvStep, PTL DEF Spec
----------------------------------------------------------------------------
(* As long as saves do not fail, the disk follows the context, except for   *)
(* the zone object that saveZoneRequest has inserted and not saved yet.     *)
OnDisk ==
  /\ store.rows = ctx.rows
  /\ store.zones \subseteq ctx.zones
  /\ pc # "saveZone" => store = ctx
  /\ pc = "saveZone" => ctx.zones \ {cur} \subseteq store.zones

DInv == IInv /\ OnDisk

(* What a save leaves behind is on disk.                                    *)
LEMMA SavedOnDisk ==
  ASSUME store' = ctx'
  PROVE  OnDisk'
  BY DEF OnDisk

(* A step that touches neither graph keeps them in step.                    *)
LEMMA UntouchedOnDisk ==
  ASSUME OnDisk, UNCHANGED <<ctx, store>>, pc # "saveZone", pc' # "saveZone"
  PROVE  OnDisk'
  BY DEF OnDisk

(* Every step keeps the disk up to date, as long as nothing fails.          *)
LEMMA OnDiskStep ==
  ASSUME SaveCanFail = FALSE, ReadCanFail = FALSE
  PROVE  DInv /\ [Next]_vars => OnDisk'
<1> SUFFICES ASSUME DInv, [Next]_vars PROVE OnDisk'
  OBVIOUS
<1> USE SavedOnDisk, UntouchedOnDisk DEF DInv
<1>1. ASSUME NEW f \in Fetchable, BeginUpdate(f) PROVE OnDisk'
  BY <1>1 DEF BeginUpdate
<1>2. ASSUME NEW z \in Zones, EnterZone(z) \/ DropZone(z) PROVE OnDisk'
  BY <1>2 DEF EnterZone, DropZone, deleteZoneRequest
<1>3. ASSUME NEW z \in Zones, InsertZone(z) PROVE OnDisk'
  BY <1>3 DEF InsertZone, OnDisk, IInv, TypeOK, Graph
<1>4. ASSUME NEW r \in old.rows, NEW c \in new.copies, MatchRequest(r, c) PROVE OnDisk'
  BY <1>4 DEF MatchRequest, markRequestAsOld
<1>5. ASSUME NEW r \in old.rows, DropRequest(r) PROVE OnDisk'
  BY <1>5 DEF DropRequest, deleteRequest
<1>6. ASSUME NEW c \in new.copies, AddRequest(c) \/ FillZone(c) PROVE OnDisk'
  BY <1>6 DEF AddRequest, FillZone, addRequestToZoneUsingID, addRequestToZoneRequest
<1>7. CASE LeaveZone \/ SaveZone
  BY <1>7 DEF LeaveZone, SaveZone
<1>8. CASE EndUpdate
  BY <1>8 DEF EndUpdate, Finished, ResetJob
<1>9. CASE Kill
  BY <1>9 DEF Kill
<1>10. ASSUME NEW id \in Requests, NEW i \in Items, NEW b \in BOOLEAN, markChecked(id, i, b)
       PROVE  OnDisk'
  BY <1>10 DEF markChecked
<1>11. CASE clearAllZoneRequests
  BY <1>11 DEF clearAllZoneRequests
<1>12. CASE EnterBackground
  BY <1>12 DEF EnterBackground
<1>13. CASE UNCHANGED vars
  BY <1>13 DEF vars, OnDisk
<1>14. QED
  BY <1>1, <1>2, <1>3, <1>4, <1>5, <1>6, <1>7, <1>8, <1>9, <1>10, <1>11, <1>12, <1>13
     DEF Next, UpdateStep

(* Memory and disk both begin empty.                                        *)
LEMMA OnDiskInit == Init => OnDisk
  BY DEF Init, OnDisk

(* In the middle of an update, a row that is still listed is in memory, as  *)
(* it was or marked as seen.                                                *)
LEMMA ListedStays ==
  ASSUME IInv, pc # "idle", NEW r \in before.rows, Listed(r, fetched)
  PROVE  r \in ctx.rows \/ Seen(r) \in ctx.rows
<1>1. CASE r \in old.rows
  BY <1>1 DEF IInv, Progress, Computed
<1>2. CASE r \notin old.rows
  BY <1>2 DEF IInv, Progress, Computed, Kept
<1>3. QED  BY <1>1, <1>2

(* Wherever an update is cut off, no check mark of a request that the       *)
(* server still lists is lost.                                              *)
THEOREM TicksSurviveKill ==
  ASSUME SaveCanFail = FALSE, ReadCanFail = FALSE
  PROVE  Spec => []KilledUpdateKeepsTicks
<1>1. DInv => KilledUpdateKeepsTicks
  BY ListedStays DEF DInv, OnDisk, KilledUpdateKeepsTicks
<1>2. DInv /\ [Next]_vars => DInv'
  BY OnDiskStep, IInvStep DEF DInv
<1>3. Init => DInv
  BY OnDiskInit, IInvInit DEF DInv
<1>4. QED
  BY <1>1, <1>2, <1>3, PTL DEF Spec

----------------------------------------------------------------------------
(* The loops implement the promise.                                         *)

(* What the end of the process leaves of an update is a mixture the promise *)
(* allows.                                                                  *)
LEMMA KilledIsCutShort ==
  ASSUME DInv, pc # "idle"
  PROVE  CutShort(before, fetched, store)
<1> USE DEF DInv, IInv, Progress
<1>1. store \in Graph /\ Coherent(store)
  BY DEF TypeOK
<1>2. store.rows \subseteq before.rows \union Merge(before, fetched).rows
  BY DEF OnDisk, Computed, Kept, Added, Merge, Remaining
<1>3. /\ before.zones \intersect fetched.zones
           \subseteq old.zones \union (fetched.zones \ new.zones)
      /\ ctx.zones \subseteq before.zones \union fetched.zones
  BY DEF Remaining, Computed, ZoneByZone
<1>4. old.zones \union (fetched.zones \ new.zones) \subseteq store.zones
  BY DEF OnDisk, Computed, ZoneByZone
<1>5. \A r \in before.rows :
        Listed(r, fetched) => r \in store.rows \/ Seen(r) \in store.rows
  BY ListedStays DEF OnDisk
<1>6. QED
  BY <1>1, <1>2, <1>3, <1>4, <1>5 DEF CutShort, OnDisk

(* The promise is stated with the operators of RequestData.                 *)
LEMMA SameOperators ==
  /\ Abstract!EmptyGraph = EmptyGraph
  /\ Abstract!Fetchable = Fetchable
  /\ \A g, id : Abstract!Identified(g, id) = Identified(g, id)
  /\ \A r, i, b : Abstract!Ticked(r, i, b) = Ticked(r, i, b)
  /\ \A g, f : Abstract!Merge(g, f) = Merge(g, f)
  /\ \A g, f, h : Abstract!CutShort(g, f, h) <=> CutShort(g, f, h)
<1>1. Abstract!EmptyGraph = EmptyGraph
  BY DEF Abstract!EmptyGraph, EmptyGraph
<1>2. Abstract!Fetchable = Fetchable
  BY DEF Abstract!Fetchable, Abstract!ZoneList, Fetchable, ZoneList
<1>3. \A g, id : Abstract!Identified(g, id) = Identified(g, id)
  BY DEF Abstract!Identified, Identified
<1>4. \A r, i, b : Abstract!Ticked(r, i, b) = Ticked(r, i, b)
  BY DEF Abstract!Ticked, Ticked
<1>5. \A g, f : Abstract!Merge(g, f) = Merge(g, f)
  BY DEF Abstract!Merge, Abstract!Listed, Abstract!Known, Abstract!Matches, Abstract!Seen,
     Abstract!NewRow, Merge, Listed, Known, Matches, Seen, NewRow
<1>6. \A r, f : Abstract!Listed(r, f) <=> Listed(r, f)
  BY DEF Abstract!Listed, Abstract!Matches, Listed, Matches
<1>7. \A g : Abstract!Coherent(g) <=> Coherent(g)
  BY DEF Abstract!Coherent, Coherent
<1>8. Abstract!Graph = Graph
  BY DEF Abstract!Graph, Abstract!Row, Graph, Row
<1>9. \A r : Abstract!Seen(r) = Seen(r)
  BY DEF Abstract!Seen, Seen
<1>10. \A g, f, h : Abstract!CutShort(g, f, h) <=> CutShort(g, f, h)
  BY <1>5, <1>6, <1>7, <1>8, <1>9 DEF Abstract!CutShort, CutShort
<1>11. QED
  BY <1>1, <1>2, <1>3, <1>4, <1>5, <1>10

(* As seen from outside, the saved tasksheet changes by whole updates, by   *)
(* updates cut short, by ticks and by being cleared, and in no other way.   *)
THEOREM KeepsPromise ==
  ASSUME SaveCanFail = FALSE, ReadCanFail = FALSE
  PROVE  Spec => ImplementsPromise
<1>1. Init => Abstract!Init
  BY SameOperators DEF Init, Abstract!Init, sheet
<1>2. DInv /\ [Next]_vars => [Abstract!Next]_sheet
  <2> SUFFICES ASSUME DInv, [Next]_vars PROVE [Abstract!Next]_sheet
    OBVIOUS
  <2> USE DEF sheet
  <2>1. ASSUME pc # "idle", pc' # "idle", UNCHANGED before PROVE UNCHANGED sheet
    BY <2>1
  <2>2. ASSUME NEW f \in Fetchable, BeginUpdate(f) PROVE UNCHANGED sheet
    BY <2>2 DEF BeginUpdate
  <2>3. ASSUME NEW z \in Zones, EnterZone(z) \/ DropZone(z) \/ InsertZone(z)
        PROVE  UNCHANGED sheet
    BY <2>1, <2>3 DEF EnterZone, DropZone, InsertZone
  <2>4. ASSUME NEW r \in old.rows, NEW c \in new.copies, MatchRequest(r, c)
        PROVE  UNCHANGED sheet
    BY <2>1, <2>4 DEF MatchRequest
  <2>5. ASSUME NEW r \in old.rows, DropRequest(r) PROVE UNCHANGED sheet
    BY <2>1, <2>5 DEF DropRequest
  <2>6. ASSUME NEW c \in new.copies, AddRequest(c) \/ FillZone(c) PROVE UNCHANGED sheet
    BY <2>1, <2>6 DEF AddRequest, FillZone
  <2>7. CASE LeaveZone \/ SaveZone
    BY <2>1, <2>7 DEF LeaveZone, SaveZone
  <2>8. CASE EndUpdate
    <3>1. sheet = before /\ sheet' = Merge(before, fetched) /\ fetched \in Fetchable
      BY <2>8, DoneIsMerge
         DEF DInv, IInv, TypeOK, EndUpdate, Finished, ResetJob, UpdateReachesMerge
    <3>2. QED  BY <3>1, SameOperators DEF Abstract!Next, Abstract!Update
  <2>9. CASE Kill
    <3>1. CASE pc = "idle"
      BY <2>9, <3>1 DEF Kill, ResetJob, DInv, OnDisk
    <3>2. CASE pc # "idle"
      <4>1. sheet = before /\ sheet' = store /\ fetched \in Fetchable
        BY <2>9, <3>2 DEF Kill, ResetJob, DInv, IInv, TypeOK
      <4>2. CutShort(before, fetched, store)
        BY <3>2, KilledIsCutShort
      <4>3. QED  BY <4>1, <4>2, SameOperators DEF Abstract!Next, Abstract!Interrupted
    <3>3. QED  BY <3>1, <3>2
  <2>10. ASSUME NEW id \in Requests, NEW i \in Items, NEW b \in BOOLEAN, markChecked(id, i, b)
         PROVE  Abstract!Tick(id, i, b) \/ UNCHANGED sheet
    BY <2>10, SameOperators DEF markChecked, Abstract!Tick, job
  <2>11. CASE clearAllZoneRequests
    BY <2>11, SameOperators DEF clearAllZoneRequests, Abstract!Next, Abstract!Clear, job
  <2>12. CASE EnterBackground
    BY <2>12 DEF EnterBackground, DInv, OnDisk
  <2>13. CASE UNCHANGED vars
    BY <2>13 DEF vars
  <2>14. QED
    BY <2>2, <2>3, <2>4, <2>5, <2>6, <2>7, <2>8, <2>9, <2>10, <2>11, <2>12, <2>13
       DEF Next, UpdateStep, Abstract!Next
<1>3. DInv /\ [Next]_vars => DInv'
  BY OnDiskStep, IInvStep DEF DInv
<1>4. Init => DInv
  BY OnDiskInit, IInvInit DEF DInv
<1>5. QED
  BY <1>1, <1>2, <1>3, <1>4, PTL DEF Spec, ImplementsPromise, Abstract!Spec
============================================================================
