-------------------------- MODULE Tasksheet_proofs --------------------------
(***************************************************************************)
(* Proofs about Tasksheet, for every server, every set of zones and every   *)
(* number of refreshes under way.                                           *)
(***************************************************************************)
EXTENDS Tasksheet, RequestData_proofs

USE DEF refreshVars, screenVars, history

----------------------------------------------------------------------------
(* Operators of TasksheetPromise are those of RequestData.                  *)
LEMMA SameMerge == \A g, f : Saved!Merge(g, f) = Merge(g, f)
  BY DEF Saved!Merge, Saved!Listed, Saved!Known, Saved!Matches, Saved!Seen, Saved!NewRow,
         Merge, Listed, Known, Matches, Seen, NewRow

(* What delivering a list does to the saved requests.                       *)
LEMMA Delivers ==
  ASSUME NEW k \in Refreshes, Deliver(k)
  PROVE  \E f \in Deliverable(Assigned, seen[k]) :
           saved' = Merge(saved, f) /\ DeliverWith(k, f)
  BY SameMerge DEF Deliver, Saved!Update

(* A list a fetch may deliver is one the update can take.                   *)
LEMMA DeliverableFetchable ==
  ASSUME NEW zones, NEW versions
  PROVE  Deliverable(zones, versions) \subseteq Fetchable
  BY DEF Deliverable

(* What is left of an update that was cut off.                              *)
LEMMA MixtureCutShort ==
  ASSUME NEW g, NEW f, NEW h \in Mixtures(g, f)
  PROVE  CutShort(g, f, h) /\ h \in Graph /\ Coherent(h)
  BY DEF Mixtures, CutShort

(* Ticking changes check marks of one row, and no more.                     *)
LEMMA TickedRow ==
  ASSUME NEW r \in Row, NEW i \in Items, NEW b \in BOOLEAN
  PROVE  /\ Ticked(r, i, b).detail = r.detail
         /\ Ticked(r, i, b).isNew = r.isNew
  BY DEF Ticked, Row

(* A ticked graph has the rows of the graph it comes from.                  *)
LEMMA TickInRows ==
  ASSUME NEW g \in Graph, NEW id, NEW i \in Items, NEW b \in BOOLEAN
  PROVE  /\ TickIn(g, id, i, b) \in Graph /\ TickIn(g, id, i, b).zones = g.zones
         /\ \A s \in TickIn(g, id, i, b).rows : \E r \in g.rows :
              /\ (r.id = id => s = Ticked(r, i, b)) /\ (r.id # id => s = r)
              /\ s.id = r.id /\ s.zone = r.zone /\ s.detail = r.detail /\ s.items = r.items
              /\ s.isNew = r.isNew
              /\ r.checked \subseteq r.items => s.checked \subseteq s.items
         /\ \A r \in g.rows : \E s \in TickIn(g, id, i, b).rows :
              s.id = r.id /\ (r.id # id => s.checked = r.checked)
<1> DEFINE h == TickIn(g, id, i, b)
           T(r) == IF r.id = id THEN Ticked(r, i, b) ELSE r
<1>1. g.rows \subseteq Row /\ g.zones \subseteq Zones
  BY DEF Graph
<1>2. h.zones = g.zones /\ h.rows = {T(r) : r \in g.rows}
  BY DEF TickIn, Graph
<1>3. ASSUME NEW r \in g.rows
      PROVE  /\ T(r) \in Row
             /\ T(r).id = r.id /\ T(r).zone = r.zone /\ T(r).detail = r.detail
             /\ T(r).items = r.items /\ T(r).isNew = r.isNew
             /\ r.checked \subseteq r.items => T(r).checked \subseteq r.items
             /\ r.id # id => T(r).checked = r.checked
  BY <1>1, TickedType, TickedRow
<1>4. h \in Graph
  <2>1. h = [zones |-> h.zones, rows |-> h.rows]
    BY DEF TickIn, Graph
  <2>2. QED  BY <1>1, <1>2, <1>3, <2>1 DEF Graph
<1>5. \A r \in g.rows : (r.id = id => T(r) = Ticked(r, i, b)) /\ (r.id # id => T(r) = r)
  OBVIOUS
<1> HIDE DEF T
<1>6. QED
  <2>1. ASSUME NEW s \in h.rows
        PROVE  \E r \in g.rows :
                 /\ (r.id = id => s = Ticked(r, i, b)) /\ (r.id # id => s = r)
                 /\ s.id = r.id /\ s.zone = r.zone /\ s.detail = r.detail /\ s.items = r.items
                 /\ s.isNew = r.isNew
                 /\ r.checked \subseteq r.items => s.checked \subseteq s.items
    BY <1>2, <1>3, <1>5
  <2>2. ASSUME NEW r \in g.rows
        PROVE  \E s \in h.rows : s.id = r.id /\ (r.id # id => s.checked = r.checked)
    BY <1>2, <1>3
  <2>3. QED  BY <1>2, <1>4, <2>1, <2>2

(* Ticking keeps a graph coherent.                                          *)
LEMMA TickInCoherent ==
  ASSUME NEW g \in Graph, Coherent(g), NEW id, NEW i \in Items, NEW b \in BOOLEAN
  PROVE  Coherent(TickIn(g, id, i, b))
<1>1. TickIn(g, id, i, b).zones = g.zones
  BY TickInRows
<1>2. ASSUME NEW s \in TickIn(g, id, i, b).rows
      PROVE  \E r \in g.rows :
               /\ (r.id = id => s = Ticked(r, i, b)) /\ (r.id # id => s = r)
               /\ s.id = r.id /\ s.zone = r.zone
               /\ r.checked \subseteq r.items => s.checked \subseteq s.items
  BY TickInRows
<1>3. QED  BY <1>1, <1>2 DEF Coherent

----------------------------------------------------------------------------
(* Type correctness.                                                        *)

(* Nothing is seen of a server before a fetch.                              *)
LEMMA UnseenType == Unseen \in Versions
  BY DEF Unseen, Versions

(* The empty tasksheet is a graph, and coherent.                            *)
LEMMA EmptyType == EmptyGraph \in Graph /\ Coherent(EmptyGraph)
  BY DEF EmptyGraph, Graph, Coherent

(* The initial state has the types of TypeOK.                               *)
LEMMA TypeInit == Init => TypeOK
<1> SUFFICES ASSUME Init PROVE TypeOK
  OBVIOUS
<1>1. /\ stage \in [Refreshes -> {"free", "fetching", "reloading"}]
      /\ asOf \in Versions /\ updated = FALSE
  BY UnseenType DEF Init
<1>5. seen = [k \in Refreshes |-> Unseen]
  BY DEF Init
<1>6. seen \in [Refreshes -> Versions]
  BY <1>5, UnseenType
<1>2. /\ saved \in Graph /\ shown \in Graph /\ server \in Server
      /\ changes \in 0 .. MaxChanges
  BY EmptyType, TasksheetAssumption DEF Init
<1>3. /\ up = FALSE /\ spinning = FALSE /\ alert = {} /\ card = "hidden"
      /\ completing = NoRequest
  BY DEF Init
<1>4. QED  BY <1>1, <1>2, <1>3, <1>6 DEF TypeOK

(* What a fetch has seen stays a set of nodes for every request.            *)
LEMMA SeenNodes ==
  ASSUME TypeOK, NEW id \in Requests, NEW node \in Nodes \union {Nothing}, Change(id, node)
  PROVE  server' \in Server /\ seen' \in [Refreshes -> Versions]
  BY DEF TypeOK, Change, Server, Versions

(* A fetch begins with what the nodes are.                                  *)
LEMMA BeginType ==
  ASSUME TypeOK, NEW k \in Refreshes, BeginFetch(k)
  PROVE  /\ stage' \in [Refreshes -> {"free", "fetching", "reloading"}]
         /\ seen' \in [Refreshes -> Versions]
<1>1. [id \in Requests |-> {server[id]}] \in Versions
  BY DEF TypeOK, Server, Versions
<1>2. QED  BY <1>1 DEF TypeOK, BeginFetch

(* The end of the process leaves well-typed variables.                      *)
LEMMA DownType ==
  ASSUME TypeOK, Down
  PROVE  /\ up' = FALSE /\ shown' \in Graph
         /\ stage' \in [Refreshes -> {"free", "fetching", "reloading"}]
         /\ seen' \in [Refreshes -> Versions]
         /\ spinning' = FALSE /\ alert' = {} /\ card' = "hidden" /\ completing' = NoRequest
  BY UnseenType, EmptyType DEF Down

(* Every action preserves the types.                                        *)
LEMMA TypeStep == TypeOK /\ Coherent(saved) /\ [Next]_vars => TypeOK'
<1> SUFFICES ASSUME TypeOK, Coherent(saved), [Next]_vars PROVE TypeOK'
  OBVIOUS
<1>0. saved.rows \subseteq Row /\ shown.rows \subseteq Row
  BY DEF TypeOK, Graph
<1>1. ASSUME NEW k \in Refreshes, Launch(k) PROVE TypeOK'
  BY <1>1, BeginType DEF Launch, TypeOK
<1>2. ASSUME NEW k \in Refreshes, Pull(k) PROVE TypeOK'
  BY <1>2, BeginType DEF Pull, TypeOK
<1>3. ASSUME NEW k \in Refreshes, Lost(k) PROVE TypeOK'
  BY <1>3, UnseenType DEF Lost, TypeOK
<1>4. ASSUME NEW k \in Refreshes, Deliver(k) PROVE TypeOK'
  <2>1. PICK f \in Deliverable(Assigned, seen[k]) : saved' = Merge(saved, f) /\ DeliverWith(k, f)
    BY <1>4, Delivers
  <2>2. saved' \in Graph
    BY <2>1, DeliverableFetchable, MergeCoherent DEF TypeOK
  <2>3. QED  BY <2>1, <2>2, UnseenType DEF DeliverWith, TypeOK
<1>5. ASSUME NEW k \in Refreshes, KilledInUpdate(k) PROVE TypeOK'
  <2>1. saved' \in Graph
    BY <1>5, MixtureCutShort DEF KilledInUpdate
  <2>2. asOf' \in Versions
    BY <1>5 DEF KilledInUpdate, TypeOK, Versions
  <2>3. UNCHANGED <<server, changes>> /\ updated' = FALSE /\ Down
    BY <1>5 DEF KilledInUpdate
  <2>4. QED  BY <2>1, <2>2, <2>3, DownType DEF TypeOK
<1>6. ASSUME NEW k \in Refreshes, Reload(k) PROVE TypeOK'
  BY <1>0, <1>6 DEF Reload, TypeOK
<1>7. ASSUME NEW k \in Refreshes, ShowResult(k) PROVE TypeOK'
  BY <1>7, BeginType DEF ShowResult, TypeOK
<1>8. ASSUME NEW row \in shown.rows, completionBtnClicked(row) PROVE TypeOK'
  BY <1>0, <1>8 DEF completionBtnClicked, TypeOK
<1>9. ASSUME NEW row \in shown.rows, NEW item \in Items, toggledItemCheck(row, item)
      PROVE  TypeOK'
  BY <1>9, TickInRows DEF toggledItemCheck, TypeOK
<1>10. CASE Cancel
  BY <1>10 DEF Cancel, TypeOK
<1>11. ASSUME NEW row \in alert, Confirm(row) PROVE TypeOK'
  <2>1. row.id \in Requests
    BY DEF TypeOK, Row
  <2>2. QED  BY <1>11, <2>1, TasksheetAssumption DEF Confirm, TypeOK
<1>12. CASE Removed
  <2>1. completing \in Requests
    BY <1>12 DEF Removed, TypeOK
  <2>2. server' \in Server /\ seen' \in [Refreshes -> Versions]
    BY <1>12, <2>1, SeenNodes DEF Removed, TypeOK
  <2>3. QED  BY <1>12, <2>2 DEF Removed, TypeOK
<1>13. CASE HideResult
  BY <1>13 DEF HideResult, TypeOK
<1>14. CASE Crash
  BY <1>14, DownType DEF Crash, TypeOK
<1>15. CASE Kill
  <2>1. server' \in Server
    BY <1>15 DEF Kill, TypeOK, Server
  <2>2. QED  BY <1>15, <2>1, DownType DEF Kill, TypeOK
<1>16. CASE ServerChanges
  <2>1. server' \in Server /\ seen' \in [Refreshes -> Versions]
    BY <1>16, SeenNodes DEF ServerChanges
  <2>2. changes' \in 0 .. MaxChanges
    BY <1>16, TasksheetAssumption DEF ServerChanges, TypeOK
  <2>3. QED  BY <1>16, <2>1, <2>2 DEF ServerChanges, TypeOK
<1>17. CASE UNCHANGED vars
  BY <1>17 DEF vars, TypeOK
<1>18. QED
  BY <1>1, <1>2, <1>3, <1>4, <1>5, <1>6, <1>7, <1>8, <1>9, <1>10, <1>11, <1>12, <1>13,
     <1>14, <1>15, <1>16, <1>17 DEF Next

----------------------------------------------------------------------------
(* The inductive invariant, in named parts.                                 *)

NoneReloading == \A k \in Refreshes : stage[k] # "reloading"

(* Nothing is under way while the process does not run.                     *)
DownIsIdle == ~up => \A k \in Refreshes : stage[k] = "free"

(* If one reload is due and no other, it shows what is new as new.          *)
NewToShow ==
  \A k \in Refreshes :
    stage[k] = "reloading" /\ (\A j \in Refreshes \ {k} : stage[j] # "reloading") =>
      \A r \in saved.rows : Identified(shown, r.id) = {} => r.isNew

(* While the cell of an alert was not reused, its row is all checked.       *)
AlertChecked == \A row \in alert : alert = {row} => AllChecked(row)

Inv ==
  /\ TypeOK
  /\ Coherent(saved)
  /\ DownIsIdle
  /\ ShownIsSaved
  /\ NewToShow
  /\ AlertChecked
  /\ SavedWasThere
  /\ EverythingListed

(* All parts hold at first.                                                 *)
LEMMA InvInit == Init => Inv
  BY TypeInit, EmptyType
     DEF Init, Inv, DownIsIdle, ShownIsSaved, NewToShow, AlertChecked, SavedWasThere,
         EverythingListed, EmptyGraph, Unseen

(* Three actions change what is saved.                                      *)
LEMMA SavedChanges ==
  ASSUME [Next]_vars
  PROVE  \/ \E k \in Refreshes : Deliver(k) \/ KilledInUpdate(k)
         \/ \E row \in shown.rows, item \in Items : toggledItemCheck(row, item)
         \/ UNCHANGED <<saved, asOf>> /\ updated' \in {updated, FALSE}
  BY DEF Next, vars, Launch, Pull, Lost, Reload, ShowResult, completionBtnClicked, Cancel,
         Confirm, Removed, HideResult, Crash, Kill, ServerChanges

(* A tick changes check marks on display and saved, and nothing else.       *)
LEMMA Toggles ==
  ASSUME TypeOK, NEW row \in shown.rows, NEW item \in Items, toggledItemCheck(row, item)
  PROVE  /\ \A s \in saved'.rows : \E r \in saved.rows :
              s.id = r.id /\ s.detail = r.detail /\ s.items = r.items /\ s.isNew = r.isNew
         /\ \A r \in saved.rows : \E s \in saved'.rows :
              s.id = r.id /\ (r.id # row.id => s.checked = r.checked)
         /\ \A r \in shown.rows : \E s \in shown'.rows : s.id = r.id
         /\ shown = saved => shown' = saved'
         /\ UNCHANGED <<up, stage, alert, asOf, updated>>
<1> DEFINE b == item \notin row.checked
<1>1. /\ saved' = TickIn(saved, row.id, item, b) /\ shown' = TickIn(shown, row.id, item, b)
      /\ UNCHANGED <<up, stage, alert, asOf, updated>>
  BY DEF toggledItemCheck
<1>2. b \in BOOLEAN /\ saved \in Graph /\ shown \in Graph
  BY DEF TypeOK
<1> HIDE DEF b
<1>3. \A s \in saved'.rows : \E r \in saved.rows :
        s.id = r.id /\ s.detail = r.detail /\ s.items = r.items /\ s.isNew = r.isNew
  BY <1>1, <1>2, TickInRows
<1>4. \A r \in saved.rows : \E s \in saved'.rows :
        s.id = r.id /\ (r.id # row.id => s.checked = r.checked)
  BY <1>1, <1>2, TickInRows
<1>5. \A r \in shown.rows : \E s \in shown'.rows : s.id = r.id
  BY <1>1, <1>2, TickInRows
<1>6. QED  BY <1>1, <1>3, <1>4, <1>5

(* Updates, whole or cut off, and ticks keep the saved requests coherent.   *)
LEMMA CoherentStep == Inv /\ [Next]_vars => Coherent(saved)'
<1> SUFFICES ASSUME Inv, [Next]_vars PROVE Coherent(saved')
  BY DEF Coherent
<1> USE DEF Inv
<1>1. ASSUME NEW k \in Refreshes, Deliver(k) PROVE Coherent(saved')
  BY <1>1, Delivers, DeliverableFetchable, MergeCoherent DEF TypeOK
<1>2. ASSUME NEW k \in Refreshes, KilledInUpdate(k) PROVE Coherent(saved')
  BY <1>2, MixtureCutShort DEF KilledInUpdate
<1>3. ASSUME NEW row \in shown.rows, NEW item \in Items, toggledItemCheck(row, item)
      PROVE  Coherent(saved')
  BY <1>3, TickInCoherent DEF toggledItemCheck, TypeOK
<1>4. QED  BY <1>1, <1>2, <1>3, SavedChanges

(* A row still matches what it matched after being seen or ticked.          *)
LEMMA StillMatches ==
  ASSUME NEW r, NEW s, NEW c, Matches(r, c),
         s.id = r.id, s.detail = r.detail, s.items = r.items
  PROVE  Matches(s, c)
  BY DEF Matches

(* Every row an update leaves is true of a node its fetch has seen.         *)
LEMMA MergedWasThere ==
  ASSUME NEW g \in Graph, NEW versions, NEW f \in Deliverable(Assigned, versions),
         NEW r \in Merge(g, f).rows
  PROVE  \E node \in versions[r.id] : IsReadable(node) /\ Matches(r, CopyOf(r.id, node))
<1>0. /\ g.rows \subseteq Row /\ f.copies \subseteq Copies
      /\ \A c \in f.copies : \E node \in versions[c.id] :
           IsReadable(node) /\ c = CopyOf(c.id, node)
  BY DEF Deliverable, Fetchable, ZoneList, Graph
<1>1. CASE \E s \in g.rows : Listed(s, f) /\ r = Seen(s)
  <2>1. PICK s \in g.rows : Listed(s, f) /\ r = Seen(s)
    BY <1>1
  <2>2. r.id = s.id /\ r.detail = s.detail /\ r.items = s.items
    BY <1>0, <2>1 DEF Seen, Row
  <2>3. PICK c \in f.copies : Matches(s, c)
    BY <2>1 DEF Listed
  <2>4. Matches(r, c) /\ c.id = r.id
    BY <2>2, <2>3 DEF Matches
  <2>5. QED  BY <1>0, <2>4
<1>2. CASE \E c \in f.copies : ~Known(c, g) /\ r = NewRow(c, ZoneOf[c.id])
  <2>1. PICK c \in f.copies : r = NewRow(c, ZoneOf[c.id])
    BY <1>2
  <2>2. r.id = c.id /\ r.detail = c.detail /\ r.items = c.items
    BY <2>1 DEF NewRow
  <2>3. Matches(r, c)
    BY <2>2 DEF Matches
  <2>4. QED  BY <1>0, <2>2, <2>3
<1>3. QED  BY <1>1, <1>2, MergedRow

(* Nothing older than the fetch of an update survives it.                   *)
LEMMA WasThereStep == Inv /\ [Next]_vars => SavedWasThere'
<1> SUFFICES ASSUME Inv, [Next]_vars PROVE SavedWasThere'
  OBVIOUS
<1> USE DEF Inv
<1>1. ASSUME NEW k \in Refreshes, Deliver(k) PROVE SavedWasThere'
  <2>1. PICK f \in Deliverable(Assigned, seen[k]) : saved' = Merge(saved, f) /\ asOf' = seen[k]
    BY <1>1, Delivers DEF DeliverWith
  <2>2. QED  BY <2>1, MergedWasThere DEF SavedWasThere, TypeOK
<1>2. ASSUME NEW k \in Refreshes, KilledInUpdate(k) PROVE SavedWasThere'
  <2>1. PICK f \in Deliverable(Assigned, seen[k]) : saved' \in Mixtures(saved, f)
    BY <1>2 DEF KilledInUpdate
  <2>2. saved'.rows \subseteq saved.rows \union Merge(saved, f).rows /\ saved' \in Graph
    BY <2>1, MixtureCutShort DEF CutShort
  <2>3. ASSUME NEW r \in saved'.rows
        PROVE  \E node \in asOf[r.id] \union seen[k][r.id] :
                 IsReadable(node) /\ Matches(r, CopyOf(r.id, node))
    BY <2>2, MergedWasThere DEF SavedWasThere, TypeOK
  <2>4. \A r \in saved'.rows : asOf'[r.id] = asOf[r.id] \union seen[k][r.id]
    BY <1>2, <2>2 DEF KilledInUpdate, Graph, Row
  <2>5. QED  BY <2>3, <2>4 DEF SavedWasThere
<1>3. ASSUME NEW row \in shown.rows, NEW item \in Items, toggledItemCheck(row, item)
      PROVE  SavedWasThere'
  <2>1. /\ asOf' = asOf
        /\ \A s \in saved'.rows : \E r \in saved.rows :
             s.id = r.id /\ s.detail = r.detail /\ s.items = r.items
    BY <1>3, Toggles
  <2>2. QED  BY <2>1, StillMatches DEF SavedWasThere
<1>4. QED  BY <1>1, <1>2, <1>3, SavedChanges DEF SavedWasThere

(* What was there throughout a fetch is saved by its update and stays so.   *)
LEMMA ListedStep == Inv /\ [Next]_vars => EverythingListed'
<1> SUFFICES ASSUME Inv, [Next]_vars PROVE EverythingListed'
  OBVIOUS
<1> USE DEF Inv
<1>1. ASSUME NEW k \in Refreshes, Deliver(k) PROVE EverythingListed'
  <2>1. PICK f \in Deliverable(Assigned, seen[k]) : saved' = Merge(saved, f) /\ asOf' = seen[k]
    BY <1>1, Delivers DEF DeliverWith
  <2>2. ASSUME NEW id \in Requests, ZoneOf[id] \in Assigned,
               \A node \in seen[k][id] : IsReadable(node)
        PROVE  \E r \in saved'.rows : r.id = id
    <3>1. PICK c \in f.copies : c.id = id
      BY <2>2 DEF Deliverable
    <3>2. QED  BY <2>1, <3>1, CopySaved, DeliverableFetchable DEF TypeOK
  <2>3. QED  BY <2>1, <2>2 DEF EverythingListed, Identified
<1>2. ASSUME NEW k \in Refreshes, KilledInUpdate(k) PROVE EverythingListed'
  BY <1>2 DEF KilledInUpdate, EverythingListed
<1>3. ASSUME NEW row \in shown.rows, NEW item \in Items, toggledItemCheck(row, item)
      PROVE  EverythingListed'
  <2>1. /\ UNCHANGED <<asOf, updated>>
        /\ \A r \in saved.rows : \E s \in saved'.rows : s.id = r.id
    BY <1>3, Toggles
  <2>2. QED  BY <2>1 DEF EverythingListed, Identified
<1>4. QED  BY <1>1, <1>2, <1>3, SavedChanges DEF EverythingListed, Identified

(* What an action does to the screen and the refreshes, by cases: it leaves *)
(* the tasksheet alone and starts or loses a fetch, or does neither.        *)
LEMMA ScreenChanges ==
  ASSUME [Next]_vars
  PROVE  \/ \E k \in Refreshes : Launch(k) \/ Deliver(k) \/ Reload(k)
         \/ \E row \in shown.rows, item \in Items : toggledItemCheck(row, item)
         \/ Down
         \/ /\ UNCHANGED <<up, shown, saved>>
            /\ \/ UNCHANGED stage
               \/ \E k \in Refreshes : BeginFetch(k) /\ up
               \/ \E k \in Refreshes : /\ stage[k] = "fetching"
                                        /\ stage' = [stage EXCEPT ![k] = "free"]
  BY DEF Next, vars, Pull, Lost, ShowResult, completionBtnClicked, Cancel, KilledInUpdate,
         Confirm, Removed, HideResult, Crash, Kill, ServerChanges, Touchable, Running

(* Fetches and reloads happen in a process that runs.                       *)
LEMMA IdleStep == Inv /\ [Next]_vars => DownIsIdle'
<1> SUFFICES ASSUME Inv, [Next]_vars PROVE DownIsIdle'
  OBVIOUS
<1> USE DEF Inv, DownIsIdle
<1>1. ASSUME NEW k \in Refreshes, Launch(k) \/ Deliver(k) \/ Reload(k) PROVE DownIsIdle'
  BY <1>1, Delivers DEF Launch, Reload, DeliverWith, Running
<1>2. ASSUME NEW row \in shown.rows, NEW item \in Items, toggledItemCheck(row, item)
      PROVE  DownIsIdle'
  BY <1>2, Toggles
<1>3. CASE Down
  BY <1>3 DEF Down
<1>4. CASE /\ UNCHANGED <<up, shown, saved>>
           /\ \/ UNCHANGED stage
              \/ \E k \in Refreshes : BeginFetch(k) /\ up
              \/ \E k \in Refreshes : /\ stage[k] = "fetching"
                                       /\ stage' = [stage EXCEPT ![k] = "free"]
  BY <1>4 DEF TypeOK
<1>5. QED  BY <1>1, <1>2, <1>3, <1>4, ScreenChanges

(* The tasksheet on display follows the saved one.                          *)
LEMMA ShownStep == Inv /\ [Next]_vars => ShownIsSaved'
<1> SUFFICES ASSUME Inv, [Next]_vars PROVE ShownIsSaved'
  OBVIOUS
<1> USE DEF Inv, ShownIsSaved
<1>1. ASSUME NEW k \in Refreshes, Launch(k) PROVE ShownIsSaved'
  BY <1>1 DEF Launch
<1>2. ASSUME NEW k \in Refreshes, Deliver(k) PROVE ShownIsSaved'
  <2>1. stage' = [stage EXCEPT ![k] = "reloading"]
    BY <1>2, Delivers DEF DeliverWith
  <2>2. stage'[k] = "reloading"
    BY <2>1 DEF TypeOK
  <2>3. QED  BY <2>2
<1>3. ASSUME NEW k \in Refreshes, Reload(k) PROVE ShownIsSaved'
  BY <1>3 DEF Reload
<1>4. ASSUME NEW row \in shown.rows, NEW item \in Items, toggledItemCheck(row, item)
      PROVE  ShownIsSaved'
  BY <1>4, Toggles
<1>5. CASE Down
  BY <1>5 DEF Down
<1>6. CASE /\ UNCHANGED <<up, shown, saved>>
           /\ \/ UNCHANGED stage
              \/ \E k \in Refreshes : BeginFetch(k) /\ up
              \/ \E k \in Refreshes : /\ stage[k] = "fetching"
                                       /\ stage' = [stage EXCEPT ![k] = "free"]
  BY <1>6 DEF TypeOK, BeginFetch
<1>7. QED  BY <1>1, <1>2, <1>3, <1>4, <1>5, <1>6, ScreenChanges

(* What one update adds is still new when the table is reloaded.            *)
LEMMA NewStep == Inv /\ [Next]_vars => NewToShow'
<1> SUFFICES ASSUME Inv, [Next]_vars PROVE NewToShow'
  OBVIOUS
<1> USE DEF Inv
<1>1. ASSUME NEW k \in Refreshes, Launch(k) PROVE NewToShow'
  BY <1>1 DEF Launch, NewToShow, Identified
<1>2. ASSUME NEW k \in Refreshes, Deliver(k) PROVE NewToShow'
  <2>1. PICK f \in Deliverable(Assigned, seen[k]) : saved' = Merge(saved, f) /\ DeliverWith(k, f)
    BY <1>2, Delivers
  <2>2. /\ up /\ shown' = shown /\ stage[k] = "fetching"
        /\ stage'[k] = "reloading"
        /\ \A j \in Refreshes \ {k} : stage'[j] = stage[j]
    BY <2>1 DEF DeliverWith, Running, TypeOK
  <2>3. SUFFICES ASSUME \A j \in Refreshes \ {k} : stage'[j] # "reloading",
                        NEW r \in saved'.rows, Identified(shown, r.id) = {}
                 PROVE  r.isNew
    BY <2>2 DEF NewToShow, Identified
  <2>4. shown = saved
    BY <2>2, <2>3 DEF ShownIsSaved
  <2>5. ASSUME NEW s \in saved.rows, r = Seen(s) PROVE FALSE
    <3>1. s \in Row
      BY DEF TypeOK, Graph
    <3>2. r.id = s.id
      BY <2>5, <3>1, SeenType
    <3>3. QED  BY <2>3, <2>4, <3>2 DEF Identified
  <2>6. \E c \in f.copies : r = NewRow(c, ZoneOf[c.id])
    BY <2>1, <2>5, MergedRow
  <2>7. QED  BY <2>6 DEF NewRow
<1>3. ASSUME NEW k \in Refreshes, Reload(k) PROVE NewToShow'
  BY <1>3 DEF Reload, NewToShow, Identified
<1>4. ASSUME NEW row \in shown.rows, NEW item \in Items, toggledItemCheck(row, item)
      PROVE  NewToShow'
  <2>1. SUFFICES ASSUME NEW k \in Refreshes, stage'[k] = "reloading",
                        \A j \in Refreshes \ {k} : stage'[j] # "reloading",
                        NEW s \in saved'.rows, Identified(shown', s.id) = {}
                 PROVE  s.isNew
    BY DEF NewToShow, Identified
  <2>2. PICK r \in saved.rows : s.id = r.id /\ s.isNew = r.isNew
    BY <1>4, Toggles
  <2>3. Identified(shown, r.id) = {}
    BY <1>4, <2>1, <2>2, Toggles DEF Identified
  <2>4. stage' = stage
    BY <1>4, Toggles
  <2>5. QED  BY <2>1, <2>2, <2>3, <2>4 DEF NewToShow
<1>5. CASE Down
  BY <1>5 DEF Down, NewToShow
<1>6. CASE /\ UNCHANGED <<up, shown, saved>>
           /\ \/ UNCHANGED stage
              \/ \E k \in Refreshes : BeginFetch(k) /\ up
              \/ \E k \in Refreshes : /\ stage[k] = "fetching"
                                       /\ stage' = [stage EXCEPT ![k] = "free"]
  <2>1. \A k \in Refreshes : stage'[k] = "reloading" <=> stage[k] = "reloading"
    BY <1>6 DEF TypeOK, BeginFetch
  <2>2. QED  BY <1>6, <2>1 DEF NewToShow, Identified
<1>7. QED  BY <1>1, <1>2, <1>3, <1>4, <1>5, <1>6, ScreenChanges

(* The alert is opened on a row with all items checked, and only a reload   *)
(* gives its cell other rows.                                               *)
LEMMA AlertStep == Inv /\ [Next]_vars => AlertChecked'
<1> SUFFICES ASSUME Inv, [Next]_vars PROVE AlertChecked'
  OBVIOUS
<1>1. \/ alert' = alert \/ alert' = {}
      \/ \E row \in shown.rows : alert' = {row} /\ AllChecked(row)
      \/ alert # {} /\ alert' = alert \union saved.rows
  BY DEF Next, vars, Launch, Pull, Lost, Deliver, DeliverWith, KilledInUpdate, Reload,
         ShowResult, completionBtnClicked, toggledItemCheck, Cancel, Confirm, Removed,
         HideResult, Crash, Kill, ServerChanges, Down
<1>2. QED  BY <1>1 DEF Inv, AlertChecked, AllChecked

(* Every step preserves every part.                                         *)
LEMMA InvStep == Inv /\ [Next]_vars => Inv'
  BY TypeStep, CoherentStep, IdleStep, ShownStep, NewStep, AlertStep, WasThereStep, ListedStep
     DEF Inv

(* The invariant, from which the theorems follow.                           *)
LEMMA Invariance == Spec => []Inv
<1>1. Init => Inv
  BY InvInit
<1>2. Inv /\ [Next]_vars => Inv'
  BY InvStep
<1>3. QED  BY <1>1, <1>2, PTL DEF Spec

----------------------------------------------------------------------------
(* The theorems.                                                            *)

(* Every variable keeps its type; in particular a removal is always under   *)
(* way for some request (RequestDetailCell, LandingViewController).         *)
THEOREM TypeCorrect == Spec => []TypeOK
  BY Invariance, PTL DEF Inv

(* The table shows the saved requests, check marks included, whenever no    *)
(* reload is due (updateTableView, toggledItemCheck with markChecked).      *)
THEOREM DisplayIsSaved == Spec => []ShownIsSaved
  BY Invariance, PTL DEF Inv

(* Nothing that the server did not hold during the last fetch is saved      *)
(* (updateZoneRequests deletes what it finds no match for).                 *)
THEOREM NothingStale == Spec => []SavedWasThere
  BY Invariance, PTL DEF Inv

(* What the server held throughout the last fetch is saved                  *)
(* (updateZoneRequests adds what it did not match).                         *)
THEOREM NothingMissing == Spec => []EverythingListed
  BY Invariance, PTL DEF Inv

(* completeRequest runs for a request whose items are all checked, if the   *)
(* table was not reloaded under the alert (completionBtnClicked).           *)
THEOREM CompletesChecked == Spec => CompletedWasChecked
<1>1. Inv /\ [Next]_vars =>
        [\A row \in alert : Confirm(row) /\ alert = {row} => AllChecked(row)]_vars
  BY DEF Inv, AlertChecked
<1>2. QED  BY Invariance, <1>1, PTL DEF Spec, CompletedWasChecked

(* A request that appears on display is marked as new, if no two reloads    *)
(* were due (addRequestToZoneRequest, markRequestAsOld, updateTableView).   *)
THEOREM AppearsAsNew == Spec => FirstShownAsNew
<1> DEFINE A == \A k \in Refreshes :
                  Reload(k) /\ (\A j \in Refreshes \ {k} : stage[j] # "reloading") =>
                    \A r \in shown'.rows : Identified(shown, r.id) = {} => r.isNew
<1>1. Inv /\ [Next]_vars => [A]_vars
  BY DEF Inv, NewToShow, Reload
<1>2. QED  BY Invariance, <1>1, PTL DEF Spec, FirstShownAsNew

(* A list cannot lack a request that was there, unchanged, throughout.      *)
LEMMA SteadyListed ==
  ASSUME Inv, NEW k \in Refreshes, stage[k] = "fetching",
         NEW f \in Deliverable(Assigned, seen[k]),
         NEW r \in saved.rows, ZoneOf[r.id] \in Assigned, Steady(r)
  PROVE  Listed(r, f)
<1>1. r \in Row /\ r.zone = ZoneOf[r.id]
  BY DEF Inv, TypeOK, Graph, Coherent
<1>2. r.id \in Requests
  BY <1>1 DEF Row
<1>3. \A node \in seen[k][r.id] : IsReadable(node) /\ Matches(r, CopyOf(r.id, node))
  BY DEF Steady
<1>4. PICK c \in f.copies : c.id = r.id
  BY <1>2, <1>3 DEF Deliverable
<1>5. PICK node \in seen[k][c.id] : c = CopyOf(c.id, node)
  BY DEF Deliverable
<1>6. Matches(r, c)
  BY <1>3, <1>4, <1>5
<1>7. QED  BY <1>1, <1>4, <1>6 DEF Listed

(* The step of the next theorem, for one saved row.                         *)
LEMMA TicksStep ==
  ASSUME Inv, Next, NEW r \in saved.rows, ZoneOf[r.id] \in Assigned, Steady(r)
  PROVE  \E s \in saved'.rows :
           /\ s.id = r.id
           /\ \/ s.checked = r.checked
              \/ \E row \in Identified(shown, r.id) :
                   \E item \in Items : toggledItemCheck(row, item)
<1>0. r \in Row /\ saved \in Graph
  BY DEF Inv, TypeOK, Graph
<1>1. ASSUME NEW k \in Refreshes, Deliver(k)
      PROVE  \E s \in saved'.rows : s.id = r.id /\ s.checked = r.checked
  <2>1. PICK f \in Deliverable(Assigned, seen[k]) : saved' = Merge(saved, f) /\ DeliverWith(k, f)
    BY <1>1, Delivers
  <2>2. Listed(r, f)
    BY <2>1, SteadyListed DEF DeliverWith
  <2>3. QED  BY <1>0, <2>1, <2>2, KeptByMerge, SeenType
<1>2. ASSUME NEW k \in Refreshes, KilledInUpdate(k)
      PROVE  \E s \in saved'.rows : s.id = r.id /\ s.checked = r.checked
  <2>1. PICK f \in Deliverable(Assigned, seen[k]) : saved' \in Mixtures(saved, f)
    BY <1>2 DEF KilledInUpdate
  <2>2. Listed(r, f)
    BY <1>2, <2>1, SteadyListed DEF KilledInUpdate
  <2>3. r \in saved'.rows \/ Seen(r) \in saved'.rows
    BY <2>1, <2>2, MixtureCutShort DEF CutShort
  <2>4. QED  BY <1>0, <2>3, SeenType
<1>3. ASSUME NEW row \in shown.rows, NEW item \in Items, toggledItemCheck(row, item)
      PROVE  \E s \in saved'.rows :
               /\ s.id = r.id
               /\ \/ s.checked = r.checked
                  \/ \E w \in Identified(shown, r.id) :
                       \E i \in Items : toggledItemCheck(w, i)
  <2>1. PICK s \in saved'.rows : s.id = r.id /\ (r.id # row.id => s.checked = r.checked)
    BY <1>3, Toggles DEF Inv
  <2>2. CASE r.id = row.id
    <3>1. row \in Identified(shown, r.id)
      BY <2>2 DEF Identified
    <3>2. QED  BY <1>3, <2>1, <3>1
  <2>3. QED  BY <2>1, <2>2
<1>4. QED  BY <1>1, <1>2, <1>3, SavedChanges

(* Check marks are lost only with a request that changes: not by an order   *)
(* of refreshes, not by the end of the process in the middle of an update   *)
(* (updateZoneRequests keeps the row of a request that it matches).         *)
THEOREM TicksStay == Spec => TicksOfUnchangedStay
<1> DEFINE A == \A r \in saved.rows :
                  ZoneOf[r.id] \in Assigned /\ Steady(r) =>
                    \E s \in saved'.rows :
                      /\ s.id = r.id
                      /\ \/ s.checked = r.checked
                         \/ \E row \in Identified(shown, r.id) :
                              \E item \in Items : toggledItemCheck(row, item)
<1>1. Inv /\ [Next]_vars => [A]_vars
  BY TicksStep
<1>2. QED  BY Invariance, <1>1, PTL DEF Spec, TicksOfUnchangedStay
============================================================================
