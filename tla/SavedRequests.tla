--------------------------- MODULE SavedRequests ---------------------------
(***************************************************************************)
(* CDHandler and the Core Data stack under it: the tasksheet saved on the   *)
(* device.  Everything here runs on the main thread, so nothing interleaves *)
(* with an update; but an update is a long series of fetch-change-save      *)
(* calls, each save may fail, and the process may be killed between two of  *)
(* them.  One action is one pass of a loop of updateSavedRequests.          *)
(*                                                                          *)
(* The loops walk arrays sorted by zone name and creation date.  Both are   *)
(* data, so a pass takes any remaining element: every sorting is covered.   *)
(***************************************************************************)
EXTENDS RequestData

CONSTANTS
  SaveCanFail,   \* whether context.save() may throw
  ReadCanFail,   \* whether context.fetch() may throw
  NoZone         \* stands for "no zone is being processed"

ASSUME FailureAssumption == SaveCanFail \in BOOLEAN /\ ReadCanFail \in BOOLEAN
ASSUME NoZoneAssumption == NoZone \notin Zones

VARIABLES
  ctx,      \* the object graph of viewContext, unsaved changes included
  store,    \* the persistent store on disk
  pc,       \* which loop of updateSavedRequests is running
  cur,      \* the zone being processed: ozr.zoneid or zonereq.zoneid
  old,      \* oldZoneRequests: what is left to be compared
  new,      \* newZoneRequests: what is left to be matched or added
  before,   \* history: ctx when the update began
  fetched   \* history: the argument of the update

vars == <<ctx, store, pc, cur, old, new, before, fetched>>
job == <<pc, cur, old, new, before, fetched>>

Init ==
  /\ ctx = EmptyGraph
  /\ store = EmptyGraph
  /\ pc = "idle"
  /\ cur = NoZone
  /\ old = EmptyGraph
  /\ new = EmptyList
  /\ before = EmptyGraph
  /\ fetched = EmptyList

----------------------------------------------------------------------------
(* context.save() after the context became g.  A failed save is caught and  *)
(* printed: the change stays in the context.                                *)
Save(g) ==
  /\ ctx' = g
  /\ \/ store' = g
     \/ SaveCanFail /\ UNCHANGED store

(* A failed fetch is caught and printed too: the call has no effect.        *)
ReadFails == ReadCanFail /\ UNCHANGED <<ctx, store>>

(* The calls that look a request up by its identifier take the first row    *)
(* the store returns and save in any case.                                  *)
deleteRequest(id) ==
  \/ \E r \in Identified(ctx, id) : Save([ctx EXCEPT !.rows = @ \ {r}])
  \/ Identified(ctx, id) = {} /\ Save(ctx)
  \/ ReadFails

markRequestAsOld(id) ==
  \/ \E r \in Identified(ctx, id) :
       Save([ctx EXCEPT !.rows = (@ \ {r}) \union {Seen(r)}])
  \/ Identified(ctx, id) = {} /\ Save(ctx)
  \/ ReadFails

(* Mutant: the request is not linked to its zone.                           *)
addRequestToZoneRequest_unlinked(zone, copy) ==
  Save([ctx EXCEPT !.rows = @ \union {[NewRow(copy, zone) EXCEPT !.zone = NoZone]}])

addRequestToZoneRequest(zone, copy) ==
  Save([ctx EXCEPT !.rows = @ \union {NewRow(copy, zone)}])

addRequestToZoneUsingID(zone, copy) ==
  \/ zone \in ctx.zones /\ addRequestToZoneRequest(zone, copy)
  \/ zone \notin ctx.zones /\ Save(ctx)
  \/ ReadFails

(* Mutant: the predicate of the fetch is lost, and the first zone goes.     *)
deleteZoneRequest_anyZone(zone) ==
  \E z \in ctx.zones :
    Save([zones |-> ctx.zones \ {z}, rows |-> {r \in ctx.rows : r.zone # z}])

(* The relationships cascade: a zone takes its requests along.              *)
deleteZoneRequest(zone) ==
  \/ Save([zones |-> ctx.zones \ {zone}, rows |-> {r \in ctx.rows : r.zone # zone}])
  \/ ReadFails

----------------------------------------------------------------------------
(* updateSavedRequests                                                      *)

RowsOf(zone) == {r \in old.rows : r.zone = zone}
CopiesOf(zone) == {c \in new.copies : ZoneOf[c.id] = zone}

(* Answers an empty list when its fetch throws.                             *)
loadAllZoneRequests ==
  \/ old' = ctx
  \/ ReadCanFail /\ old' = EmptyGraph

BeginUpdate(f) ==
  /\ pc = "idle"
  /\ pc' = "zones"
  /\ loadAllZoneRequests
  /\ new' = f
  /\ before' = ctx
  /\ fetched' = f
  /\ UNCHANGED <<ctx, store, cur>>

(* The saved zone was fetched again: compare its requests.                  *)
EnterZone(zone) ==
  /\ pc = "zones"
  /\ zone \in old.zones \intersect new.zones
  /\ pc' = "requests"
  /\ cur' = zone
  /\ UNCHANGED <<ctx, store, old, new, before, fetched>>

(* Mutant: the deleted zone stays in oldZoneRequests.                       *)
DropZone_notRemoved(zone) ==
  /\ pc = "zones"
  /\ zone \in old.zones \ new.zones
  /\ deleteZoneRequest(zone)
  /\ UNCHANGED <<pc, cur, old, new, before, fetched>>

(* The saved zone was not fetched again: delete it.                         *)
DropZone(zone) ==
  /\ pc = "zones"
  /\ zone \in old.zones \ new.zones
  /\ old' = [zones |-> old.zones \ {zone}, rows |-> old.rows \ RowsOf(zone)]
  /\ deleteZoneRequest(zone)
  /\ UNCHANGED <<pc, cur, new, before, fetched>>

(* Mutant: the matched copy stays in nzr.requests.                          *)
MatchRequest_copyKept(row, copy) ==
  /\ pc = "requests"
  /\ row \in RowsOf(cur)
  /\ copy \in CopiesOf(cur)
  /\ Matches(row, copy)
  /\ IF row.isNew THEN markRequestAsOld(row.id) ELSE UNCHANGED <<ctx, store>>
  /\ old' = [old EXCEPT !.rows = @ \ {row}]
  /\ UNCHANGED <<pc, cur, new, before, fetched>>

(* A saved request has an equal copy: it stays, and is no longer new.       *)
MatchRequest(row, copy) ==
  /\ pc = "requests"
  /\ row \in RowsOf(cur)
  /\ copy \in CopiesOf(cur)
  /\ Matches(row, copy)
  /\ IF row.isNew THEN markRequestAsOld(row.id) ELSE UNCHANGED <<ctx, store>>
  /\ old' = [old EXCEPT !.rows = @ \ {row}]
  /\ new' = [new EXCEPT !.copies = @ \ {copy}]
  /\ UNCHANGED <<pc, cur, before, fetched>>

(* Mutant: the request leaves the array without being deleted.              *)
DropRequest_notDeleted(row) ==
  /\ pc = "requests"
  /\ row \in RowsOf(cur)
  /\ \A copy \in CopiesOf(cur) : ~Matches(row, copy)
  /\ old' = [old EXCEPT !.rows = @ \ {row}]
  /\ UNCHANGED <<ctx, store, pc, cur, new, before, fetched>>

(* A saved request has no equal copy: it is deleted.                        *)
DropRequest(row) ==
  /\ pc = "requests"
  /\ row \in RowsOf(cur)
  /\ \A copy \in CopiesOf(cur) : ~Matches(row, copy)
  /\ old' = [old EXCEPT !.rows = @ \ {row}]
  /\ deleteRequest(row.id)
  /\ UNCHANGED <<pc, cur, new, before, fetched>>

(* All saved requests of the zone are processed: add what is left of nzr.   *)
AddRequest(copy) ==
  /\ pc = "requests"
  /\ RowsOf(cur) = {}
  /\ copy \in CopiesOf(cur)
  /\ new' = [new EXCEPT !.copies = @ \ {copy}]
  /\ addRequestToZoneUsingID(cur, copy)
  /\ UNCHANGED <<pc, cur, old, before, fetched>>

LeaveZone ==
  /\ pc = "requests"
  /\ RowsOf(cur) = {}
  /\ CopiesOf(cur) = {}
  /\ old' = [old EXCEPT !.zones = @ \ {cur}]
  /\ new' = [new EXCEPT !.zones = @ \ {cur}]
  /\ pc' = "zones"
  /\ cur' = NoZone
  /\ UNCHANGED <<ctx, store, before, fetched>>

(* saveZoneRequest for a zone fetched for the first time: the zone object   *)
(* is inserted, each request is added and saved, and a last save follows.   *)
InsertZone(zone) ==
  /\ pc = "zones"
  /\ old.zones = {}
  /\ zone \in new.zones
  /\ ctx' = [ctx EXCEPT !.zones = @ \union {zone}]
  /\ pc' = "saveZone"
  /\ cur' = zone
  /\ UNCHANGED <<store, old, new, before, fetched>>

FillZone(copy) ==
  /\ pc = "saveZone"
  /\ copy \in CopiesOf(cur)
  /\ new' = [new EXCEPT !.copies = @ \ {copy}]
  /\ addRequestToZoneRequest(cur, copy)
  /\ UNCHANGED <<pc, cur, old, before, fetched>>

SaveZone ==
  /\ pc = "saveZone"
  /\ CopiesOf(cur) = {}
  /\ Save(ctx)
  /\ new' = [new EXCEPT !.zones = @ \ {cur}]
  /\ pc' = "zones"
  /\ cur' = NoZone
  /\ UNCHANGED <<old, before, fetched>>

ResetJob ==
  /\ pc' = "idle"
  /\ cur' = NoZone
  /\ old' = EmptyGraph
  /\ new' = EmptyList
  /\ before' = EmptyGraph
  /\ fetched' = EmptyList

Finished == pc = "zones" /\ old.zones = {} /\ new.zones = {}

EndUpdate ==
  /\ Finished
  /\ ResetJob
  /\ UNCHANGED <<ctx, store>>

UpdateStep ==
  \/ \E z \in Zones : EnterZone(z) \/ DropZone(z) \/ InsertZone(z)
  \/ \E r \in old.rows, c \in new.copies : MatchRequest(r, c)
  \/ \E r \in old.rows : DropRequest(r)
  \/ \E c \in new.copies : AddRequest(c) \/ FillZone(c)
  \/ LeaveZone
  \/ SaveZone
  \/ EndUpdate

----------------------------------------------------------------------------
(* The other entry points, and the life of the process.                     *)

(* Mutant: the check mark is set without a save.                            *)
markChecked_unsaved(id, item, checked) ==
  /\ pc = "idle"
  /\ \E r \in Identified(ctx, id) :
       ctx' = [ctx EXCEPT !.rows = (@ \ {r}) \union {Ticked(r, item, checked)}]
  /\ UNCHANGED store
  /\ UNCHANGED job

(* The sheet on display may be older than the context, so the request and   *)
(* the item need not be saved any more.                                     *)
markChecked(id, item, checked) ==
  /\ pc = "idle"
  /\ \/ \E r \in Identified(ctx, id) :
          Save([ctx EXCEPT !.rows = (@ \ {r}) \union {Ticked(r, item, checked)}])
     \/ Identified(ctx, id) = {} /\ Save(ctx)
     \/ ReadFails
  /\ UNCHANGED job

clearAllZoneRequests ==
  /\ pc = "idle"
  /\ \/ Save(EmptyGraph)
     \/ ReadFails
  /\ UNCHANGED job

(* The system terminates the app, possibly in the middle of an update: the  *)
(* next launch reads the store.                                             *)
Kill ==
  /\ ctx' = store
  /\ UNCHANGED store
  /\ ResetJob

(* sceneDidEnterBackground calls saveContext, which saves pending changes   *)
(* and ends the process with fatalError when it cannot.                     *)
EnterBackground ==
  /\ pc = "idle"
  /\ ctx # store
  /\ \/ store' = ctx /\ UNCHANGED <<ctx, job>>
     \/ SaveCanFail /\ Kill

Next ==
  \/ \E f \in Fetchable : BeginUpdate(f)
  \/ UpdateStep
  \/ \E id \in Requests, item \in Items, checked \in BOOLEAN :
       markChecked(id, item, checked)
  \/ clearAllZoneRequests
  \/ EnterBackground
  \/ Kill

Spec == Init /\ [][Next]_vars

(* The main thread does not stop inside an update.                          *)
FairSpec == Spec /\ WF_vars(UpdateStep)

----------------------------------------------------------------------------
(* Properties                                                               *)

TypeOK ==
  /\ ctx \in Graph
  /\ store \in Graph
  /\ pc \in {"idle", "zones", "requests", "saveZone"}
  /\ cur \in Zones \union {NoZone}
  /\ old \in Graph
  /\ new \in ZoneList
  /\ before \in Graph
  /\ fetched \in Fetchable

(* No request is ever saved twice or outside its own saved zone, in memory  *)
(* or on disk, at any point of an update: the calls that take the first row *)
(* with an identifier depend on it (deleteRequest, markRequestAsOld,        *)
(* markChecked), and so does the cascade of deleteZoneRequest.              *)
SavedCoherent == Coherent(ctx) /\ Coherent(store)

(* updateSavedRequests computes the reference update, whatever the order in *)
(* which its loops meet zones and requests and whichever saves failed.      *)
UpdateReachesMerge == Finished => ctx = Merge(before, fetched)

(* Wherever an update is cut off by the end of the process, a request that  *)
(* the server still lists is on disk with the check marks it had.           *)
KilledUpdateKeepsTicks ==
  pc # "idle" =>
    \A r \in before.rows :
      Listed(r, fetched) => r \in store.rows \/ Seen(r) \in store.rows

(* The loops of updateSavedRequests, which run until their arrays are empty *)
(* and remove elements on every path, come to an end.                       *)
UpdateTerminates == pc # "idle" ~> pc = "idle"

(* As seen from outside, the saved tasksheet changes by whole updates and   *)
(* ticks, except that the end of the process may cut an update short.       *)
sheet == IF pc = "idle" THEN ctx ELSE before

Abstract == INSTANCE TasksheetPromise WITH sheet <- sheet

ImplementsPromise == Abstract!Spec

(* "save remaining new zone requests (no match from existing zones)", says  *)
(* CDHandler.swift:292: a zone object is never inserted for a zone that is  *)
(* saved already.                                                           *)
SavedZonesAreNew ==
  [][\A z \in Zones : InsertZone(z) => z \notin ctx.zones]_vars

(* "update and reload core data", says LandingViewController.swift:64: once *)
(* the update is done, the saved requests are those of the server.          *)
UpdatedToServer ==
  Finished =>
    \A c \in fetched.copies :
      \E r \in ctx.rows : /\ r.id = c.id
                          /\ r.detail = c.detail
                          /\ r.extra = c.extra
                          /\ r.items = c.items
============================================================================
