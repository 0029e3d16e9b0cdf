----------------------------- MODULE Completion -----------------------------
(***************************************************************************)
(* Completing a request: the alert of RequestDetailCell, the overlay of     *)
(* LandingViewController and the writes of markRequestAsComplete, on the    *)
(* devices of several volunteers who share zones.                           *)
(*                                                                          *)
(* markRequestAsComplete issues its writes at once and waits for none but   *)
(* the removal of the request.  Each write is a call that the server        *)
(* carries out at some later moment; the end of the process loses those not *)
(* carried out yet.  A transaction block is rerun until the server accepts  *)
(* its result, so a transaction is one step on the server's value.          *)
(*                                                                          *)
(* The counters are lowered for the items of the device's copy.  An item    *)
(* whose node of the catalogue was incomplete when the copy was read is     *)
(* missing in it, and in the row saved from it.                             *)
(***************************************************************************)
EXTENDS Naturals, FiniteSets, Functions

CONSTANTS
  Volunteers, Zones, Requests, Items,
  ZoneOf,         \* the zone of a request
  Qty,            \* per request and item: the quantity requested, 0 if none
  Catalogue,      \* items whose nodes under items/ are complete all the time
  Assigned,       \* the zones a volunteer is assigned to
  WritesCanFail,  \* whether the server may refuse a write or a read
  CanBeKilled,    \* whether the process may end
  MaxConfirms,    \* bound on the confirmations, taken together
  MaxRefreshes    \* bound on the refreshes a device has under way

ASSUME CompletionAssumption ==
  /\ IsFiniteSet(Volunteers) /\ IsFiniteSet(Requests)
  /\ ZoneOf \in [Requests -> Zones]
  /\ Qty \in [Requests -> [Items -> Nat]]
  /\ Catalogue \subseteq Items
  /\ Assigned \in [Volunteers -> SUBSET Zones]
  /\ WritesCanFail \in BOOLEAN /\ CanBeKilled \in BOOLEAN
  /\ MaxConfirms \in Nat /\ MaxRefreshes \in Nat

VARIABLES
  (* the server *)
  live,               \* nodes of requests/<zone>/<id>
  userRequests,       \* requests listed under userRequests/<sender>/<zone>
  requestCounter,     \* per zone and item; 0 stands for nil
  requested,          \* per item, over all zones
  completedRequests,  \* per volunteer
  (* the devices *)
  shown,              \* requests on the tasksheet
  alert,              \* requests the cell of the alert may hold; {}: no alert
  card,               \* the overlay resultCard, which takes all touches
  calls,              \* writes and reads issued and not carried out yet
  refreshes,          \* refreshes that have not read the server yet
  lists,              \* lists read and not on display yet
  (* history *)
  submitted,          \* requests that ever were on the server
  confirmed           \* how often the completion of a request was confirmed

counters == <<requestCounter, requested, completedRequests>>
serverVars == <<live, userRequests, counters, submitted>>
sheetVars == <<shown, refreshes, lists>>
vars == <<serverVars, sheetVars, alert, card, calls, confirmed>>

Demand(ids, item) == SumFunctionOnSet([id \in Requests |-> Qty[id][item]], ids)

InZone(ids, zone) == {id \in ids : ZoneOf[id] = zone}

Init ==
  /\ live = {} /\ userRequests = {} /\ submitted = {}
  /\ requestCounter = [s \in Zones \X Items |-> 0]
  /\ requested = [i \in Items |-> 0]
  /\ completedRequests = [v \in Volunteers |-> 0]
  /\ shown = [v \in Volunteers |-> {}]
  /\ alert = [v \in Volunteers |-> {}]
  /\ card = [v \in Volunteers |-> "hidden"]
  /\ calls = [v \in Volunteers |-> {}]
  /\ refreshes = [v \in Volunteers |-> 1]
  /\ lists = [v \in Volunteers |-> {}]
  /\ confirmed = [id \in Requests |-> 0]

(* External: the app of the elderly places a request and counts its items.  *)
Submit(id) ==
  /\ id \notin submitted
  /\ submitted' = submitted \union {id}
  /\ live' = live \union {id}
  /\ userRequests' = userRequests \union {id}
  /\ requestCounter' = [s \in Zones \X Items |->
       requestCounter[s] + (IF ZoneOf[id] = s[1] THEN Qty[id][s[2]] ELSE 0)]
  /\ requested' = [i \in Items |-> requested[i] + Qty[id][i]]
  /\ UNCHANGED <<completedRequests, sheetVars, alert, card, calls, confirmed>>

----------------------------------------------------------------------------
(* The tasksheet.                                                           *)

(* Pulling the table down; the overlay and the alert keep it from moving.   *)
refreshData(v) ==
  /\ card[v] = "hidden" /\ alert[v] = {}
  /\ refreshes[v] + Cardinality(lists[v]) < MaxRefreshes
  /\ refreshes' = [refreshes EXCEPT ![v] = @ + 1]
  /\ UNCHANGED <<serverVars, shown, lists, alert, card, calls, confirmed>>

ReadServer(v) ==
  /\ refreshes[v] > 0
  /\ refreshes' = [refreshes EXCEPT ![v] = @ - 1]
  /\ lists' = [lists EXCEPT ![v] = @ \union {{id \in live : ZoneOf[id] \in Assigned[v]}}]
  /\ UNCHANGED <<serverVars, shown, alert, card, calls, confirmed>>

(* The table is reloaded, under an alert too: the cell the alert was opened *)
(* from may be reused for any request of the new list.                      *)
Display(v, list) ==
  /\ list \in lists[v]
  /\ lists' = [lists EXCEPT ![v] = @ \ {list}]
  /\ shown' = [shown EXCEPT ![v] = list]
  /\ alert' = [alert EXCEPT ![v] = IF @ = {} THEN {} ELSE @ \union list]
  /\ UNCHANGED <<serverVars, refreshes, card, calls, confirmed>>

completionBtnClicked(v, id) ==
  /\ card[v] = "hidden" /\ alert[v] = {}
  /\ id \in shown[v]
  /\ alert' = [alert EXCEPT ![v] = {id}]
  /\ UNCHANGED <<serverVars, sheetVars, card, calls, confirmed>>

Cancel(v) ==
  /\ alert[v] # {}
  /\ alert' = [alert EXCEPT ![v] = {}]
  /\ UNCHANGED <<serverVars, sheetVars, card, calls, confirmed>>

----------------------------------------------------------------------------
(* markRequestAsComplete.                                                   *)

Call(kind, id, n) == [kind |-> kind, id |-> id, n |-> n]
ItemCall(kind, id, item, n) == [kind |-> kind, id |-> id, item |-> item, n |-> n]

RequestedItems(id) == {i \in Items : Qty[id][i] > 0}

(* Mutant: getRequestItem answers nil for complete items too, say those     *)
(* without a limit.                                                         *)
CopiedItems_any(id) == SUBSET RequestedItems(id)

(* The items a copy of the request may have: getAllItems leaves out those   *)
(* for which getRequestItem answers nil.                                    *)
CopiedItems(id) ==
  {items \in SUBSET RequestedItems(id) : RequestedItems(id) \intersect Catalogue \subseteq items}

(* Mutant: the counter over all zones is forgotten.                         *)
updateCounters_zoneOnly(id, items, n) ==
  {ItemCall("requestCounter", id, item, n) : item \in items}

(* Two transactions per item of the copy.                                   *)
updateCounters(id, items, n) ==
  {ItemCall(kind, id, item, n) : kind \in {"requestCounter", "requested"}, item \in items}

(* Mutant: the request itself is not removed.                               *)
markRequestAsComplete_notRemoved(id, items, n) ==
  updateCounters(id, items, n) \union {Call("findUserRequest", id, n), Call("credit", id, n)}

(* The nth completion.                                                      *)
markRequestAsComplete(id, items, n) ==
  updateCounters(id, items, n)
    \union {Call("findUserRequest", id, n), Call("credit", id, n), Call("remove", id, n)}

Confirmations == SumFunctionOnSet(confirmed, Requests)

(* The handler of the alert completes the request its cell holds now, with  *)
(* the items this copy of it has.                                           *)
Confirm(v, id, items) ==
  /\ id \in alert[v]
  /\ Confirmations < MaxConfirms
  /\ alert' = [alert EXCEPT ![v] = {}]
  /\ card' = [card EXCEPT ![v] = "updating"]
  /\ confirmed' = [confirmed EXCEPT ![id] = @ + 1]
  /\ calls' =
       [calls EXCEPT ![v] = @ \union markRequestAsComplete(id, items, Confirmations + 1)]
  /\ UNCHANGED <<serverVars, sheetVars>>

Done(v, call) == calls' = [calls EXCEPT ![v] = @ \ {call}]

(* Mutant: the counter is written whatever it is.                           *)
Less_unchecked(n, qty) == n - qty

(* A counter that falls to 0 or below is removed, and reads as 0 again.     *)
Less(n, qty) == IF n <= qty THEN 0 ELSE n - qty

(* Mutant: the quantity is not taken into account.                          *)
CountDown_byOne(v, call) ==
  /\ call.kind = "requestCounter"
  /\ Done(v, call)
  /\ requestCounter' =
       [requestCounter EXCEPT ![<<ZoneOf[call.id], call.item>>] = Less(@, 1)]
  /\ UNCHANGED <<live, userRequests, requested, completedRequests, submitted,
                 sheetVars, alert, card, confirmed>>

CountDown(v, call) ==
  /\ call.kind = "requestCounter"
  /\ Done(v, call)
  /\ requestCounter' =
       [requestCounter EXCEPT ![<<ZoneOf[call.id], call.item>>] = Less(@, Qty[call.id][call.item])]
  /\ UNCHANGED <<live, userRequests, requested, completedRequests, submitted,
                 sheetVars, alert, card, confirmed>>

(* Mutant: the transaction is carried out, and again when it is retried.    *)
CountDownAll_again(v, call) ==
  /\ call.kind = "requested"
  /\ \/ Done(v, call)
     \/ UNCHANGED calls
  /\ requested' = [requested EXCEPT ![call.item] = Less(@, Qty[call.id][call.item])]
  /\ UNCHANGED <<live, userRequests, requestCounter, completedRequests, submitted,
                 sheetVars, alert, card, confirmed>>

CountDownAll(v, call) ==
  /\ call.kind = "requested"
  /\ Done(v, call)
  /\ requested' = [requested EXCEPT ![call.item] = Less(@, Qty[call.id][call.item])]
  /\ UNCHANGED <<live, userRequests, requestCounter, completedRequests, submitted,
                 sheetVars, alert, card, confirmed>>

Credit(v, call) ==
  /\ call.kind = "credit"
  /\ Done(v, call)
  /\ completedRequests' = [completedRequests EXCEPT ![v] = @ + 1]
  /\ UNCHANGED <<live, userRequests, requestCounter, requested, submitted,
                 sheetVars, alert, card, confirmed>>

(* Mutant: the key that holds the request is not found.                     *)
FindUserRequest_notFound(v, call) ==
  /\ call.kind = "findUserRequest"
  /\ Done(v, call)
  /\ UNCHANGED <<serverVars, sheetVars, alert, card, confirmed>>

(* The keys under userRequests are read, and the one that holds the request *)
(* is removed by a further write.                                           *)
FindUserRequest(v, call) ==
  /\ call.kind = "findUserRequest"
  /\ calls' = [calls EXCEPT ![v] = (@ \ {call}) \union
       (IF call.id \in userRequests THEN {Call("unlist", call.id, call.n)} ELSE {})]
  /\ UNCHANGED <<serverVars, sheetVars, alert, card, confirmed>>

Unlist(v, call) ==
  /\ call.kind = "unlist"
  /\ Done(v, call)
  /\ userRequests' = userRequests \ {call.id}
  /\ UNCHANGED <<live, counters, submitted, sheetVars, alert, card, confirmed>>

(* onComplete runs whether the removal succeeded or not.                    *)
Remove(v, call) ==
  /\ call.kind = "remove"
  /\ Done(v, call)
  /\ live' = live \ {call.id}
  /\ card' = [card EXCEPT ![v] = "answered"]
  /\ UNCHANGED <<userRequests, counters, submitted, sheetVars, alert, confirmed>>

CallFails(v, call) ==
  /\ WritesCanFail
  /\ Done(v, call)
  /\ card' = IF call.kind = "remove" THEN [card EXCEPT ![v] = "answered"] ELSE card
  /\ UNCHANGED <<serverVars, sheetVars, alert, confirmed>>

Carry(v) ==
  \E call \in calls[v] :
    \/ CountDown(v, call) \/ CountDownAll(v, call) \/ Credit(v, call)
    \/ FindUserRequest(v, call) \/ Unlist(v, call) \/ Remove(v, call)
    \/ CallFails(v, call)

(* Mutant: the result is shown as soon as the writes are issued.            *)
ShowResult_early(v) ==
  /\ card[v] \in {"updating", "answered"}
  /\ card' = [card EXCEPT ![v] = "result"]
  /\ refreshes' = [refreshes EXCEPT ![v] = @ + 1]
  /\ UNCHANGED <<serverVars, shown, lists, alert, calls, confirmed>>

(* One second later "Success" is shown and the tasksheet refreshed ...      *)
ShowResult(v) ==
  /\ card[v] = "answered"
  /\ card' = [card EXCEPT ![v] = "result"]
  /\ refreshes' = [refreshes EXCEPT ![v] = @ + 1]
  /\ UNCHANGED <<serverVars, shown, lists, alert, calls, confirmed>>

(* ... and a second and a half after that the overlay goes.                 *)
HideResult(v) ==
  /\ card[v] = "result"
  /\ card' = [card EXCEPT ![v] = "hidden"]
  /\ UNCHANGED <<serverVars, sheetVars, alert, calls, confirmed>>

(* Calls are kept in memory only.  The saved tasksheet survives, and the    *)
(* next launch displays and refreshes it.                                   *)
Kill(v) ==
  /\ CanBeKilled
  /\ calls' = [calls EXCEPT ![v] = {}]
  /\ alert' = [alert EXCEPT ![v] = {}]
  /\ card' = [card EXCEPT ![v] = "hidden"]
  /\ refreshes' = [refreshes EXCEPT ![v] = 1]
  /\ lists' = [lists EXCEPT ![v] = {}]
  /\ UNCHANGED <<serverVars, shown, confirmed>>

Next ==
  \/ \E id \in Requests : Submit(id)
  \/ \E v \in Volunteers :
       \/ refreshData(v) \/ ReadServer(v) \/ \E list \in lists[v] : Display(v, list)
       \/ \E id \in shown[v] : completionBtnClicked(v, id)
       \/ Cancel(v)
       \/ \E id \in alert[v] : \E items \in CopiedItems(id) : Confirm(v, id, items)
       \/ Carry(v) \/ ShowResult(v) \/ HideResult(v)
       \/ Kill(v)

Spec == Init /\ [][Next]_vars

(* The server carries out what it was sent, and timers fire; the volunteer  *)
(* need not do anything.                                                    *)
FairSpec ==
  /\ Spec
  /\ \A v \in Volunteers : WF_vars(Carry(v) \/ ShowResult(v) \/ HideResult(v))

----------------------------------------------------------------------------
(* Properties                                                               *)

Cards == {"hidden", "updating", "answered", "result"}

Kinds == {"requestCounter", "requested", "credit", "findUserRequest", "unlist", "remove"}

TypeOK ==
  /\ live \subseteq submitted /\ userRequests \subseteq submitted
  /\ submitted \subseteq Requests
  /\ requestCounter \in [Zones \X Items -> Nat]
  /\ requested \in [Items -> Nat]
  /\ completedRequests \in [Volunteers -> Nat]
  /\ shown \in [Volunteers -> SUBSET submitted]
  /\ alert \in [Volunteers -> SUBSET submitted]
  /\ card \in [Volunteers -> Cards]
  /\ calls = [v \in Volunteers |-> calls[v]]
  /\ \A v \in Volunteers : \A call \in calls[v] :
       /\ call.kind \in Kinds /\ call.id \in submitted
       /\ call.kind \in {"requestCounter", "requested"} => call.item \in Items
  /\ refreshes \in [Volunteers -> Nat]
  /\ lists \in [Volunteers -> SUBSET SUBSET submitted]
  /\ confirmed \in [Requests -> Nat]

AllCarried == \A v \in Volunteers : calls[v] = {}

(* When every call is carried out and no request was completed twice, the   *)
(* parts of the server agree again: both counters count at least the items  *)
(* of the live requests, and these alone unless the item may be missing in  *)
(* a copy; the elderly are shown the live requests only; and every          *)
(* completion is credited once.                                             *)
SettledAfterOne ==
  AllCarried /\ (\A id \in Requests : confirmed[id] <= 1) =>
    /\ \A z \in Zones, i \in Items :
         /\ requestCounter[<<z, i>>] >= Demand(InZone(live, z), i)
         /\ i \in Catalogue => requestCounter[<<z, i>>] = Demand(InZone(live, z), i)
    /\ \A i \in Items :
         /\ requested[i] >= Demand(live, i)
         /\ i \in Catalogue => requested[i] = Demand(live, i)
    /\ userRequests = live
    /\ SumFunctionOnSet(completedRequests, Volunteers) = Cardinality(submitted \ live)

(* However often requests are completed, by one volunteer or by several at  *)
(* a time, no item of the catalogue is left counted for a request that is   *)
(* gone.  An item that was missing in the copy is: nothing counts it down.  *)
NeverOverstated ==
  AllCarried =>
    \A i \in Catalogue :
      /\ \A z \in Zones : requestCounter[<<z, i>>] <= Demand(InZone(live, z), i)
      /\ requested[i] <= Demand(live, i)

(* "Success" is shown only when the request has left the server.            *)
SuccessIsTrue ==
  \A v \in Volunteers :
    card[v] \in {"answered", "result"} =>
      \A id \in Requests :
        confirmed[id] > 0 /\ (\A w \in Volunteers \ {v} : \A call \in calls[w] : call.id # id)
          => id \notin live

(* The overlay, which takes all touches, goes again.                        *)
CompletionEnds == \A v \in Volunteers : card[v] = "updating" ~> card[v] = "hidden"

(* The items counted down if every completion counted its request once.     *)
Debited(ids, item) ==
  SumFunctionOnSet([id \in Requests |-> confirmed[id] * Qty[id][item]], ids)

(* Whatever is refused or lost, a completion counts the items of a request  *)
(* down at most once and credits at most once.                              *)
DebitedAtMostOnce ==
  /\ \A z \in Zones, i \in Items :
       requestCounter[<<z, i>>] + Debited(InZone(submitted, z), i)
         >= Demand(InZone(submitted, z), i)
  /\ \A i \in Items : requested[i] + Debited(submitted, i) >= Demand(submitted, i)
  /\ SumFunctionOnSet(completedRequests, Volunteers) <= Confirmations
=============================================================================
