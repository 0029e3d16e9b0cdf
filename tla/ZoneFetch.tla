----------------------------- MODULE ZoneFetch -----------------------------
(***************************************************************************)
(* One call of LandingViewController.fetchAllZoneRequests: a tree of reads  *)
(* of the Firebase database that fans out over the assigned zones, their    *)
(* requests and their items, and comes together again by counting down.     *)
(*                                                                          *)
(* Every observeSingleEvent is a pending read.  Reads are answered in any   *)
(* order, each with what the server holds at that moment, while the app of  *)
(* the elderly and other volunteers go on changing requests.                *)
(***************************************************************************)
EXTENDS ServerData, Naturals, Sequences, FiniteSets

CONSTANTS
  Assignments,       \* values of AssignedZones, split at the commas
  ReadsCanBeDenied,  \* whether a read may be cancelled without an answer
  MaxChanges         \* bound on the changes of the server

(* AssignedZones names a zone once, or is missing.                          *)
ASSUME AssignmentsAssumption ==
  \A zones \in Assignments \ {Nothing} :
    /\ zones \in Seq(Zones) \ {<<>>}
    /\ \A j, k \in DOMAIN zones : zones[j] = zones[k] => j = k

(* What a node lists is finite.                                             *)
ASSUME FiniteAssumption == IsFiniteSet(Requests) /\ IsFiniteSet(Items)

ASSUME BoundsAssumption == ReadsCanBeDenied \in BOOLEAN /\ MaxChanges \in Nat

VARIABLES
  server,    \* the node of every request
  stage,     \* "idle", "fetching", "delivered": onComplete was called;
             \* "abandoned": the guard of fetchAllZoneRequests returned
  asked,     \* zones: the list the volunteer is assigned to
  pending,   \* reads without an answer yet
  counter,   \* zones still to be answered
  reqCounter,  \* per zone of the list: requests still to be answered
  requests,    \* per zone of the list: zr.requests
  itemCounter, \* per zone and request: items still to be answered
  items,       \* per zone and request: the items that were found
  zoneRequestsArr,
  changes,   \* how often the server changed
  versions,  \* history: the nodes of every request since the fetch began
  hung       \* history: a read was refused, or a request without items read

tally == <<counter, reqCounter, requests, itemCounter, items, zoneRequestsArr>>
vars == <<server, stage, asked, pending, tally, changes, versions, hung>>

Slots == (DOMAIN asked) \X Requests

VolunteerRead == [kind |-> "volunteer"]
ZoneRead(k) == [kind |-> "zone", at |-> k]
RequestRead(k, id) == [kind |-> "request", at |-> k, id |-> id]
ItemRead(k, id, node, item) ==
  [kind |-> "item", at |-> k, id |-> id, node |-> node, item |-> item]
ElderlyRead(k, id, node) == [kind |-> "elderly", at |-> k, id |-> id, node |-> node]

Init ==
  /\ server \in Server
  /\ stage = "idle"
  /\ asked = <<>>
  /\ pending = {}
  /\ counter = 0
  /\ reqCounter = <<>>
  /\ requests = <<>>
  /\ itemCounter = [s \in {} |-> 0]
  /\ items = [s \in {} |-> {}]
  /\ zoneRequestsArr = <<>>
  /\ changes = 0
  /\ versions = [id \in Requests |-> {}]
  /\ hung = FALSE

(* retrieveZones: without a user the callback gets nil at once.             *)
Refresh ==
  /\ stage = "idle"
  /\ \/ stage' = "fetching" /\ pending' = {VolunteerRead}
     \/ stage' = "abandoned" /\ UNCHANGED pending
  /\ versions' = [id \in Requests |-> {server[id]}]
  /\ UNCHANGED <<server, asked, tally, changes, hung>>

Answer(read) == read \in pending /\ pending' = pending \ {read}

AnswerWith(read, more) == read \in pending /\ pending' = (pending \ {read}) \union more

(* The volunteer's node: fetch the listed zones, or give up.                *)
AnswerVolunteer ==
  /\ \/ /\ Nothing \in Assignments
        /\ Answer(VolunteerRead)
        /\ stage' = "abandoned"
        /\ UNCHANGED <<asked, tally>>
     \/ \E zones \in Assignments \ {Nothing} :
          /\ AnswerWith(VolunteerRead, {ZoneRead(k) : k \in DOMAIN zones})
          /\ asked' = zones
          /\ counter' = Len(zones)
          /\ reqCounter' = [k \in DOMAIN zones |-> 0]
          /\ requests' = [k \in DOMAIN zones |-> {}]
          /\ itemCounter' = [s \in Slots' |-> 0]
          /\ items' = [s \in Slots' |-> {}]
          /\ UNCHANGED <<stage, zoneRequestsArr>>
  /\ UNCHANGED <<server, changes, versions, hung>>

(* Mutant: the list goes out with the first zone.                           *)
FinishZone_first(list) ==
  /\ zoneRequestsArr' = list
  /\ counter' = counter - 1
  /\ stage' = "delivered"

(* The callback of getZoneRequests.                                         *)
FinishZone(list) ==
  /\ zoneRequestsArr' = list
  /\ counter' = counter - 1
  /\ stage' = IF counter' = 0 THEN "delivered" ELSE stage

(* Mutant: every request of a zone delivers the zone.                       *)
FinishRequest_each(k, copies) ==
  /\ requests' = [requests EXCEPT ![k] = copies]
  /\ reqCounter' = [reqCounter EXCEPT ![k] = @ - 1]
  /\ FinishZone(Append(zoneRequestsArr, [zone |-> asked[k], copies |-> copies]))

(* The callback of getRequest: copies are the requests of the zone so far.  *)
FinishRequest(k, copies) ==
  /\ requests' = [requests EXCEPT ![k] = copies]
  /\ reqCounter' = [reqCounter EXCEPT ![k] = @ - 1]
  /\ IF reqCounter'[k] = 0
     THEN FinishZone(Append(zoneRequestsArr, [zone |-> asked[k], copies |-> copies]))
     ELSE UNCHANGED <<counter, zoneRequestsArr, stage>>

Children(zone) == {id \in Requests : ZoneOf[id] = zone /\ server[id] # Nothing}

(* Mutant: an absent zone is not counted.                                   *)
AnswerZone_absentIgnored(k) ==
  /\ \/ /\ Children(asked[k]) = {}
        /\ Answer(ZoneRead(k))
        /\ UNCHANGED <<stage, tally>>
     \/ /\ Children(asked[k]) # {}
        /\ AnswerWith(ZoneRead(k), {RequestRead(k, id) : id \in Children(asked[k])})
        /\ reqCounter' = [reqCounter EXCEPT ![k] = Cardinality(Children(asked[k]))]
        /\ UNCHANGED <<stage, counter, requests, itemCounter, items, zoneRequestsArr>>
  /\ UNCHANGED <<server, asked, changes, versions, hung>>

(* Mutant: an absent zone is listed like one that lost its requests.        *)
AnswerZone_absentListed(k) ==
  /\ \/ /\ Children(asked[k]) = {}
        /\ Answer(ZoneRead(k))
        /\ FinishZone(Append(zoneRequestsArr, [zone |-> asked[k], copies |-> {}]))
        /\ UNCHANGED <<reqCounter, requests, itemCounter, items>>
     \/ /\ Children(asked[k]) # {}
        /\ AnswerWith(ZoneRead(k), {RequestRead(k, id) : id \in Children(asked[k])})
        /\ reqCounter' = [reqCounter EXCEPT ![k] = Cardinality(Children(asked[k]))]
        /\ UNCHANGED <<stage, counter, requests, itemCounter, items, zoneRequestsArr>>
  /\ UNCHANGED <<server, asked, changes, versions, hung>>

(* A zone node exists as long as it has a request.                          *)
AnswerZone(k) ==
  /\ \/ /\ Children(asked[k]) = {}
        /\ Answer(ZoneRead(k))
        /\ FinishZone(zoneRequestsArr)
        /\ UNCHANGED <<reqCounter, requests, itemCounter, items>>
     \/ /\ Children(asked[k]) # {}
        /\ AnswerWith(ZoneRead(k), {RequestRead(k, id) : id \in Children(asked[k])})
        /\ reqCounter' = [reqCounter EXCEPT ![k] = Cardinality(Children(asked[k]))]
        /\ UNCHANGED <<stage, counter, requests, itemCounter, items, zoneRequestsArr>>
  /\ UNCHANGED <<server, asked, changes, versions, hung>>

Readable(id) == IsReadable(server[id])

(* Mutant: a request without items goes on to the elderly at once.          *)
AnswerRequest_emptyHandled(k, id) ==
  LET node == server[id] IN
  /\ \/ /\ ~Readable(id)
        /\ Answer(RequestRead(k, id))
        /\ FinishRequest(k, requests[k])
        /\ UNCHANGED <<itemCounter, items, hung>>
     \/ /\ Readable(id)
        /\ AnswerWith(RequestRead(k, id),
             IF node.content = {} THEN {ElderlyRead(k, id, node)}
             ELSE {ItemRead(k, id, node, i) : i \in node.content})
        /\ itemCounter' = [itemCounter EXCEPT ![<<k, id>>] = Cardinality(node.content)]
        /\ hung' = (hung \/ node.content = {})
        /\ UNCHANGED <<stage, counter, reqCounter, requests, items, zoneRequestsArr>>
  /\ UNCHANGED <<server, asked, changes, versions>>

(* Mutant: the guards of getRequest only ask whether the node exists.       *)
AnswerRequest_unguarded(k, id) ==
  LET node == server[id] IN
  /\ \/ /\ node = Nothing
        /\ Answer(RequestRead(k, id))
        /\ FinishRequest(k, requests[k])
        /\ UNCHANGED <<itemCounter, items, hung>>
     \/ /\ node # Nothing
        /\ AnswerWith(RequestRead(k, id), {ItemRead(k, id, node, i) : i \in node.content})
        /\ itemCounter' = [itemCounter EXCEPT ![<<k, id>>] = Cardinality(node.content)]
        /\ hung' = (hung \/ node.content = {})
        /\ UNCHANGED <<stage, counter, reqCounter, requests, items, zoneRequestsArr>>
  /\ UNCHANGED <<server, asked, changes, versions>>

(* The guards of getRequest, then getAllItems: one read per item, and none, *)
(* so no callback either, when there is no item.                            *)
AnswerRequest(k, id) ==
  LET node == server[id] IN
  /\ \/ /\ ~Readable(id)
        /\ Answer(RequestRead(k, id))
        /\ FinishRequest(k, requests[k])
        /\ UNCHANGED <<itemCounter, items, hung>>
     \/ /\ Readable(id)
        /\ AnswerWith(RequestRead(k, id), {ItemRead(k, id, node, i) : i \in node.content})
        /\ itemCounter' = [itemCounter EXCEPT ![<<k, id>>] = Cardinality(node.content)]
        /\ hung' = (hung \/ node.content = {})
        /\ UNCHANGED <<stage, counter, reqCounter, requests, items, zoneRequestsArr>>
  /\ UNCHANGED <<server, asked, changes, versions>>

(* getRequestItem answers nil for an item the catalogue does not know.      *)
getRequestItem(item) == {item} \intersect Catalogue

(* The last answer asks for the details of the elderly.  Quantities are     *)
(* taken to be integers: one that is not ends the process (Request.swift:   *)
(* 171).                                                                    *)
AnswerItem(k, id, node, item) ==
  /\ items' = [items EXCEPT ![<<k, id>>] = @ \union getRequestItem(item)]
  /\ itemCounter' = [itemCounter EXCEPT ![<<k, id>>] = @ - 1]
  /\ AnswerWith(ItemRead(k, id, node, item),
       IF itemCounter'[<<k, id>>] = 0 THEN {ElderlyRead(k, id, node)} ELSE {})
  /\ UNCHANGED <<server, stage, asked, counter, reqCounter, requests, zoneRequestsArr,
                 changes, versions, hung>>

(* With or without the details of the elderly, the request is complete.     *)
AnswerElderly(k, id, node) ==
  /\ Answer(ElderlyRead(k, id, node))
  /\ FinishRequest(k, requests[k] \union
       {[id |-> id, detail |-> node.detail, extra |-> node.extra, items |-> items[<<k, id>>]]})
  /\ UNCHANGED <<server, asked, itemCounter, items, changes, versions, hung>>

AnswerRead ==
  \/ AnswerVolunteer
  \/ \E k \in DOMAIN asked : AnswerZone(k)
  \/ \E k \in DOMAIN asked, id \in Requests : AnswerRequest(k, id)
  \/ \E k \in DOMAIN asked, id \in Requests, node \in Nodes :
       \/ \E item \in Items : AnswerItem(k, id, node, item)
       \/ AnswerElderly(k, id, node)

(* No call of observeSingleEvent passes a cancel block: a read the server   *)
(* refuses ends without any callback.                                       *)
Denied ==
  /\ ReadsCanBeDenied
  /\ \E read \in pending : Answer(read)
  /\ hung' = TRUE
  /\ UNCHANGED <<server, stage, asked, tally, changes, versions>>

(* External: the app of the elderly, or another volunteer.                  *)
ServerChanges ==
  /\ changes < MaxChanges
  /\ changes' = changes + 1
  /\ \E id \in Requests, node \in Nodes \union {Nothing} :
       /\ server[id] # node
       /\ server' = [server EXCEPT ![id] = node]
       /\ versions' = IF stage = "fetching" THEN [versions EXCEPT ![id] = @ \union {node}]
                      ELSE versions
  /\ UNCHANGED <<stage, asked, pending, tally, hung>>

Next == Refresh \/ AnswerRead \/ Denied \/ ServerChanges

Spec == Init /\ [][Next]_vars

(* The connection goes on answering reads.                                  *)
FairSpec == Spec /\ WF_vars(AnswerRead)

----------------------------------------------------------------------------
(* Properties                                                               *)

TypeOK ==
  /\ server \in Server
  /\ stage \in {"idle", "fetching", "delivered", "abandoned"}
  /\ asked \in (Assignments \ {Nothing}) \union {<<>>}
  /\ counter \in 0 .. Len(asked)
  /\ \A k \in DOMAIN reqCounter : reqCounter[k] \in 0 .. Cardinality(Requests)
  /\ requests \in [DOMAIN reqCounter -> SUBSET Copies]
  /\ \A s \in DOMAIN itemCounter : itemCounter[s] \in 0 .. Cardinality(Items)
  /\ items \in [DOMAIN itemCounter -> SUBSET Items]
  /\ zoneRequestsArr \in Seq([zone : Zones, copies : SUBSET Copies])
  /\ changes \in 0 .. MaxChanges
  /\ versions \in Versions
  /\ hung \in BOOLEAN

Delivered ==
  [zones  |-> {zoneRequestsArr[j].zone : j \in DOMAIN zoneRequestsArr},
   copies |-> UNION {zoneRequestsArr[j].copies : j \in DOMAIN zoneRequestsArr}]

(* The list handed to updateSavedRequests names each zone once and each     *)
(* request once, under its own zone, which the loops there rely on.         *)
DeliveredFetchable ==
  stage = "delivered" =>
    /\ Delivered \in Fetchable
    /\ \A i, j \in DOMAIN zoneRequestsArr :
         zoneRequestsArr[i].zone = zoneRequestsArr[j].zone => i = j

(* A delivered request was on the server, as delivered, at some moment of   *)
(* the fetch, although its parts are read one after the other.              *)
DeliveredWasThere ==
  stage = "delivered" =>
    \A c \in Delivered.copies :
      \E node \in versions[c.id] :
        IsReadable(node) /\ c = CopyOf(c.id, node)

(* A request that was on the server during the whole fetch is delivered:    *)
(* otherwise the update would delete it, check marks included.              *)
ThereIsDelivered ==
  stage = "delivered" =>
    \A id \in Requests :
      /\ \E k \in DOMAIN asked : asked[k] = ZoneOf[id]
      /\ \A node \in versions[id] : IsReadable(node)
      => \E c \in Delivered.copies : c.id = id

(* The list is delivered after the last answer, so that it is delivered     *)
(* once and no late answer changes it.                                      *)
NothingComesLate == stage \in {"delivered", "abandoned"} => pending = {}

(* Seen from outside, a fetch delivers one list that is true of what the    *)
(* server was since it began, or none: the tasksheet is built on no more.   *)
Promise == INSTANCE FetchPromise WITH
  ZoneSets <- {{zones[j] : j \in DOMAIN zones} : zones \in Assignments \ {Nothing}},
  list <- IF stage = "delivered" THEN Delivered ELSE EmptyList

ImplementsFetchPromise == Promise!Spec

(* Every refresh comes to an end, unless a read is refused or a request has *)
(* no items.                                                                *)
FetchEnds == stage = "fetching" ~> (stage # "fetching" \/ hung)

(* One read that is refused, or one request without items in any assigned   *)
(* zone, keeps the whole list from ever being delivered: nothing calls back *)
(* in its stead.                                                            *)
NoAnswerNoList == hung => stage = "fetching"
============================================================================
