------------------------- MODULE Completion_proofs -------------------------
(***************************************************************************)
(* Proofs about Completion, for every number of volunteers, requests,       *)
(* items, confirmations and refreshes.                                      *)
(*                                                                          *)
(* Types, and what does not depend on sums; what the counters add up to is  *)
(* in Counters_proofs.                                                      *)
(***************************************************************************)
EXTENDS Completion, TLAPS

----------------------------------------------------------------------------
(* Calls.                                                                   *)

(* The server has no counter below zero.                                    *)
LEMMA LessInNat == \A m, n \in Nat : Less(m, n) \in Nat
BY DEF Less

(* A copy has items of the request only, and all of these that are in the   *)
(* catalogue.                                                               *)
LEMMA CopyHas ==
  ASSUME NEW id \in Requests, NEW items \in CopiedItems(id)
  PROVE  /\ items \in SUBSET Items
         /\ \A i \in items : Qty[id][i] > 0
         /\ \A i \in Catalogue : Qty[id][i] > 0 => i \in items
BY CompletionAssumption DEF CopiedItems, RequestedItems

(* What markRequestAsComplete issues concerns the request and its items,    *)
(* and removes it once.                                                     *)
LEMMA CallsOfRequest ==
  ASSUME NEW id, NEW items \in SUBSET Items, NEW n,
         NEW call \in markRequestAsComplete(id, items, n)
  PROVE  /\ call.id = id /\ call.kind \in Kinds
         /\ call.kind \in {"requestCounter", "requested"} => call.item \in Items
         /\ call.kind = "remove" => call = Call("remove", id, n)
<1>1. CASE call \in updateCounters(id, items, n)
  <2>1. PICK kind \in {"requestCounter", "requested"}, item \in Items :
               call = ItemCall(kind, id, item, n)
    BY <1>1 DEF updateCounters
  <2>2. call.kind = kind /\ call.id = id /\ call.item = item
    BY <2>1 DEF ItemCall
  <2>3. QED  BY <2>2 DEF Kinds
<1>2. ASSUME NEW kind \in {"findUserRequest", "credit", "remove"}, call = Call(kind, id, n)
      PROVE  call.id = id /\ call.kind = kind
  BY <1>2 DEF Call
<1>3. QED  BY <1>1, <1>2 DEF markRequestAsComplete, Kinds

LEMMA RemoveIsCalled ==
  \A id, items, n :
    /\ Call("remove", id, n) \in markRequestAsComplete(id, items, n)
    /\ Call("remove", id, n).kind = "remove" /\ Call("remove", id, n).id = id
BY DEF markRequestAsComplete, Call

----------------------------------------------------------------------------
(* The variables keep their types.                                          *)

LEMMA TypeInit == Init => TypeOK
<1> SUFFICES ASSUME Init PROVE TypeOK
  OBVIOUS
<1> USE DEF Init
<1>1. calls = [v \in Volunteers |-> calls[v]]
  OBVIOUS
<1>2. requestCounter \in [Zones \X Items -> Nat] /\ requested \in [Items -> Nat]
  OBVIOUS
<1>3. QED  BY <1>1, <1>2 DEF TypeOK, Cards

(* The calls of the devices, and that they keep their type.                 *)
CallsOK(some, ids) ==
  /\ some = [v \in Volunteers |-> some[v]]
  /\ \A v \in Volunteers : \A call \in some[v] :
       /\ call.kind \in Kinds /\ call.id \in ids
       /\ call.kind \in {"requestCounter", "requested"} => call.item \in Items

(* A call that is carried out, or refused, is gone.                         *)
LEMMA CallDone ==
  ASSUME CallsOK(calls, submitted), NEW v \in Volunteers, NEW call \in calls[v], Done(v, call),
         submitted' = submitted
  PROVE  /\ CallsOK(calls', submitted')
         /\ calls'[v] = calls[v] \ {call}
         /\ \A w \in Volunteers \ {v} : calls'[w] = calls[w]
<1>1. /\ calls'[v] = calls[v] \ {call}
      /\ \A w \in Volunteers \ {v} : calls'[w] = calls[w]
      /\ calls' = [w \in Volunteers |-> calls'[w]]
  BY DEF CallsOK, Done
<1>2. \A w \in Volunteers : calls'[w] \subseteq calls[w]
  BY <1>1
<1>3. QED  BY <1>1, <1>2 DEF CallsOK

(* The key of the request is found, or not.                                 *)
LEMMA SearchDone ==
  ASSUME CallsOK(calls, submitted), NEW v \in Volunteers, NEW call \in calls[v],
         FindUserRequest(v, call)
  PROVE  /\ CallsOK(calls', submitted')
         /\ calls'[v] \subseteq (calls[v] \ {call}) \union {Call("unlist", call.id, call.n)}
         /\ calls[v] \ {call} \subseteq calls'[v]
         /\ \A w \in Volunteers \ {v} : calls'[w] = calls[w]
         /\ Call("unlist", call.id, call.n).kind = "unlist"
<1> DEFINE unlist == Call("unlist", call.id, call.n)
<1>1. unlist.kind = "unlist" /\ unlist.id = call.id
  BY DEF Call
<1> HIDE DEF unlist
<1>2. calls' = [calls EXCEPT ![v] = (@ \ {call}) \union
                  (IF call.id \in userRequests THEN {unlist} ELSE {})]
  BY DEF FindUserRequest, unlist
<1>3. /\ calls'[v] = (calls[v] \ {call}) \union
           (IF call.id \in userRequests THEN {unlist} ELSE {})
      /\ \A w \in Volunteers \ {v} : calls'[w] = calls[w]
      /\ calls' = [w \in Volunteers |-> calls'[w]]
  BY <1>2 DEF CallsOK
<1>4. submitted' = submitted
  BY DEF FindUserRequest, serverVars
<1>5. /\ calls'[v] \subseteq (calls[v] \ {call}) \union {unlist}
      /\ calls[v] \ {call} \subseteq calls'[v]
  BY <1>3
<1>6. call.id \in submitted
  BY DEF CallsOK
<1>7. CallsOK(calls', submitted')
  <2> SUFFICES ASSUME NEW w \in Volunteers, NEW c \in calls'[w]
               PROVE  /\ c.kind \in Kinds /\ c.id \in submitted'
                      /\ c.kind \in {"requestCounter", "requested"} => c.item \in Items
    BY <1>3 DEF CallsOK
  <2>1. CASE c \in calls[w]
    BY <1>4, <2>1 DEF CallsOK
  <2>2. CASE c = unlist
    BY <1>1, <1>4, <1>6, <2>2 DEF Kinds
  <2>3. QED  BY <1>3, <1>5, <2>1, <2>2
<1>8. QED  BY <1>1, <1>3, <1>5, <1>7 DEF unlist

(* The device issues the calls of a completion.                             *)
LEMMA CallsIssued ==
  ASSUME CallsOK(calls, submitted), NEW v \in Volunteers, NEW id \in submitted,
         NEW items \in SUBSET Items, Confirm(v, id, items)
  PROVE  /\ CallsOK(calls', submitted')
         /\ calls'[v] = calls[v] \union markRequestAsComplete(id, items, Confirmations + 1)
         /\ \A w \in Volunteers \ {v} : calls'[w] = calls[w]
<1>1. /\ calls' =
           [calls EXCEPT ![v] = @ \union markRequestAsComplete(id, items, Confirmations + 1)]
      /\ submitted' = submitted
  BY DEF Confirm, serverVars
<1>2. /\ calls'[v] = calls[v] \union markRequestAsComplete(id, items, Confirmations + 1)
      /\ \A w \in Volunteers \ {v} : calls'[w] = calls[w]
      /\ calls' = [w \in Volunteers |-> calls'[w]]
  BY <1>1 DEF CallsOK
<1>3. \A call \in markRequestAsComplete(id, items, Confirmations + 1) :
        /\ call.kind \in Kinds /\ call.id = id
        /\ call.kind \in {"requestCounter", "requested"} => call.item \in Items
  BY CallsOfRequest
<1>4. QED  BY <1>1, <1>2, <1>3 DEF CallsOK

LEMMA TypeCalls == TypeOK => CallsOK(calls, submitted)
BY DEF TypeOK, CallsOK

LEMMA TypeStep == TypeOK /\ [Next]_vars => TypeOK'
<1> SUFFICES ASSUME TypeOK, [Next]_vars PROVE TypeOK'
  OBVIOUS
<1> USE CompletionAssumption
<1>1. ASSUME NEW id \in Requests, Submit(id) PROVE TypeOK'
  <2>1. requestCounter' \in [Zones \X Items -> Nat]
    BY <1>1 DEF Submit, TypeOK
  <2>2. requested' \in [Items -> Nat]
    BY <1>1 DEF Submit, TypeOK
  <2>3. /\ submitted' = submitted \union {id} /\ live' = live \union {id}
        /\ userRequests' = userRequests \union {id}
        /\ UNCHANGED <<completedRequests, shown, refreshes, lists, alert, card, calls, confirmed>>
    BY <1>1 DEF Submit, sheetVars
  <2>4. /\ shown' \in [Volunteers -> SUBSET submitted'] /\ alert' \in [Volunteers -> SUBSET submitted']
    BY <2>3 DEF TypeOK
  <2>5. lists' \in [Volunteers -> SUBSET SUBSET submitted']
    BY <2>3 DEF TypeOK
  <2>6. QED  BY <2>1, <2>2, <2>3, <2>4, <2>5 DEF TypeOK
<1>2. ASSUME NEW v \in Volunteers, refreshData(v) PROVE TypeOK'
  BY <1>2 DEF refreshData, TypeOK, serverVars, counters
<1>3. ASSUME NEW v \in Volunteers, ReadServer(v) PROVE TypeOK'
  <2>1. refreshes' \in [Volunteers -> Nat]
    BY <1>3 DEF ReadServer, TypeOK
  <2>2. lists' \in [Volunteers -> SUBSET SUBSET submitted]
    BY <1>3 DEF ReadServer, TypeOK
  <2>3. QED  BY <1>3, <2>1, <2>2 DEF ReadServer, TypeOK, serverVars, counters
<1>4. ASSUME NEW v \in Volunteers, NEW list \in lists[v], Display(v, list) PROVE TypeOK'
  <2>1. list \in SUBSET submitted
    BY DEF TypeOK
  <2>2. lists' \in [Volunteers -> SUBSET SUBSET submitted]
    BY <1>4 DEF Display, TypeOK
  <2>3. shown' \in [Volunteers -> SUBSET submitted] /\ alert' \in [Volunteers -> SUBSET submitted]
    BY <1>4, <2>1 DEF Display, TypeOK
  <2>4. QED  BY <1>4, <2>2, <2>3 DEF Display, TypeOK, serverVars, counters
<1>5. ASSUME NEW v \in Volunteers, NEW id \in shown[v], completionBtnClicked(v, id) PROVE TypeOK'
  BY <1>5 DEF completionBtnClicked, TypeOK, serverVars, counters, sheetVars
<1>6. ASSUME NEW v \in Volunteers, Cancel(v) PROVE TypeOK'
  BY <1>6 DEF Cancel, TypeOK, serverVars, counters, sheetVars
<1>7. ASSUME NEW v \in Volunteers, NEW id \in alert[v], NEW items \in CopiedItems(id),
             Confirm(v, id, items)
      PROVE  TypeOK'
  <2>1. id \in submitted /\ items \in SUBSET Items
    BY CopyHas DEF TypeOK
  <2>2. CallsOK(calls', submitted')
    BY <1>7, <2>1, TypeCalls, CallsIssued
  <2>3. confirmed' \in [Requests -> Nat]
    BY <1>7 DEF Confirm, TypeOK
  <2>4. card' \in [Volunteers -> Cards] /\ alert' \in [Volunteers -> SUBSET submitted]
    BY <1>7 DEF Confirm, TypeOK, Cards
  <2>5. QED
    BY <1>7, <2>2, <2>3, <2>4 DEF Confirm, TypeOK, CallsOK, serverVars, counters, sheetVars
<1>8. ASSUME NEW v \in Volunteers, NEW call \in calls[v], Done(v, call),
             \/ CountDown(v, call) \/ CountDownAll(v, call) \/ Credit(v, call)
             \/ Unlist(v, call) \/ Remove(v, call) \/ CallFails(v, call)
      PROVE  TypeOK'
  <2>1. call.id \in Requests
    BY DEF TypeOK
  <2>2. /\ submitted' = submitted
        /\ UNCHANGED <<shown, refreshes, lists, alert, confirmed>>
    BY <1>8 DEF CountDown, CountDownAll, Credit, Unlist, Remove, CallFails, serverVars,
       sheetVars
  <2>3. CallsOK(calls', submitted')
    BY <1>8, <2>2, TypeCalls, CallDone
  <2>4. requestCounter' \in [Zones \X Items -> Nat]
    <3>1. CASE CountDown(v, call)
      <4>1. call.item \in Items
        BY <3>1 DEF CountDown, TypeOK
      <4>2. /\ <<ZoneOf[call.id], call.item>> \in Zones \X Items
            /\ Qty[call.id][call.item] \in Nat
        BY <2>1, <4>1
      <4>3. requestCounter \in [Zones \X Items -> Nat]
        BY DEF TypeOK
      <4>4. QED  BY <3>1, <4>2, <4>3, LessInNat DEF CountDown
    <3>2. CASE requestCounter' = requestCounter
      BY <3>2 DEF TypeOK
    <3>3. QED
      BY <1>8, <3>1, <3>2 DEF CountDownAll, Credit, Unlist, Remove, CallFails, serverVars, counters
  <2>5. requested' \in [Items -> Nat]
    <3>1. CASE CountDownAll(v, call)
      <4>1. call.item \in Items
        BY <3>1 DEF CountDownAll, TypeOK
      <4>2. Qty[call.id][call.item] \in Nat
        BY <2>1, <4>1
      <4>3. requested \in [Items -> Nat]
        BY DEF TypeOK
      <4>4. QED  BY <3>1, <4>2, <4>3, LessInNat DEF CountDownAll
    <3>2. CASE requested' = requested
      BY <3>2 DEF TypeOK
    <3>3. QED
      BY <1>8, <3>1, <3>2 DEF CountDown, Credit, Unlist, Remove, CallFails, serverVars, counters
  <2>6. completedRequests' \in [Volunteers -> Nat]
    BY <1>8 DEF TypeOK, CountDown, CountDownAll, Credit, Unlist, Remove, CallFails, serverVars,
       counters
  <2>7. card' \in [Volunteers -> Cards]
    BY <1>8 DEF TypeOK, Cards, CountDown, CountDownAll, Credit, Unlist, Remove, CallFails
  <2>8. live' \subseteq live /\ userRequests' \subseteq userRequests
    BY <1>8 DEF CountDown, CountDownAll, Credit, Unlist, Remove, CallFails, serverVars
  <2>9. QED  BY <2>2, <2>3, <2>4, <2>5, <2>6, <2>7, <2>8 DEF TypeOK, CallsOK
<1>9. ASSUME NEW v \in Volunteers, NEW call \in calls[v], FindUserRequest(v, call) PROVE TypeOK'
  <2>1. CallsOK(calls', submitted')
    BY <1>9, TypeCalls, SearchDone
  <2>2. QED
    BY <1>9, <2>1 DEF FindUserRequest, TypeOK, CallsOK, serverVars, counters, sheetVars
<1>10. ASSUME NEW v \in Volunteers, ShowResult(v) \/ HideResult(v) PROVE TypeOK'
  <2>1. card' \in [Volunteers -> Cards]
    BY <1>10 DEF ShowResult, HideResult, TypeOK, Cards
  <2>2. refreshes' \in [Volunteers -> Nat]
    <3>1. CASE ShowResult(v)
      BY <3>1 DEF ShowResult, TypeOK
    <3>2. CASE HideResult(v)
      BY <3>2 DEF HideResult, TypeOK, sheetVars
    <3>3. QED  BY <1>10, <3>1, <3>2
  <2>3. QED
    BY <1>10, <2>1, <2>2 DEF ShowResult, HideResult, TypeOK, serverVars, counters, sheetVars
<1>11. ASSUME NEW v \in Volunteers, Kill(v) PROVE TypeOK'
  <2>1. /\ calls' = [w \in Volunteers |-> calls'[w]]
        /\ \A w \in Volunteers : calls'[w] \subseteq calls[w]
    BY <1>11 DEF Kill, TypeOK
  <2>2. /\ alert' \in [Volunteers -> SUBSET submitted] /\ card' \in [Volunteers -> Cards]
        /\ refreshes' \in [Volunteers -> Nat] /\ lists' \in [Volunteers -> SUBSET SUBSET submitted]
    BY <1>11 DEF Kill, TypeOK, Cards
  <2>3. QED  BY <1>11, <2>1, <2>2 DEF Kill, TypeOK, serverVars, counters
<1>12. CASE UNCHANGED vars
  BY <1>12 DEF vars, serverVars, counters, sheetVars, TypeOK
<1>13. ASSUME NEW v \in Volunteers, Carry(v) PROVE TypeOK'
  <2>1. PICK call \in calls[v] :
          \/ CountDown(v, call) \/ CountDownAll(v, call) \/ Credit(v, call)
          \/ FindUserRequest(v, call) \/ Unlist(v, call) \/ Remove(v, call)
          \/ CallFails(v, call)
    BY <1>13 DEF Carry
  <2>2. FindUserRequest(v, call) \/ Done(v, call)
    BY <2>1 DEF CountDown, CountDownAll, Credit, Unlist, Remove, CallFails
  <2>3. QED  BY <1>8, <1>9, <2>1, <2>2
<1>14. QED
  BY <1>1, <1>2, <1>3, <1>4, <1>5, <1>6, <1>7, <1>10, <1>11, <1>12, <1>13 DEF Next

(* The server never counts below zero, and the tasksheets and calls concern *)
(* requests that were placed, whatever is refused, killed or repeated.      *)
THEOREM TypeCorrect == Spec => []TypeOK
<1>1. QED  BY TypeInit, TypeStep, PTL DEF Spec

----------------------------------------------------------------------------
(* A request that is reported as completed has left the server.             *)

Removal(call) == call.kind = "remove"

(* The alert and the overlay exclude each other, so that a device has one   *)
(* removal under way at most, and only as long as it says "updating".       *)
OneAtATime ==
  \A v \in Volunteers :
    /\ alert[v] # {} => card[v] = "hidden"
    /\ \A c, d \in calls[v] : Removal(c) /\ Removal(d) => c = d
    /\ \A c \in calls[v] : Removal(c) => card[v] = "updating"

(* A confirmed request that is still there is about to be removed.          *)
OnItsWay ==
  \A id \in Requests : confirmed[id] > 0 =>
    /\ id \in submitted
    /\ id \in live => \E v \in Volunteers : \E c \in calls[v] : Removal(c) /\ c.id = id

RemovalInv == TypeOK /\ OneAtATime /\ OnItsWay

LEMMA RemovalInit == Init => RemovalInv
<1>1. Init => OneAtATime /\ OnItsWay
  BY DEF Init, OneAtATime, OnItsWay
<1>2. QED  BY <1>1, TypeInit DEF RemovalInv

(* Calls that are no removals come and go.                                  *)
LEMMA RemovalsKept ==
  ASSUME RemovalInv, NEW v \in Volunteers,
         \A w \in Volunteers \ {v} : calls'[w] = calls[w],
         \A c : Removal(c) => (c \in calls'[v] <=> c \in calls[v]),
         card' = card, live' \subseteq live,
         UNCHANGED <<alert, confirmed, submitted>>
  PROVE  OneAtATime' /\ OnItsWay'
<1>1. \A w \in Volunteers : \A c : Removal(c) => (c \in calls'[w] <=> c \in calls[w])
  OBVIOUS
<1>2. OneAtATime'
  BY <1>1 DEF RemovalInv, OneAtATime
<1>3. OnItsWay'
  <2> SUFFICES ASSUME NEW id \in Requests, confirmed[id] > 0
               PROVE  /\ id \in submitted
                      /\ id \in live => \E w \in Volunteers : \E c \in calls'[w] :
                                          Removal(c) /\ c.id = id
    BY DEF OnItsWay
  <2>1. id \in submitted
    BY DEF RemovalInv, OnItsWay
  <2>2. ASSUME id \in live
        PROVE  \E w \in Volunteers : \E c \in calls'[w] : Removal(c) /\ c.id = id
    <3>1. PICK w \in Volunteers : \E c \in calls[w] : Removal(c) /\ c.id = id
      BY <2>2 DEF RemovalInv, OnItsWay
    <3>2. QED  BY <1>1, <3>1
  <2>3. QED  BY <2>1, <2>2
<1>4. QED  BY <1>2, <1>3

LEMMA RemovalStep ==
  ASSUME WritesCanFail = FALSE, CanBeKilled = FALSE
  PROVE  RemovalInv /\ [Next]_vars => RemovalInv'
<1> SUFFICES ASSUME RemovalInv, [Next]_vars PROVE RemovalInv'
  OBVIOUS
<1>1. TypeOK /\ TypeOK' /\ CallsOK(calls, submitted)
  BY TypeStep, TypeCalls DEF RemovalInv
<1> SUFFICES OneAtATime' /\ OnItsWay'
  BY <1>1 DEF RemovalInv
<1>2. ASSUME NEW id \in Requests, Submit(id) PROVE OneAtATime' /\ OnItsWay'
  <2>1. /\ id \notin submitted /\ live' = live \union {id}
        /\ submitted' = submitted \union {id}
        /\ UNCHANGED <<alert, card, calls, confirmed>>
    BY <1>2 DEF Submit
  <2>2. QED  BY <2>1 DEF RemovalInv, OneAtATime, OnItsWay
<1>3. ASSUME NEW v \in Volunteers, refreshData(v) \/ ReadServer(v) PROVE OneAtATime' /\ OnItsWay'
  BY <1>3 DEF refreshData, ReadServer, serverVars, RemovalInv, OneAtATime, OnItsWay
<1>4. ASSUME NEW v \in Volunteers,
             \/ \E list \in lists[v] : Display(v, list)
             \/ \E id \in shown[v] : completionBtnClicked(v, id)
             \/ Cancel(v)
      PROVE  OneAtATime' /\ OnItsWay'
  <2>1. /\ UNCHANGED <<live, submitted, card, calls, confirmed>>
        /\ \A w \in Volunteers : alert'[w] # {} => alert[w] # {} \/ card[w] = "hidden"
    BY <1>1, <1>4 DEF Display, completionBtnClicked, Cancel, serverVars, TypeOK
  <2>2. QED  BY <2>1 DEF RemovalInv, OneAtATime, OnItsWay
<1>5. ASSUME NEW v \in Volunteers, NEW id \in alert[v], NEW items \in CopiedItems(id),
             Confirm(v, id, items)
      PROVE  OneAtATime' /\ OnItsWay'
  <2> DEFINE n == Confirmations + 1
             mine == markRequestAsComplete(id, items, n)
             removal == Call("remove", id, n)
  <2>1. id \in submitted /\ id \in Requests /\ items \in SUBSET Items
    BY <1>1, CopyHas DEF TypeOK
  <2>2. /\ calls'[v] = calls[v] \union mine
        /\ \A w \in Volunteers \ {v} : calls'[w] = calls[w]
    BY <1>1, <1>5, <2>1, CallsIssued
  <2>3. /\ UNCHANGED <<live, submitted>>
        /\ card'[v] = "updating" /\ alert'[v] = {}
        /\ \A w \in Volunteers \ {v} : card'[w] = card[w] /\ alert'[w] = alert[w]
        /\ \A d \in Requests \ {id} : confirmed'[d] = confirmed[d]
    BY <1>1, <1>5, <2>1 DEF Confirm, serverVars, TypeOK
  <2>4. \A c \in calls[v] : ~Removal(c)
    BY DEF RemovalInv, OneAtATime
  <2>5. /\ removal \in mine /\ Removal(removal) /\ removal.id = id
        /\ \A c \in mine : Removal(c) => c = removal
    BY <2>1, CallsOfRequest, RemoveIsCalled DEF Removal
  <2> HIDE DEF mine, removal
  <2>6. OneAtATime'
    <3>1. \A c \in calls'[v] : Removal(c) => c = removal
      BY <2>2, <2>4, <2>5
    <3>2. QED  BY <2>2, <2>3, <3>1 DEF RemovalInv, OneAtATime
  <2>7. OnItsWay'
    <3>1. ASSUME NEW d \in Requests, d # id, confirmed'[d] > 0
          PROVE  /\ d \in submitted'
                 /\ d \in live' => \E w \in Volunteers : \E c \in calls'[w] : Removal(c) /\ c.id = d
      <4>1. \A w \in Volunteers : calls[w] \subseteq calls'[w]
        BY <2>2
      <4>2. QED  BY <2>3, <3>1, <4>1 DEF RemovalInv, OnItsWay
    <3>2. removal \in calls'[v]
      BY <2>2, <2>5
    <3>3. QED  BY <2>1, <2>3, <2>5, <3>1, <3>2 DEF OnItsWay
  <2>8. QED  BY <2>6, <2>7
<1>6. ASSUME NEW v \in Volunteers, NEW call \in calls[v], Remove(v, call)
      PROVE  OneAtATime' /\ OnItsWay'
  <2>1. /\ Removal(call) /\ live' = live \ {call.id}
        /\ UNCHANGED <<submitted, alert, confirmed>>
        /\ card' = [card EXCEPT ![v] = "answered"]
    BY <1>6 DEF Remove, Removal
  <2>2. /\ calls'[v] = calls[v] \ {call}
        /\ \A w \in Volunteers \ {v} : calls'[w] = calls[w]
    BY <1>1, <1>6, <2>1, CallDone DEF Remove
  <2>3. \A c \in calls'[v] : ~Removal(c)
    BY <2>1, <2>2 DEF RemovalInv, OneAtATime
  <2>4. \A w \in Volunteers \ {v} : card'[w] = card[w]
    BY <1>1, <2>1 DEF TypeOK
  <2>5. card[v] = "updating" /\ alert[v] = {}
    BY <2>1 DEF RemovalInv, OneAtATime
  <2>6. OneAtATime'
    BY <2>1, <2>2, <2>3, <2>4, <2>5 DEF RemovalInv, OneAtATime
  <2>7. OnItsWay'
    <3> SUFFICES ASSUME NEW id \in Requests, confirmed[id] > 0
                 PROVE  /\ id \in submitted
                        /\ id \in live' => \E w \in Volunteers : \E c \in calls'[w] :
                                             Removal(c) /\ c.id = id
      BY <2>1 DEF OnItsWay
    <3>1. id \in submitted
      BY DEF RemovalInv, OnItsWay
    <3>2. ASSUME id \in live'
          PROVE  \E w \in Volunteers : \E c \in calls'[w] : Removal(c) /\ c.id = id
      <4>1. id \in live /\ id # call.id
        BY <2>1, <3>2
      <4>2. PICK w \in Volunteers : \E c \in calls[w] : Removal(c) /\ c.id = id
        BY <4>1 DEF RemovalInv, OnItsWay
      <4>3. QED  BY <2>2, <4>1, <4>2
    <3>3. QED  BY <3>1, <3>2
  <2>8. QED  BY <2>6, <2>7
<1>7. ASSUME NEW v \in Volunteers, NEW call \in calls[v], Done(v, call),
             CountDown(v, call) \/ CountDownAll(v, call) \/ Credit(v, call) \/ Unlist(v, call)
      PROVE  OneAtATime' /\ OnItsWay'
  <2>1. /\ ~Removal(call)
        /\ UNCHANGED <<live, submitted, alert, card, confirmed>>
    BY <1>7 DEF CountDown, CountDownAll, Credit, Unlist, Removal
  <2>2. /\ calls'[v] = calls[v] \ {call}
        /\ \A w \in Volunteers \ {v} : calls'[w] = calls[w]
    BY <1>1, <1>7, <2>1, CallDone
  <2>3. QED  BY <2>1, <2>2, RemovalsKept
<1>8. ASSUME NEW v \in Volunteers, NEW call \in calls[v], FindUserRequest(v, call)
      PROVE  OneAtATime' /\ OnItsWay'
  <2>1. ~Removal(call) /\ UNCHANGED <<live, submitted, alert, card, confirmed>>
    BY <1>8 DEF FindUserRequest, Removal, serverVars
  <2>2. /\ calls'[v] \subseteq (calls[v] \ {call}) \union {Call("unlist", call.id, call.n)}
        /\ calls[v] \ {call} \subseteq calls'[v]
        /\ \A w \in Volunteers \ {v} : calls'[w] = calls[w]
        /\ ~Removal(Call("unlist", call.id, call.n))
    BY <1>1, <1>8, SearchDone DEF Removal
  <2>3. \A c : Removal(c) => (c \in calls'[v] <=> c \in calls[v])
    BY <2>1, <2>2
  <2>4. QED  BY <2>1, <2>2, <2>3, RemovalsKept
<1>9. ASSUME NEW v \in Volunteers, ShowResult(v) \/ HideResult(v)
      PROVE  OneAtATime' /\ OnItsWay'
  <2>1. /\ card[v] \in {"answered", "result"} /\ \A w \in Volunteers \ {v} : card'[w] = card[w]
        /\ UNCHANGED <<live, submitted, alert, calls, confirmed>>
    BY <1>1, <1>9 DEF ShowResult, HideResult, serverVars, TypeOK
  <2>2. alert[v] = {} /\ \A c \in calls[v] : ~Removal(c)
    BY <2>1 DEF RemovalInv, OneAtATime
  <2>3. QED  BY <2>1, <2>2 DEF RemovalInv, OneAtATime, OnItsWay
<1>10. CASE UNCHANGED vars
  BY <1>10 DEF vars, serverVars, RemovalInv, OneAtATime, OnItsWay
<1>11. ASSUME NEW v \in Volunteers, Carry(v) PROVE OneAtATime' /\ OnItsWay'
  <2>1. PICK call \in calls[v] :
          \/ CountDown(v, call) \/ CountDownAll(v, call) \/ Credit(v, call)
          \/ FindUserRequest(v, call) \/ Unlist(v, call) \/ Remove(v, call)
    BY <1>11 DEF Carry, CallFails
  <2>2. FindUserRequest(v, call) \/ Done(v, call)
    BY <2>1 DEF CountDown, CountDownAll, Credit, Unlist, Remove
  <2>3. QED  BY <1>6, <1>7, <1>8, <2>1, <2>2
<1>12. \A v \in Volunteers : ~Kill(v)
  BY DEF Kill
<1>13. QED
  BY <1>1, <1>2, <1>3, <1>4, <1>5, <1>9, <1>10, <1>11, <1>12 DEF Next

(* As long as the server refuses no write and no process ends, the overlay  *)
(* of a volunteer says "Success" only when no request that was confirmed on *)
(* that device is left on the server, whoever else completes it meanwhile.  *)
THEOREM SuccessIsWarranted ==
  ASSUME WritesCanFail = FALSE, CanBeKilled = FALSE
  PROVE  Spec => []SuccessIsTrue
<1>1. RemovalInv => SuccessIsTrue
  <2> SUFFICES ASSUME RemovalInv, NEW v \in Volunteers, card[v] \in {"answered", "result"},
                      NEW id \in Requests, confirmed[id] > 0, id \in live,
                      \A w \in Volunteers \ {v} : \A call \in calls[w] : call.id # id
               PROVE  FALSE
    BY DEF SuccessIsTrue
  <2>1. PICK w \in Volunteers : \E c \in calls[w] : Removal(c) /\ c.id = id
    BY DEF RemovalInv, OnItsWay
  <2>2. w = v
    BY <2>1
  <2>3. QED  BY <2>1, <2>2 DEF RemovalInv, OneAtATime
<1>2. QED  BY <1>1, RemovalInit, RemovalStep, PTL DEF Spec
============================================================================
