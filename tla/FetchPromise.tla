---------------------------- MODULE FetchPromise ----------------------------
(***************************************************************************)
(* What a fetch of the assigned zones promises its caller, with its reads,  *)
(* counters and closures abstracted away: it delivers one list, true of     *)
(* what the server was since the fetch began, or none at all.               *)
(***************************************************************************)
EXTENDS ServerData

CONSTANT ZoneSets   \* the sets of zones a volunteer may be assigned to

VARIABLES
  server,    \* the node of every request
  stage,     \* "idle", "fetching", "delivered" or "abandoned"
  versions,  \* the nodes of every request since the fetch began
  list       \* the list delivered

Init ==
  /\ server \in Server
  /\ stage = "idle"
  /\ versions = [id \in Requests |-> {}]
  /\ list = EmptyList

Begin ==
  /\ stage = "idle"
  /\ stage' \in {"fetching", "abandoned"}
  /\ versions' = [id \in Requests |-> {server[id]}]
  /\ UNCHANGED <<server, list>>

Deliver ==
  /\ stage = "fetching"
  /\ stage' = "delivered"
  /\ \E zones \in ZoneSets : list' \in Deliverable(zones, versions)
  /\ UNCHANGED <<server, versions>>

Abandon ==
  /\ stage = "fetching"
  /\ stage' = "abandoned"
  /\ UNCHANGED <<server, versions, list>>

ServerChanges ==
  \E id \in Requests, node \in Nodes \union {Nothing} :
    /\ server' = [server EXCEPT ![id] = node]
    /\ versions' = IF stage = "fetching" THEN [versions EXCEPT ![id] = @ \union {node}]
                   ELSE versions
    /\ UNCHANGED <<stage, list>>

Next == Begin \/ Deliver \/ Abandon \/ ServerChanges

Spec == Init /\ [][Next]_<<server, stage, versions, list>>
============================================================================
