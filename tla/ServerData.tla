----------------------------- MODULE ServerData -----------------------------
(***************************************************************************)
(* What the Firebase database holds for the tasksheet, what the app makes   *)
(* of it, and which lists a fetch may deliver while it goes on changing.    *)
(***************************************************************************)
EXTENDS RequestData

CONSTANTS
  Nodes,      \* what a request node on the server may hold
  Catalogue,  \* the items whose node under items/ is complete
  Nothing     \* a node that does not exist

(* readable: dateCreated, senderID, status and delSlotStart have values of  *)
(* their types.  content: the keys of the items.                            *)
Node == [readable : BOOLEAN, detail : Details, extra : Extras, content : SUBSET Items]

(* What getRequest makes of a node.                                         *)
CopyOf(id, node) ==
  [id |-> id, detail |-> node.detail, extra |-> node.extra,
   items |-> node.content \intersect Catalogue]

ASSUME NodesAssumption ==
  /\ Nodes \subseteq Node
  /\ Nothing \notin Nodes
  /\ Catalogue \subseteq Items
  /\ \A id \in Requests, node \in Nodes : CopyOf(id, node) \in Copies

(* What the node of every request is, and was at the moments of a fetch.    *)
Server == [Requests -> Nodes \union {Nothing}]
Versions == [Requests -> SUBSET (Nodes \union {Nothing})]

(* The guards of getRequest.                                                *)
IsReadable(node) == node # Nothing /\ node.readable

(* The lists a fetch of some zones may deliver.  Its parts are read one     *)
(* after the other, seen[id] being what the node of a request was during    *)
(* the fetch: a copy was there, and what was there all the time is not      *)
(* left out.                                                                *)
Deliverable(zones, seen) ==
  {f \in Fetchable :
     /\ f.zones \subseteq zones
     /\ \A c \in f.copies :
          \E node \in seen[c.id] : IsReadable(node) /\ c = CopyOf(c.id, node)
     /\ \A id \in Requests :
          ZoneOf[id] \in zones /\ (\A node \in seen[id] : IsReadable(node))
            => \E c \in f.copies : c.id = id
     /\ \A z \in f.zones :
          \E id \in Requests : ZoneOf[id] = z /\ seen[id] # {Nothing}
     /\ \A id \in Requests :
          ZoneOf[id] \in zones \ f.zones => Nothing \in seen[id]}
============================================================================
