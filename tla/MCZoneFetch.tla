---------------------------- MODULE MCZoneFetch ----------------------------
(* Instances of ZoneFetch for TLC.                                          *)
EXTENDS ZoneFetch, TLC

CONSTANTS za, zb, r1, r2, r3, i1, i2, d1, e1

MCZoneOf == (r1 :> za) @@ (r2 :> za) @@ (r3 :> zb)

NodeOf(readable, content) ==
  [readable |-> readable, detail |-> d1, extra |-> e1, content |-> content]

(* Items the catalogue does and does not know, a node getRequest cannot     *)
(* read, and a request without items.                                       *)
MCNodes ==
  {NodeOf(TRUE, {i1, i2}), NodeOf(TRUE, {i2}), NodeOf(FALSE, {i1}), NodeOf(TRUE, {})}

MCCopies == {CopyOf(id, node) : id \in Requests, node \in MCNodes}

MCAssignments == {<<za>>, <<zb, za>>, Nothing}
============================================================================
