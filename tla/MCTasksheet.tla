---------------------------- MODULE MCTasksheet ----------------------------
(* Instances of Tasksheet for TLC.                                          *)
EXTENDS Tasksheet, TLC

CONSTANTS za, zb, r1, r2, i1, i2, d1, d2, nameless, e1, k1, k2

MCZoneOf == (r1 :> za) @@ (r2 :> zb)

MCZoneOfOne == r1 :> za

NodeOf(readable, detail, content) ==
  [readable |-> readable, detail |-> detail, extra |-> e1, content |-> content]

(* A request as it is placed, with its status changed, with details of the  *)
(* elderly that cannot be read, and incomplete.                             *)
MCNodes ==
  {NodeOf(TRUE, d1, {i1}), NodeOf(TRUE, d2, {i1}), NodeOf(TRUE, nameless, {i1}),
   NodeOf(FALSE, d1, {i1})}

MCNodesNameless == {NodeOf(TRUE, d1, {i1}), NodeOf(TRUE, nameless, {i1})}

MCNodesOne == {NodeOf(TRUE, d1, {i1})}

MCCopies == {CopyOf(id, node) : id \in Requests, node \in Nodes}

RefreshSymmetry == Permutations(Refreshes)
============================================================================
