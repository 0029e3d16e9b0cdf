---------------------------- MODULE MCCompletion ----------------------------
(* Instances of Completion for TLC.                                         *)
EXTENDS Completion, TLC

CONSTANTS v1, v2, za, zb, zc, r1, r2, r3, i1, i2

(* The item of the first request is in the catalogue, and is requested by   *)
(* the third as well, so that one completion too many of the first shows in *)
(* what is counted for the third.  Copies may lack the item of the second.  *)
MCQty ==
  (r1 :> ((i1 :> 2) @@ (i2 :> 0))) @@ (r2 :> ((i1 :> 0) @@ (i2 :> 1)))
    @@ (r3 :> ((i1 :> 1) @@ (i2 :> 0)))

MCZoneOf == (r1 :> za) @@ (r2 :> zb) @@ (r3 :> zc)

(* Two volunteers share a zone, only the second delivers to another, and    *)
(* the third zone belongs to somebody else: its request stays counted.      *)
MCAssigned == (v1 :> {za}) @@ (v2 :> {za, zb})

(* Two requests for the same item.                                          *)
MCQtyLossy == (r1 :> (i1 :> 2)) @@ (r2 :> (i1 :> 1))

MCZoneOfLossy == (r1 :> za) @@ (r2 :> zb)

(* The other zone belongs to somebody else, and its request stays counted.  *)
MCAssignedLossy == v1 :> {zb}
============================================================================
