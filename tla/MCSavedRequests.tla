-------------------------- MODULE MCSavedRequests --------------------------
(* Instances of SavedRequests for TLC.                                      *)
EXTENDS SavedRequests, TLC

CONSTANTS za, zb, r1, r2, r3, i1, i2, d1, d2, e1, e2

MCZoneOf == (r1 :> za) @@ (r2 :> za) @@ (r3 :> zb)

Version(id, detail, extra, items) ==
  [id |-> id, detail |-> detail, extra |-> extra, items |-> items]

(* r1 gains an item (still equal for ==) and changes its status (no longer  *)
(* equal); r2 shares its zone; r3 has a zone of its own.                    *)
MCCopies ==
  {Version(r1, d1, e1, {i1}), Version(r1, d1, e1, {i1, i2}), Version(r1, d2, e1, {i1}),
   Version(r2, d1, e1, {i1}),
   Version(r3, d1, e1, {i2})}

MCZoneOfSmall == (r1 :> za) @@ (r2 :> zb)

(* Two zones of one request each, for the runs in which calls may fail.     *)
MCCopiesSmall ==
  {Version(r1, d1, e1, {i1}), Version(r1, d2, e1, {i1}), Version(r2, d1, e1, {})}

(* A request whose delivery slot is moved, which == does not see.           *)
MCCopiesMoved ==
  {Version(r1, d1, e1, {i1}), Version(r1, d1, e2, {i1}), Version(r2, d1, e1, {i1})}
============================================================================
