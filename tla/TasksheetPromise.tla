-------------------------- MODULE TasksheetPromise --------------------------
(***************************************************************************)
(* What the saved tasksheet promises its user, with the loops, the saves    *)
(* and the object context of CDHandler abstracted away.                     *)
(***************************************************************************)
EXTENDS RequestData

VARIABLE sheet   \* the saved requests as the next screen will show them

Init == sheet = EmptyGraph

(* An update that runs to its end.                                          *)
Update(f) == sheet' = Merge(sheet, f)

(* An update during which the process ends.                                 *)
Interrupted(f) == CutShort(sheet, f, sheet')

Tick(id, item, checked) ==
  \E r \in Identified(sheet, id) :
    sheet' = [sheet EXCEPT !.rows = (@ \ {r}) \union {Ticked(r, item, checked)}]

Clear == sheet' = EmptyGraph

Next ==
  \/ \E f \in Fetchable : Update(f) \/ Interrupted(f)
  \/ \E id \in Requests, item \in Items, checked \in BOOLEAN : Tick(id, item, checked)
  \/ Clear

Spec == Init /\ [][Next]_sheet
============================================================================
