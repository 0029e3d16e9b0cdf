----------------------------- MODULE Tasksheet -----------------------------
(***************************************************************************)
(* LandingViewController and its cells: the tasksheet on display, the saved *)
(* tasksheet under it, and the refreshes that bring both up to date.        *)
(*                                                                          *)
(* A refresh is a fetch, an update of the saved requests and, 0.7 s later,  *)
(* a reload of the table.  Several may be under way: one begins at launch,  *)
(* one with every pull, one with every completed request.  What a fetch     *)
(* delivers is taken from FetchPromise and what an update does from         *)
(* TasksheetPromise; all saves and reads of Core Data succeed here.         *)
(***************************************************************************)
EXTENDS ServerData, Naturals

CONSTANTS
  Assigned,           \* the zones of the volunteer
  Undisplayable,      \* details in which the name or address of the elderly is nil
  Refreshes,          \* identifiers of refreshes: as many are under way at most
  NoRequest,          \* stands for "no request is being completed"
  FetchesCanBeLost,   \* whether a fetch may end without a list
  CanBeKilled,        \* whether the process may be ended
  MaxChanges          \* bound on the changes made by others

ASSUME TasksheetAssumption ==
  /\ Assigned \subseteq Zones /\ Undisplayable \subseteq Details
  /\ NoRequest \notin Requests
  /\ FetchesCanBeLost \in BOOLEAN /\ CanBeKilled \in BOOLEAN /\ MaxChanges \in Nat

VARIABLES
  server,      \* the node of every request
  saved,       \* the saved requests
  up,          \* whether the process runs
  shown,       \* zoneRequests: the requests on display
  stage,       \* per refresh: "free", "fetching" or "reloading" (the 0.7 s)
  seen,        \* per refresh: the nodes of every request since it began
  spinning,    \* refreshControl.isRefreshing
  alert,       \* the rows the cell of the alert may hold; {}: no alert
  card,        \* the overlay resultCard, which takes all touches
  completing,  \* the request whose removal is not carried out yet
  changes,     \* changes made by others so far
  asOf,        \* history: seen, of the refreshes the saved requests come from
  updated      \* history: whether the last update since the launch ran to its end

screenVars == <<spinning, alert, card, completing>>
refreshVars == <<stage, seen>>
history == <<asOf, updated>>
vars == <<server, saved, up, shown, refreshVars, screenVars, changes, history>>

Unseen == [id \in Requests |-> {}]

Init ==
  /\ server \in Server
  /\ saved = EmptyGraph /\ shown = EmptyGraph
  /\ up = FALSE
  /\ stage = [k \in Refreshes |-> "free"]
  /\ seen = [k \in Refreshes |-> Unseen]
  /\ spinning = FALSE /\ alert = {} /\ card = "hidden" /\ completing = NoRequest
  /\ changes = 0
  /\ asOf = Unseen /\ updated = FALSE

----------------------------------------------------------------------------
(* Building a cell force-unwraps the name of the elderly, and computing its *)
(* height the address.  All rows are taken to be on screen.                 *)
Displayable(g) == \A r \in g.rows : r.detail \notin Undisplayable

Running == up /\ Displayable(shown)

(* fetchAllZoneRequests, in a free slot.                                    *)
BeginFetch(k) ==
  /\ stage[k] = "free"
  /\ stage' = [stage EXCEPT ![k] = "fetching"]
  /\ seen' = [seen EXCEPT ![k] = [id \in Requests |-> {server[id]}]]

(* viewDidLoad: the saved requests are displayed and refreshed.             *)
Launch(k) ==
  /\ ~up
  /\ up' = TRUE
  /\ shown' = saved
  /\ BeginFetch(k)
  /\ updated' = FALSE
  /\ UNCHANGED <<server, saved, screenVars, changes, asOf>>

Touchable == Running /\ alert = {} /\ card = "hidden"

(* Pulling the table down calls objcRefreshData.  A refresh control that    *)
(* spins cannot be pulled.                                                  *)
Pull(k) ==
  /\ Touchable /\ ~spinning
  /\ spinning' = TRUE
  /\ BeginFetch(k)
  /\ UNCHANGED <<server, saved, up, shown, alert, card, completing, changes, history>>

(* No user, no assigned zones, a read refused, a request without items.     *)
Lost(k) ==
  /\ FetchesCanBeLost
  /\ Running /\ stage[k] = "fetching"
  /\ stage' = [stage EXCEPT ![k] = "free"]
  /\ seen' = [seen EXCEPT ![k] = Unseen]
  /\ UNCHANGED <<server, saved, up, shown, screenVars, changes, history>>

Saved == INSTANCE TasksheetPromise WITH sheet <- saved

DeliverWith(k, f) ==
  /\ Running /\ stage[k] = "fetching"
  /\ stage' = [stage EXCEPT ![k] = "reloading"]
  /\ seen' = [seen EXCEPT ![k] = Unseen]
  /\ asOf' = seen[k]
  /\ updated' = TRUE
  /\ UNCHANGED <<server, up, shown, screenVars, changes>>

(* Mutant: requests that are not fetched again stay saved.                  *)
Deliver_nothingDropped(k) ==
  \E f \in Deliverable(Assigned, seen[k]) :
    /\ saved' = [zones |-> saved.zones \union f.zones,
                 rows  |-> {r \in saved.rows : \A c \in f.copies : c.id # r.id}
                             \union Merge(saved, f).rows]
    /\ DeliverWith(k, f)

(* Mutant: the saved requests are replaced by those fetched.                *)
Deliver_replacing(k) ==
  \E f \in Deliverable(Assigned, seen[k]) :
    /\ saved' = Merge(EmptyGraph, f)
    /\ DeliverWith(k, f)

(* Mutant: a list may be delivered before all of its zones are answered.    *)
Deliver_early(k) ==
  \E f \in Deliverable(Assigned, seen[k]), zones \in SUBSET Assigned :
    LET part == [zones  |-> f.zones \intersect zones,
                 copies |-> {c \in f.copies : ZoneOf[c.id] \in zones}]
    IN  Saved!Update(part) /\ DeliverWith(k, part)

(* Mutant: requests just added are marked as old with the others.           *)
Deliver_markedOld(k) ==
  \E f \in Deliverable(Assigned, seen[k]) :
    /\ saved' = [Merge(saved, f) EXCEPT !.rows = {Seen(r) : r \in @}]
    /\ DeliverWith(k, f)

(* The list arrives and the saved requests are updated.                     *)
Deliver(k) ==
  \E f \in Deliverable(Assigned, seen[k]) : Saved!Update(f) /\ DeliverWith(k, f)

Mixtures(g, f) ==
  {h \in [zones : SUBSET (g.zones \union f.zones),
          rows  : SUBSET (g.rows \union Merge(g, f).rows)] : CutShort(g, f, h)}

(* The end of the process: what is not saved is gone.                       *)
Down ==
  /\ up' = FALSE
  /\ shown' = EmptyGraph
  /\ stage' = [k \in Refreshes |-> "free"]
  /\ seen' = [k \in Refreshes |-> Unseen]
  /\ spinning' = FALSE /\ alert' = {} /\ card' = "hidden" /\ completing' = NoRequest

(* The process ends during the update.                                      *)
KilledInUpdate(k) ==
  /\ CanBeKilled
  /\ Running /\ stage[k] = "fetching"
  /\ \E f \in Deliverable(Assigned, seen[k]) : saved' \in Mixtures(saved, f)
  /\ Down
  /\ asOf' = [id \in Requests |-> asOf[id] \union seen[k][id]]
  /\ updated' = FALSE
  /\ UNCHANGED <<server, changes>>

(* Mutant: the refresh control is left alone while an alert is open.        *)
Reload_underAlert(k) ==
  /\ Running /\ stage[k] = "reloading"
  /\ stage' = [stage EXCEPT ![k] = "free"]
  /\ shown' = saved
  /\ spinning' = (spinning /\ alert # {})
  /\ alert' = IF alert = {} THEN {} ELSE alert \union saved.rows
  /\ UNCHANGED <<server, saved, up, seen, card, completing, changes, history>>

(* 0.7 s later.  Under an alert the table is reloaded too: the cell that    *)
(* opened the alert may be reused for any row of the new list.              *)
Reload(k) ==
  /\ Running /\ stage[k] = "reloading"
  /\ stage' = [stage EXCEPT ![k] = "free"]
  /\ shown' = saved
  /\ spinning' = FALSE
  /\ alert' = IF alert = {} THEN {} ELSE alert \union saved.rows
  /\ UNCHANGED <<server, saved, up, seen, card, completing, changes, history>>

(* Laying the table out ends the process when a row cannot be displayed.    *)
Crash ==
  /\ up /\ ~Displayable(shown)
  /\ Down
  /\ UNCHANGED <<server, saved, changes, history>>

(* The process may end at any time.  A removal that was sent may reach the  *)
(* server all the same.                                                     *)
Kill ==
  /\ CanBeKilled /\ up
  /\ Down
  /\ \/ UNCHANGED server
     \/ completing # NoRequest /\ server' = [server EXCEPT ![completing] = Nothing]
  /\ UNCHANGED <<saved, changes, history>>

----------------------------------------------------------------------------
(* The cells.                                                               *)

TickIn(g, id, item, checked) ==
  [g EXCEPT !.rows = {IF r.id = id THEN Ticked(r, item, checked) ELSE r : r \in @}]

(* Mutant: markChecked is called before the item is toggled.               *)
toggledItemCheck_before(row, item) ==
  /\ Touchable
  /\ row \in shown.rows /\ item \in row.items
  /\ LET checked == item \notin row.checked IN
     /\ shown' = TickIn(shown, row.id, item, checked)
     /\ saved' = TickIn(saved, row.id, item, ~checked)
  /\ UNCHANGED <<server, up, refreshVars, screenVars, changes, history>>

(* The item on display is toggled, and markChecked sets the saved one to    *)
(* the same, if a request of that name is still saved.                      *)
toggledItemCheck(row, item) ==
  /\ Touchable
  /\ row \in shown.rows /\ item \in row.items
  /\ LET checked == item \notin row.checked IN
     /\ shown' = TickIn(shown, row.id, item, checked)
     /\ saved' = TickIn(saved, row.id, item, checked)
  /\ UNCHANGED <<server, up, refreshVars, screenVars, changes, history>>

(* updateCompletionBtn                                                      *)
AllChecked(row) == row.checked = row.items

(* Mutant: the button is left enabled when a cell is reused.                *)
completionBtnClicked_stillEnabled(row) ==
  /\ Touchable
  /\ row \in shown.rows /\ (\E r \in shown.rows : AllChecked(r))
  /\ alert' = {row}
  /\ UNCHANGED <<server, saved, up, shown, refreshVars, spinning, card, completing,
                 changes, history>>

completionBtnClicked(row) ==
  /\ Touchable
  /\ row \in shown.rows /\ AllChecked(row)
  /\ alert' = {row}
  /\ UNCHANGED <<server, saved, up, shown, refreshVars, spinning, card, completing,
                 changes, history>>

Cancel ==
  /\ Running /\ alert # {}
  /\ alert' = {}
  /\ UNCHANGED <<server, saved, up, shown, refreshVars, spinning, card, completing,
                 changes, history>>

(* completeRequest, for the request the cell holds now.                     *)
Confirm(row) ==
  /\ Running /\ row \in alert
  /\ alert' = {}
  /\ card' = "updating"
  /\ completing' = row.id
  /\ UNCHANGED <<server, saved, up, shown, refreshVars, spinning, changes, history>>

(* What a change of a node does to the fetches under way.                   *)
Change(id, node) ==
  /\ server' = [server EXCEPT ![id] = node]
  /\ seen' = [k \in Refreshes |->
       IF stage[k] = "fetching" THEN [seen[k] EXCEPT ![id] = @ \union {node}] ELSE seen[k]]

(* Mutant: a removal that is refused is not reported.                       *)
Removed_refusedUnreported ==
  /\ Running /\ card = "updating"
  /\ \/ Change(completing, Nothing) /\ card' = "answered"
     \/ UNCHANGED <<server, seen, card>>
  /\ completing' = NoRequest
  /\ UNCHANGED <<saved, up, shown, stage, spinning, alert, changes, history>>

(* The completion block runs whether the removal was accepted or not.       *)
Removed ==
  /\ Running /\ card = "updating"
  /\ \/ Change(completing, Nothing)
     \/ UNCHANGED <<server, seen>>
  /\ card' = "answered"
  /\ completing' = NoRequest
  /\ UNCHANGED <<saved, up, shown, stage, spinning, alert, changes, history>>

(* A second later the result is shown and a refresh begins, ...             *)
ShowResult(k) ==
  /\ Running /\ card = "answered"
  /\ card' = "result"
  /\ BeginFetch(k)
  /\ UNCHANGED <<server, saved, up, shown, spinning, alert, completing, changes, history>>

(* ... and a second and a half after that the overlay goes.                 *)
HideResult ==
  /\ Running /\ card = "result"
  /\ card' = "hidden"
  /\ UNCHANGED <<server, saved, up, shown, refreshVars, spinning, alert, completing,
                 changes, history>>

(* External: the elderly and other volunteers.                              *)
ServerChanges ==
  /\ changes < MaxChanges
  /\ changes' = changes + 1
  /\ \E id \in Requests, node \in Nodes \union {Nothing} :
       server[id] # node /\ Change(id, node)
  /\ UNCHANGED <<saved, up, shown, stage, screenVars, history>>

Next ==
  \/ \E k \in Refreshes :
       \/ Launch(k) \/ Pull(k) \/ Lost(k) \/ Deliver(k) \/ KilledInUpdate(k)
       \/ Reload(k) \/ ShowResult(k)
  \/ \E row \in shown.rows :
       completionBtnClicked(row) \/ \E item \in Items : toggledItemCheck(row, item)
  \/ Cancel \/ (\E row \in alert : Confirm(row))
  \/ Removed \/ HideResult
  \/ Crash \/ Kill
  \/ ServerChanges

Spec == Init /\ [][Next]_vars

(* Fetches are answered, timers fire and the table is laid out; neither the *)
(* volunteer nor the server need do anything.                               *)
FairSpec ==
  /\ Spec
  /\ \A k \in Refreshes : WF_vars(Deliver(k)) /\ WF_vars(Reload(k))
  /\ WF_vars(Crash)

----------------------------------------------------------------------------
(* Properties                                                               *)

TypeOK ==
  /\ server \in Server
  /\ saved \in Graph /\ shown \in Graph
  /\ up \in BOOLEAN
  /\ stage \in [Refreshes -> {"free", "fetching", "reloading"}]
  /\ seen \in [Refreshes -> Versions]
  /\ spinning \in BOOLEAN
  /\ alert \in SUBSET Row
  /\ card \in {"hidden", "updating", "answered", "result"}
  /\ completing \in Requests \union {NoRequest}
  /\ card = "updating" => completing # NoRequest
  /\ changes \in 0 .. MaxChanges
  /\ asOf \in Versions /\ updated \in BOOLEAN

(* Unless a reload is due, what is on display is what is saved, check marks *)
(* included, although ticks go to copies that were loaded earlier.          *)
ShownIsSaved ==
  up /\ (\A k \in Refreshes : stage[k] # "reloading") => shown = saved

(* Every saved request was on the server, with the details it is saved      *)
(* with, during the fetch of the last update (or during one of those cut    *)
(* off since): nothing older survives an update.  That fetch may itself     *)
(* have been overtaken by another.                                          *)
SavedWasThere ==
  \A r \in saved.rows :
    \E node \in asOf[r.id] : IsReadable(node) /\ Matches(r, CopyOf(r.id, node))

(* After an update the requests of the volunteer that were on the server    *)
(* during its fetch, overtaken or not, are all saved.                       *)
EverythingListed ==
  updated =>
    \A id \in Requests :
      ZoneOf[id] \in Assigned /\ (\A node \in asOf[id] : IsReadable(node))
        => Identified(saved, id) # {}

(* The request is on the server as it is saved, now and at all moments of   *)
(* the fetches under way.                                                   *)
Steady(r) ==
  \A k \in Refreshes : stage[k] = "fetching" =>
    \A node \in seen[k][r.id] : IsReadable(node) /\ Matches(r, CopyOf(r.id, node))

(* Check marks, which exist on the device only, are not lost with a request *)
(* that every fetch under way has seen as it is saved: neither by           *)
(* overlapping refreshes nor by the end of the process in an update.        *)
TicksOfUnchangedStay ==
  [][\A r \in saved.rows :
       ZoneOf[r.id] \in Assigned /\ Steady(r) =>
         \E s \in saved'.rows :
           /\ s.id = r.id
           /\ \/ s.checked = r.checked
              \/ \E row \in Identified(shown, r.id) :
                   \E item \in Items : toggledItemCheck(row, item)]_vars

(* A request that appears on display is marked as new, unless a second      *)
(* update took the mark away within the 0.7 s before the reload.            *)
FirstShownAsNew ==
  [][\A k \in Refreshes :
       Reload(k) /\ (\A j \in Refreshes \ {k} : stage[j] # "reloading") =>
         \A r \in shown'.rows : Identified(shown, r.id) = {} => r.isNew]_vars

(* The request that is completed had all its items checked, unless the      *)
(* table was reloaded under the alert.                                      *)
CompletedWasChecked ==
  [][\A row \in alert : Confirm(row) /\ alert = {row} => AllChecked(row)]_vars

(* If fetches are answered, the refresh control stops.                      *)
RefreshControlStops == spinning ~> ~spinning

(* "no match found (deleted) - delete old request", says CDHandler.swift:   *)
(* 263: a request goes from the saved ones when it is gone from the server. *)
DroppedWasDeleted ==
  [][\A r \in saved.rows :
       (\E k \in Refreshes : Deliver(k)) /\ Identified(saved', r.id) = {}
         => server[r.id] = Nothing]_vars

(* "Preload saved requests from core data", "Then attempt to update from    *)
(* server", say LandingViewController.swift:48 and 52: with a server that   *)
(* answers, a launch leads to an update.                                    *)
LaunchIsUpdated == up ~> updated
============================================================================
