# ANSWR: specifications of the tasksheet

ANSWR is an iOS app for volunteers who buy groceries for the elderly. A volunteer
signs in, sees a *tasksheet* of the requests in the zones he or she is assigned
to, ticks items while shopping, and completes a request once it is delivered. The
requests live in a Firebase Realtime Database that other volunteers and the app
of the elderly change too; a copy of them, with the ticks, lives on the device in
Core Data.

This directory holds TLA+ modules translated from the Swift code under
`src/ANSWR/ANSWR`, TLC configurations for small instances, and theorems checked
by TLAPS. Line numbers refer to files under that directory.

## 1. The system

### Components

| component | state | operations | interacts with |
|---|---|---|---|
| **Saved requests**: `Handlers/CDHandler.swift`, persistent container and `saveContext` in `Delegates/AppDelegate.swift` | the `viewContext` (object graph with unsaved changes) and the store on disk: zones, requests, items with check marks, the "new" flag | `updateSavedRequests`, `loadAllZoneRequests`, `markChecked`, `markRequestAsOld`, `deleteRequest`, `deleteZoneRequest`, `addRequestToZone…`, `saveZoneRequest`, `clearAllZoneRequests` | called by the tasksheet with what a fetch delivers, and by the item cells |
| **Requests and their equality**: `Models/Request.swift`, `RequestItem.swift`, `ZoneRequests.swift` | values | `==`, conversions between copy and row | decides in `updateSavedRequests` what stays |
| **Fetch pipeline**: `fetchAllZoneRequests` in `Main/LandingViewController.swift`, `getZoneRequests`, `getRequest`, `getAllItems`, `getRequestItem`, `retrieveZones`, `ElderlyDetails` | three levels of counters and result arrays captured by closures | one read per zone, request, item and elderly; callbacks count down | Firebase; its result goes to `updateSavedRequests` |
| **Completing a request**: `markRequestAsComplete`, `updateCounters`; the alert of `RequestDetailCell`; the overlay `resultCard` of the landing screen | on the server: the request, the list of the elderly, two counters per item, the credit of the volunteer | five kinds of writes and transactions issued together | Firebase, then a refresh |
| **Tasksheet and cells**: `LandingViewController`, `RequestDetailCell`, `DetailItemCell` | the displayed zone requests, refresh control, reused cells | load, refresh, delayed reload, tick | all of the above |
| **Session**: `FirAuthHandler`, `LoginViewController`, sign-out in `ProfileViewController`, `SceneDelegate` | Firebase's current user | sign in, role check, sign out | decides which screen is shown |
| **Delegates** | — | `sceneDidEnterBackground` saves the context | Core Data |
| **Profile and information screens, view components, pods, `Login/Main/`** | display only; third-party; files that are not in the Xcode target | — | — |

### How they interact

```
 retrieveZones -> fetchAllZoneRequests ->(tree of reads)-> [ZoneRequests]
                                                              |
 relaunch -> loadAllZoneRequests <- Core Data <- updateSavedRequests
                  |                     ^
              tasksheet -- tick --- markChecked
                  |
              alert -> markRequestAsComplete ->(writes)-> server -> result -> refresh
```

All Swift code runs on the main thread, so two functions never interleave; what
interleaves is *callbacks*: answers of reads, completion blocks of writes,
timers, taps, and changes made by others on the server. The process may be ended
by the system at any time.

### What is hard, and what makes each component correct

* **Saved requests.** One update is up to dozens of separately saved deletions
  and insertions in loops that change the arrays they walk. It has to compute
  *the saved rows that are still listed, plus the copies that are not saved yet*,
  whatever the order; to keep check marks, which exist nowhere else, even when
  the process is ended in the middle; and never to leave a request saved twice,
  because later calls take the first row with an identifier.
* **Fetch pipeline.** Answers come in any order or not at all. A delivered list
  must be complete (what it lacks is deleted on the device with its check marks),
  must name only requests that were there, and must be delivered once.
* **Completion.** Five independent writes, no transaction over them, no
  error handling, several volunteers. Once everything is carried out the counters
  must agree with the requests that are left.
* **Tasksheet.** Reused cells behind an open alert, a reload 0.7 s after the
  update, overlapping refreshes delivered in the other order, rows that cannot be
  laid out. Display and saved requests have to agree; check marks may be lost with
  a request that changed, and in no other way.
* **Session.** The user is signed in before the role is checked, the sign-in button
  is never disabled, and saved requests and refreshes under way outlive a sign-out.
  The tasksheet is for volunteers, and for the one who is signed in.

`PROJECT.json` lists these as hazards, at the line where each bites, with the
properties that cover it or the reason why none does.

## 2. Modules

| module | role |
|---|---|
| `RequestData` | copies, rows, saved graphs, fetched lists; `==` as `Matches`; the reference definition `Merge` of an update; `CutShort`, what an update that was cut off may leave |
| `ServerData` | what the server holds, what `getRequest` makes of it (`CopyOf`, `IsReadable`), and which lists a fetch may deliver (`Deliverable`) |
| `TasksheetPromise` | abstract specification: the saved tasksheet as one variable changed by whole updates, cut-off updates, ticks and clearing |
| `SavedRequests` | `CDHandler` over a context and a disk, one action per pass of a loop; implements `TasksheetPromise` |
| `FetchPromise` | abstract specification of one fetch: it delivers one list that is `Deliverable`, or none |
| `ZoneFetch` | one call of `fetchAllZoneRequests` against a changing server; implements `FetchPromise` |
| `Tasksheet` | the landing screen and its cells: display, saved requests, several refreshes; built on the two promises |
| `Completion` | alert, overlay, `markRequestAsComplete`, several volunteers |
| `Session` | sign-in, role check, sign-out, launch, and whose requests are saved and on display |
| `MC…` | values of the constants for TLC |
| `…_proofs` | theorems about the module of that name |
| `Sums_proofs` | lemmas about sums over finite sets (`SumFunctionOnSet` of the community modules) |
| `Counters_proofs` | theorems about what the counters and credits of `Completion` add up to |

```
 SavedRequests --implements--> TasksheetPromise --+
                                                  +--> Tasksheet
 ZoneFetch -----implements--> FetchPromise -------+
```

`Tasksheet` is the composition: its `Deliver` takes its list from `Deliverable`, the
set `FetchPromise` delivers from, and changes the saved requests by
`TasksheetPromise!Update`; `KilledInUpdate` leaves what `CutShort` allows. What
`Tasksheet` assumes of the two lower parts is thereby what is proved of them.

Each definition's lines are given in `map` of `PROJECT.json`.

### RequestData and SavedRequests

A request is abstracted to what the code tells apart: `detail` stands for the
fields `Request.==` compares (status, name, address), `extra` for those it never
reads (delivery slot, date, quantities), `items` for the item identifiers. `==`
is not symmetric: the items of the left side must be on the right, not the other
way round, and saved rows are always on the left (`Matches(row, copy)`).

| code (`Handlers/CDHandler.swift`) | model |
|---|---|
| `viewContext`, store | `ctx`, `store` |
| `oldZoneRequests`, `newZoneRequests` | `old`, `new`: what the loops have not removed yet |
| loop over saved zones: found / not found | `EnterZone`, `DropZone` |
| loop over the saved requests of a zone | `MatchRequest`, `DropRequest` |
| copies left in the zone | `AddRequest`, then `LeaveZone` |
| `saveZoneRequest` for zones left | `InsertZone`, `FillZone`, `SaveZone` |
| `try context.save()` with `catch { print }` | `Save(g)`: `ctx' = g`, `store' = g` or, with `SaveCanFail`, unchanged |
| `try context.fetch` with `catch { print }` | `ReadFails`, with `ReadCanFail` |
| the process ends | `Kill`, enabled in every state: `ctx' = store` |
| `sceneDidEnterBackground` -> `saveContext` | `EnterBackground`, with its `fatalError` |

`before` and `fetched` are history variables: the graph an update started from
and its argument.

Abstractions: arrays sorted by zone name or date are sets taken in any order,
which covers every sorting; a predicate `"… == %s"` finds what it names; zone
objects are a set, so in runs with `ReadCanFail` the model is meaningful up to
the first zone saved twice, which is where that run ends. Arguments of an update
are `Fetchable`: one copy per request, under its own zone. `ZoneFetch` checks
that this is what a fetch delivers (`DeliveredFetchable`).

### ZoneFetch

Every `observeSingleEvent` is a record in `pending`; `AnswerVolunteer`,
`AnswerZone`, `AnswerRequest`, `AnswerItem` and `AnswerElderly` are its callbacks,
each with the guards of the code and everything it calls, down to the delivery of
the list when a counter reaches zero (`FinishRequest`, `FinishZone`). A callback
reads the server at the moment of its answer. `Denied` takes a read out of
`pending` without an answer: no call passes a cancel block. `ServerChanges` is
the environment: a request is placed, removed or changed.

`counter`, `reqCounter` and `itemCounter` are the captured counters; `requests`,
`items` and `zoneRequestsArr` the captured arrays. `versions` (what every request
was since the fetch began) and `hung` (a read was refused, or a request with empty
content was read) are history.

Assumed: `AssignedZones` names a zone once; a request identifier occurs under one
zone; the catalogue of items and the details of the elderly do not change during a
fetch; quantities are integers (one that is not ends the process in the forced cast
at `Request.swift:171`).

### Tasksheet

| code | model |
|---|---|
| `LandingViewController.zoneRequests`, the table | `shown` |
| what Core Data holds | `saved` |
| `refreshData`: fetch, update, 0.7 s, reload | `stage[k]`: "fetching", "reloading", "free", for as many refreshes as `Refreshes` has identifiers |
| `viewDidLoad` | `Launch` |
| `objcRefreshData` | `Pull`, which needs a control that does not spin |
| early returns and lost callbacks of the fetch | `Lost` |
| `onComplete` of the fetch, `updateSavedRequests` | `Deliver`, `KilledInUpdate` |
| the timer, `updateTableView`, `endRefreshing` | `Reload` |
| force-unwraps of name and address in cells and heights | `Crash` |
| `toggledItemCheck` and `markChecked` | `toggledItemCheck` |
| alert, its two buttons, the cell that may be reused under it | `completionBtnClicked`, `Cancel`, `Confirm`; `alert` |
| the removal, the two timers of the overlay | `Removed`, `ShowResult`, `HideResult` |

`seen[k]` is what every request was since refresh `k` began, `asOf` the same for the
refresh the saved requests come from, `updated` whether the last update since the
launch ran to its end: history.

Assumed: saves and reads of Core Data succeed (they are the subject of
`SavedRequests`); all rows are on screen, so that one row that cannot be laid out
ends the process; the counters of the server are the subject of `Completion` and are
left out.

### Completion

`calls[v]` are the writes a device has issued and the server has not carried out.
`Confirm` issues those of `markRequestAsComplete` at once, as the code does; each
is carried out by an action of its own in any order. A Firebase transaction is
rerun until accepted and is one atomic step; a counter at or below zero is
removed and reads as 0 (`Less`). `findUserRequest` is a read followed by a
further write (`unlist`). The counters are lowered for the items of the device's copy
only: `getAllItems` leaves out an item whose catalogue node was incomplete when the
copy was read, and the row saved from the copy lacks it too. `Confirm` therefore takes
any of `CopiedItems`, the sets of requested items that contain those of `Catalogue`,
the items whose nodes are complete all the time; two devices, or two readings, may
have different ones. `onComplete` runs after the removal whether it
succeeded or not; then two timers (`ShowResult`, which also refreshes, and
`HideResult`). Refreshes read the list and display it as two steps, so the sheet
may be out of date at any time. `alert[v]` is the set of requests the cell behind
the alert may hold: opening it gives one, a reload beneath it adds those of the
new list, because the cell may have been reused.

Assumed: a request's quantities do not change while it lives; the app of the
elderly places a request and counts its items in one step (that code is not in
this repository); an update of the display from a read list is one step here
(its details are the subject of `SavedRequests` and `Tasksheet`).

### Session

| code | model |
|---|---|
| `Auth.auth().currentUser`, which outlives the process | `user` |
| the screen that is up; `loadIndicator` | `screen`, `loading` |
| one call of `FirAuthHandler.signin`, block by block | `attempts[k]`: "sent", "authenticated", "checking" |
| the block of `Auth.signIn` with its guard on the current user | `CheckRole` |
| the block that reads `authroles` | `RoleVolunteer`, `RoleOther`, `RoleMissing` |
| `handleSignOut`, and the new login screen | `SignOut` |
| `scene(willConnectTo:)`, `viewDidLoad` of the landing screen | `Launch` |
| a refresh, with the uid `retrieveZones` took | `refreshes[k]` |
| whose requests Core Data and the table hold | `savedFor`, `shownFor` |

A block that belongs to a login screen no longer there (`here` is FALSE) dismisses
nothing. `last` says for whom the last update under this user was fetched, and
`mishaps` whether two sign-ins overlapped or the process ended on the login screen:
both are history, and `mishaps` is what the properties need as their condition.

Assumed: `signOut` does not throw; `authroles` is answered for every account; the
roles of accounts do not change.

## 3. Runs

| run | question | properties |
|---|---|---|
| `saved_requests` | 2 zones, 3 requests of which one has three versions; every order, killed anywhere: do saved requests stay coherent, keep ticks, and implement the promise? | `TypeOK`, `SavedCoherent`, `KilledUpdateKeepsTicks`, `UpdateTerminates`, `ImplementsPromise` |
| `saved_requests_failing` | any save may fail silently: are memory and disk still coherent, and does an update still compute `Merge`? | `SavedCoherent`, `UpdateReachesMerge` |
| `saved_requests_unread` | violation: a failing fetch in `loadAllZoneRequests` | `SavedZonesAreNew` |
| `saved_requests_moved` | violation: a moved delivery slot | `UpdatedToServer` |
| `zone_fetch` | reads answered in any order or refused, server changing: is the delivered list complete, true and legal, and when does the fetch end? | `TypeOK`, `DeliveredFetchable`, `DeliveredWasThere`, `ThereIsDelivered`, `NothingComesLate`, `NoAnswerNoList`, `ImplementsFetchPromise`, `FetchEnds` |
| `completion` | two volunteers sharing a zone, copies that may lack one of two items: what do the counters end up with? | `TypeOK`, `SettledAfterOne`, `NeverOverstated`, `SuccessIsTrue` |
| `completion_lossy` | calls refused or lost with the process: is anything counted twice, and does the overlay go? | `DebitedAtMostOnce`, `CompletionEnds` |
| `tasksheet` | two refreshes under way over two requests, with ticks, completions and kills: do display, saved requests and server agree? | `TypeOK`, `ShownIsSaved`, `EverythingListed`, `FirstShownAsNew`, `CompletedWasChecked` |
| `tasksheet_changing` | one request whose node takes every form: is anything stale kept, is a tick lost, does the refresh control stop? | `SavedWasThere`, `TicksOfUnchangedStay`, `RefreshControlStops` |
| `tasksheet_overtaken` | violation: a list overtaken by a later one | `DroppedWasDeleted` |
| `tasksheet_nameless` | violation: a saved request without the name of the elderly | `LaunchIsUpdated` |
| `session` | accounts of every role, two sign-ins under way, sign-outs, kills, refreshes of earlier users: who reaches the tasksheet, and whose is it? | `TypeOK`, `TasksheetIsVolunteers`, `OwnOnceRefreshed`, `SignInEnds`, `WrongRoleGoes` |

What they show:

* The loops of `updateSavedRequests` are right although they mutate the arrays
  they walk: in every order they compute `Merge`, and they end.
* Saving after every single change makes an update safe to interrupt: a request
  that is still listed keeps its check marks on disk wherever the process is
  ended. A request that changed in a way `==` sees is replaced and loses them;
  that is part of `Merge`.
* A fetch that delivers at all delivers every request that was there throughout,
  as it was at some moment, and nothing comes after. A refused read makes it deliver
  nothing, never less.
* One refused read, or one request with an empty content, keeps a fetch from ever
  delivering (`NoAnswerNoList`): `getAllItems` calls back only when its counter has
  come down to zero. This is why `FetchEnds` carries `\/ hung`.
* If no request is completed twice, the server's counters, lists and credits agree
  once all calls are carried out, however the calls of several volunteers
  interleave (`SettledAfterOne`). If a request is completed twice, from two
  devices or twice from one that is still showing it, the counters are too low,
  never too high (`NeverOverstated`).
* Both hold for the items of `Catalogue`, whatever other items a copy lacks. An item
  that is missing in the copy is never counted down: its two counters stay too high
  when the request is gone, but they are never below the demand of the live requests
  (`SettledAfterOne`). No document of the project says anything about that case.
* Calls lost or refused never debit twice (`DebitedAtMostOnce`), but may leave the
  counters too high: nothing repeats them.
* A tick goes to the copy on display and to the saved row of that name, which agree
  whenever no reload is due (`ShownIsSaved`); neither overlapping refreshes nor kills
  lose the ticks of a request that every fetch under way has seen as it is saved
  (`TicksOfUnchangedStay`). The condition is needed: a list that was overtaken does
  delete a live request (finding below).
* What is saved is what the last delivered list's own fetch saw (`SavedWasThere`,
  `EverythingListed`); the two say nothing of how old that list is.
* A request that was never checked can be completed: a reload under the alert may
  reuse the cell. `CompletedWasChecked` has this as its condition.
* Two updates within 0.7 s take the mark of a new request away before it was shown;
  this is the condition of `FirstShownAsNew`.
* The role check keeps everyone but volunteers from the tasksheet, unless the
  process ends on the login screen or during a sign-in (the next launch asks only
  whether somebody is signed in) or two sign-ins overlap (`TasksheetIsVolunteers`).
  With an overlap a sign-in may also end without a word and leave the indicator
  turning (`SignInEnds`).
* After a sign-out the requests of one volunteer stay on display for the next until
  he or she pulls the table and the update comes; then they are the right ones,
  whatever was left under way (`OwnOnceRefreshed`).

### Findings

* `saved_requests_moved`: `Request.==` compares `status` twice (`Request.swift:53`
  is named `delSlotCheck` but compares `status`) and never the delivery slot. A
  moved slot does not reach the device while the request lives.
* `saved_requests_unread`: `loadAllZoneRequests` answers `[]` when its fetch
  throws (`CDHandler.swift:153`), which the caller takes for an empty store: every
  zone and request is inserted a second time.
* `tasksheet_overtaken`: nothing orders refreshes. A list read before a request was
  placed may be delivered after one that has it; the request is deleted on the
  device with its check marks, under the comment "no match found (deleted)"
  (`CDHandler.swift:263`).
* `tasksheet_nameless`: a request whose elderly has no name or no address is saved
  with nil and force-unwrapped when its row is laid out. Every launch from then on
  ends before the update that could replace it.

### Bounds

* `saved_requests`: two zones, so that one may be kept while the other is dropped
  or inserted; two requests in one zone, so that a match, a deletion and an
  addition meet in one pass; one request with versions equal and unequal for `==`.
  No counter is bounded: the state space is finite as it is. The failing runs use
  two zones of one request, since each failing save doubles the states.
* `zone_fetch`: the volunteer is assigned to no, one or two zones; zone `za` has
  two requests and `zb` one; a node may have two items of which one is not in the
  catalogue, only that one, none, or be unreadable. `MaxChanges = 1`: one change of
  the server before or during the fetch, which already covers a request vanishing,
  appearing or changing between any two reads. The initial server is any.
* `completion`: three requests in three zones. Both volunteers deliver to the first
  zone, one of them to the second as well, nobody to the third. The first and the
  third ask for the same item, with quantities 2 and 1, so that a superfluous
  count-down of the first shows in what is counted for the third; the item is in
  `Catalogue`. The item of the second is not, so that one completion counts it down
  and another does not. `MaxConfirms = 2` confirmations in all: enough for the same
  request completed twice, and for two requests completed at once. `MaxRefreshes = 0`
  bounds only refreshes by hand; the first one and that after each completion are
  always made. `completion_lossy` has one volunteer with a refresh by hand as well,
  and an empty `Catalogue`: any completion may leave the item out.
* `tasksheet`: two slots in `Refreshes`, so that a refresh may overtake another; two
  requests in two zones; `MaxChanges = 2`, so that both may be placed, or one be
  placed and removed, during a fetch. The slots are interchangeable (`SYMMETRY`).
* `tasksheet_changing`: one request, since what is tracked is one row against its
  node; four forms of the node; one change beside completions. Without symmetry, for
  the sake of the liveness property.
* `session`: accounts of all three roles, two sign-ins and two refreshes under way.
  No counter: the state space is finite as it is.
* `CHECK_DEADLOCK FALSE` where the system does stop: a fetch is delivered once, and
  confirmations are bounded. The others are checked for deadlock.

### Fairness

* `SavedRequests!FairSpec`: weak fairness of `UpdateStep`. `updateSavedRequests` is
  synchronous code on the main thread; once entered it runs on. Ticks, updates and
  kills are not fair.
* `ZoneFetch!FairSpec`: weak fairness of `AnswerRead`. The Firebase client answers
  pending reads as long as it is connected and they are permitted; reads that are
  refused are excused by `hung`. The volunteer need not refresh.
* `Completion!FairSpec`: weak fairness, per device, of the calls carried out or
  refused and of the two timers together. The volunteer need not do anything, and
  nothing is assumed of `Kill`.
* `Tasksheet!FairSpec`: fetches are delivered, timers fire and a table that cannot
  be laid out crashes. `RefreshControlStops` is checked with `FetchesCanBeLost =
  FALSE`: a fetch that hangs or that a guard abandons does leave the control
  spinning.
* `Session!FairSpec`: every sign-in is answered, block by block, and refreshes go on.

## 4. Proofs

All theorems hold for every value of the constants that satisfies the assumptions
named in the modules.

| module | theorem | assumes | says |
|---|---|---|---|
| `SavedRequests_proofs` | `TypeCorrect` | – | `Spec => []TypeOK`, whatever fails |
| | `AlwaysCoherent` | reads succeed | `[]SavedCoherent` |
| | `UpdateIsMerge` | reads succeed | `[]UpdateReachesMerge` |
| | `TicksSurviveKill` | reads and saves succeed | `[]KilledUpdateKeepsTicks` |
| | `KeepsPromise` | reads and saves succeed | `Spec => ImplementsPromise` |
| `ZoneFetch_proofs` | `TypeCorrect` | – | `[]TypeOK`: no counter falls below zero |
| | `AnswersComeFirst` | – | `[]NothingComesLate` |
| | `ListIsFetchable`, `ListIsTrue`, `ListIsComplete` | – | `[]DeliveredFetchable`, `[]DeliveredWasThere`, `[]ThereIsDelivered` |
| | `KeepsPromise` | – | `Spec => ImplementsFetchPromise` |
| | `HungForGood` | – | `[]NoAnswerNoList` |
| `Tasksheet_proofs` | `TypeCorrect`, `DisplayIsSaved`, `NothingStale`, `NothingMissing` | – | `[]TypeOK`, `[]ShownIsSaved`, `[]SavedWasThere`, `[]EverythingListed` |
| | `CompletesChecked`, `AppearsAsNew`, `TicksStay` | – | `CompletedWasChecked`, `FirstShownAsNew`, `TicksOfUnchangedStay` |
| `Session_proofs` | `TypeCorrect`, `ShownIsOwn`, `OnlyVolunteers` | – | `[]TypeOK`, `[]OwnOnceRefreshed`, `[]TasksheetIsVolunteers` |
| `Completion_proofs` | `TypeCorrect` | – | `[]TypeOK` |
| | `SuccessIsWarranted` | no refusals, no kills | `[]SuccessIsTrue` |
| `Counters_proofs` | `NothingDebitedTwice` | – | `[]DebitedAtMostOnce` |
| | `NothingLeftCounted`, `ServerSettles` | no refusals, no kills; any `Catalogue` | `[]NeverOverstated`, `[]SettledAfterOne` |

`RequestData_proofs` has the lemmas on `Merge`, `CutShort` and ticks that
`SavedRequests_proofs` and `Tasksheet_proofs` share.

**SavedRequests.** The assumptions cannot be dropped. The run
`saved_requests_unread` shows what a failing read does to coherence. If saves fail,
`before` may hold a tick that is not on disk, which a kill then loses.
`SavedCoherent` and `UpdateReachesMerge` are not inductive: in the middle of an
update one has to know how far it has come. `IInv` says so, in named parts:

* `Remaining`: `old` and `new` are parts of what the update started with, closed
  under their zones;
* `Paired`: a copy that is left still finds its equal row among those that are
  left, and a copy that was taken leaves no row of its name;
* `ZoneByZone`: only the zone being processed has lost copies, and `cur` is that
  zone;
* `Computed`: the context is exactly *what is left of the old graph* together with
  *what was kept* and *what was added* so far.

`Computed` with empty `old` and `new` is `Merge` (`DoneIsMerge`), and any stage of it
is coherent (`MidCoherent`). Each action of `Next` has its own lemma, gathered in
`IInvStep`. `IInv` does not mention that saves succeed: the disk only has to be
coherent, and it is because it is always some earlier context. For the theorems
about the disk, `OnDisk` adds that the disk follows the context except inside
`saveZoneRequest`, where an inserted zone waits for its first save.
`KilledIsCutShort` then shows that the graph left by a kill satisfies `CutShort`,
and `KeepsPromise` maps an update's last step to `Update`, a kill in the middle to
`Interrupted`, ticks and clearing to themselves, everything else to a stutter.

**ZoneFetch.** None of the properties is inductive: they speak of the delivered
list, and the counters have to be understood on the way. `Inv` says that each
counter bounds a set *from above*: `counter` the zones that are open (their read is
out, they have requests out, or they are owed: a request was there all the time and
is not found yet), `reqCounter[k]` the requests of a zone that are sought or owed,
`itemCounter[k, id]` the items that are out or owed. A bound is enough, and unlike an
equation it survives a refused read, which takes something out without counting
down. A counter that reaches zero therefore says that nothing is out and nothing is
owed; that is when the code calls back. The rest of `Inv` says that every read in
`pending` belongs where it is (`ReadInv`), that what is found was there and is found
once (`FoundInZone`), that a request is read, then its items, then its elderly
(`SlotInv`), and that what is listed is what was found (`ListInv`). From it,
`DeliveredIsDeliverable` shows that a delivered list is one of `FetchPromise`, from
which the three properties of the list and the refinement follow. `HungForGood` adds
the converse: once something was refused or not asked for, one of the bounds is
strict (`Missing`), and an answer can move the gap up but never close it.

**Tasksheet.** `Inv` adds to the properties that saved requests are coherent, that
display and saved requests hold the same unless a reload is due, that rows not yet
displayed are new, and that the row of an alert that was not reloaded is checked.
What an update does is taken from the lemmas on `Merge` and `CutShort`, and what a
fetch delivers from the definition of `Deliverable`, so nothing depends on how many
refreshes are under way.

**Session.** `SheetInv` ties what is displayed to what was saved last, with a reload
due in between; `RoleInv` says that without mishaps at most one sign-in is under way,
what its stage says about the current user, and that the tasksheet is up only after
the role was read.

**Completion.** `OneAtATime` says that alert and overlay exclude each other on a
device, so that it has one removal under way at most and says "updating" as long as
it has; `OnItsWay` that a confirmed request still on the server is about to be
removed by some device. With refusals or kills the conclusion is false, and so are
both parts' consequences: the assumptions are needed.

**Completion: what is counted.** `Counters_proofs` looks at one counter at a time
(`requestCounter` of a zone and an item, or `requested` of an item): its value `n`,
the requests `S` it counts, their quantities `q`, how often each was confirmed, and
the transactions `P` on it that are still owed. `CounterEntry` shows that every step
of every actor is, for every counter, one of five entries in these books: a request
is placed, a completion is ordered, a completion is ordered from a copy that lacks the
item, a transaction is carried out, or transactions are lost. The third needs an item
outside `Catalogue`, the last a refusal or a kill. The entries keep

* `Issued`: no more transactions are owed for a request than it was confirmed;
* `Covered`: the value and what was confirmed make up at least the demand of `S` and
  what is still owed. This survives losses and gives `DebitedAtMostOnce`;
* `Balanced`: the value is at most the demand of the *untouched* requests, those of
  which every transaction is still owed, and equal to it while no request was
  confirmed twice. A transaction that is carried out takes its request out of these
  sets; if it was out already, a counter that is too low stays too low. A lost
  transaction would break it, and so would a completion that leaves the item out: it
  is kept for the items of `Catalogue`.

`Balanced` is what has to be known in the middle: `NeverOverstated` and
`SettledAfterOne` speak only of states in which nothing is owed, where the untouched
requests are those that were never confirmed. That these are the live ones is
`OnItsWay` in one direction and `Gone` in the other; that the elderly see the same
requests is `Listed`: what was confirmed and is listed is searched for. Two
completions of one request issue calls that differ only in their number, so
`Numbered` is needed: calls of the same number are on one device, and a new
completion takes a number above all others. For an item that copies may lack only
`Covered` is left, and it is enough: when nothing is owed and no request was confirmed
twice, what was placed splits into what is live and what was confirmed (`SumSplit`),
and `Covered` says that the counter makes up at least the live part
(`SettledOrderly`). The credits have books of their own
(`CreditsCovered`, `CreditsExact`). `LosslessInv` contains `LossyInv`. Both were
also model-checked, `LossyInv` on the instance of `completion_lossy`, `LosslessInv` on
that of `completion`.

`NothingLeftCounted` and `ServerSettles` assume that nothing is refused or lost: a
lost transaction leaves the counter too high for good, as a missing item does, which is why
`DebitedAtMostOnce` bounds the counters from below only.

**Sums.** What a sum over a finite set is follows from the definition of
`SumFunctionOnSet` by induction over the set. The induction theorems take an operator
as a parameter and cannot be used, so `Smallest` states the same with sets: a
non-empty set of subsets of a finite set has a member none of whose proper subsets
is in it (well-foundedness of the strict subset ordering). Each lemma takes the
subsets on which its claim fails and shows that there is no smallest one. For this
`CompletionAssumption` says that `Volunteers` and `Requests` are finite, which they
are in any run of the app; over infinite sets a sum has no meaning.

Only model-checked: liveness (`UpdateTerminates`, `FetchEnds`, `CompletionEnds`,
`RefreshControlStops`, `SignInEnds`, `WrongRoleGoes`), which is out of the reach of the
prover. Every invariant and every action property of a passing run is proved.

## 5. Not modelled

* Appearance: view components, extensions, profile and information screens; they
  display a value read once, and there is no state a property could be about.
* `Storyboard-ViewControllers/Login/Main/`: earlier copies, not in the target.
* Pods (Firebase, leveldb, nanopb and others, which are most of the files of the
  repository and all of its C and C++): third-party code. Their reads, writes,
  transactions and sign-in are modelled as external, as the app uses them.
* Formatting of dates and texts; the elderly's details as data. A change of these
  details during a fetch would deliver a detail that belongs to neither version of
  the node; it is excluded.
* `AssignedZones` that names a zone twice or is an empty string: whoever writes it
  is outside this code, which splits it unchecked (`UserDetailsHandler.swift:68`).

## 6. What is left

1. A run with three refreshes of `Tasksheet` and one with three volunteers of
   `Completion`; both have been left at two for their size. The theorems cover any
   number.
2. The session and the tasksheet in one module, so that a refresh begun by one
   volunteer and delivered to the next is seen with its requests and ticks.
