------------------------------ MODULE Session ------------------------------
(***************************************************************************)
(* Who is signed in, which screen is up, and whose requests it shows:       *)
(* FirAuthHandler, the login screen, sign-out and launch.                   *)
(*                                                                          *)
(* A sign-in is a chain of callbacks.  Firebase makes the account its       *)
(* current user, which outlives the process, before any of them runs; the   *)
(* role is read after that.  The button of the login screen is never        *)
(* disabled, so that several attempts may be under way.  The landing screen *)
(* stays loaded beneath the login screen, its refreshes with it.            *)
(***************************************************************************)
CONSTANTS
  Accounts, Nobody,
  RoleOf,          \* what authroles/<uid> holds: "volunteer", "other" or "none"
  Attempts,        \* identifiers of sign-ins: as many are under way at most
  Refreshes        \* identifiers of refreshes, likewise

ASSUME SessionAssumption ==
  /\ RoleOf \in [Accounts -> {"volunteer", "other", "none"}]
  /\ Nobody \notin Accounts

VARIABLES
  user,       \* Auth.auth().currentUser
  screen,     \* "down", "login" or "tasksheet"
  loading,    \* the loadIndicator of the login screen
  attempts,   \* per attempt: its stage, its account, its screen being up still
  refreshes,  \* per refresh: its stage and the account it reads the zones of
  savedFor,   \* the account whose requests are saved
  shownFor,   \* the account whose requests are on display
  last,       \* history: what the last update under this user was: "none",
              \* "own", or "stray" if it was fetched for another account
  mishaps     \* history: "overlap" if a sign-in was begun while another was
              \* under way, "kill" if the process ended on the login screen
              \* or during a sign-in

vars == <<user, screen, loading, attempts, refreshes, savedFor, shownFor, last, mishaps>>
sheetVars == <<refreshes, savedFor, shownFor>>

NoAttempt == [stage |-> "free", account |-> Nobody, here |-> FALSE]
NoRefresh == [stage |-> "free", owner |-> Nobody]

Init ==
  /\ user = Nobody
  /\ screen = "down" /\ loading = FALSE
  /\ attempts = [k \in Attempts |-> NoAttempt]
  /\ refreshes = [k \in Refreshes |-> NoRefresh]
  /\ savedFor = Nobody /\ shownFor = Nobody
  /\ last = "none" /\ mishaps = {}

----------------------------------------------------------------------------
(* The tasksheet, as far as it depends on the account.                      *)

(* retrieveZones takes the uid when it is called and answers nil without a  *)
(* user; the refresh is then abandoned.                                     *)
refreshData(k) ==
  /\ refreshes[k].stage = "free"
  /\ refreshes' = IF user = Nobody THEN refreshes
                  ELSE [refreshes EXCEPT ![k] = [stage |-> "fetching", owner |-> user]]

(* The saved requests are displayed and refreshed whether somebody is       *)
(* signed in or not; if nobody is, the login screen is put over them.       *)
Launch(k) ==
  /\ screen = "down"
  /\ screen' = IF user = Nobody THEN "login" ELSE "tasksheet"
  /\ shownFor' = savedFor
  /\ refreshData(k)
  /\ UNCHANGED <<user, loading, attempts, savedFor, last, mishaps>>

Pull(k) ==
  /\ screen = "tasksheet"
  /\ refreshData(k)
  /\ UNCHANGED <<user, screen, loading, attempts, savedFor, shownFor, last, mishaps>>

(* The list is saved whoever is signed in by now.                           *)
Deliver(k) ==
  /\ refreshes[k].stage = "fetching"
  /\ refreshes' = [refreshes EXCEPT ![k].stage = "reloading"]
  /\ savedFor' = refreshes[k].owner
  /\ last' = IF user = Nobody THEN "none"
             ELSE IF refreshes[k].owner = user THEN "own" ELSE "stray"
  /\ UNCHANGED <<user, screen, loading, attempts, shownFor, mishaps>>

(* Mutant: the table is reloaded without loading the saved requests.        *)
Reload_only(k) ==
  /\ refreshes[k].stage = "reloading"
  /\ refreshes' = [refreshes EXCEPT ![k] = NoRefresh]
  /\ UNCHANGED <<user, screen, loading, attempts, savedFor, shownFor, last, mishaps>>

Reload(k) ==
  /\ refreshes[k].stage = "reloading"
  /\ refreshes' = [refreshes EXCEPT ![k] = NoRefresh]
  /\ shownFor' = savedFor
  /\ UNCHANGED <<user, screen, loading, attempts, savedFor, last, mishaps>>

(* The end of the process.  The current user and the saved requests stay.   *)
Down ==
  /\ screen' = "down" /\ loading' = FALSE
  /\ attempts' = [k \in Attempts |-> NoAttempt]
  /\ refreshes' = [k \in Refreshes |-> NoRefresh]
  /\ shownFor' = Nobody
  /\ UNCHANGED <<user, savedFor, last>>

Kill ==
  /\ screen # "down"
  /\ Down
  /\ mishaps' = mishaps \union
       (IF screen = "login" \/ \E k \in Attempts : attempts[k].stage # "free"
        THEN {"kill"} ELSE {})

(* markRequestAsComplete force-unwraps the current user.                    *)
CompleteUnsigned ==
  /\ screen = "tasksheet" /\ user = Nobody
  /\ Down
  /\ UNCHANGED mishaps

----------------------------------------------------------------------------
(* FirAuthHandler and the login screen.                                     *)

(* ProfileViewController.handleSignOut: signs out and presents a new login  *)
(* screen, whose viewDidLoad signs out again.                               *)
SignOut ==
  /\ screen = "tasksheet"
  /\ user' = Nobody
  /\ screen' = "login" /\ loading' = FALSE
  /\ attempts' = [k \in Attempts |-> [attempts[k] EXCEPT !.here = FALSE]]
  /\ last' = "none"
  /\ UNCHANGED <<sheetVars, mishaps>>

SignIn(k, account) ==
  /\ screen = "login"
  /\ attempts[k].stage = "free"
  /\ attempts' = [attempts EXCEPT ![k] =
       [stage |-> "sent", account |-> account, here |-> TRUE]]
  /\ loading' = TRUE
  /\ mishaps' = mishaps \union
       (IF \E j \in Attempts : attempts[j].stage # "free" THEN {"overlap"} ELSE {})
  /\ UNCHANGED <<user, screen, sheetVars, last>>

(* A result ends an attempt.  It is displayed by the screen that asked.     *)
Result(k) ==
  /\ attempts' = [attempts EXCEPT ![k] = NoAttempt]
  /\ loading' = IF attempts[k].here THEN FALSE ELSE loading

(* An address, a password or the connection is no good.                     *)
AuthFails(k) ==
  /\ attempts[k].stage = "sent"
  /\ Result(k)
  /\ UNCHANGED <<user, screen, sheetVars, last, mishaps>>

(* Firebase has set the current user, its completion block is still queued. *)
AuthSucceeds(k) ==
  /\ attempts[k].stage = "sent"
  /\ attempts' = [attempts EXCEPT ![k].stage = "authenticated"]
  /\ user' = attempts[k].account
  /\ last' = "none"
  /\ UNCHANGED <<screen, loading, sheetVars, mishaps>>

(* Mutant: the guard on the current user is missing.                        *)
CheckRole_unguarded(k) ==
  /\ attempts[k].stage = "authenticated"
  /\ attempts' = [attempts EXCEPT ![k].stage = "checking", ![k].account = user]
  /\ UNCHANGED <<user, screen, loading, sheetVars, last, mishaps>>

(* The block reads the role of whoever is the current user by now, and      *)
(* returns without a result when nobody is.                                 *)
CheckRole(k) ==
  /\ attempts[k].stage = "authenticated"
  /\ attempts' = [attempts EXCEPT ![k] =
       IF user = Nobody THEN NoAttempt
       ELSE [stage |-> "checking", account |-> user, here |-> @.here]]
  /\ UNCHANGED <<user, screen, loading, sheetVars, last, mishaps>>

RoleIs(k, role) == attempts[k].stage = "checking" /\ RoleOf[attempts[k].account] = role

(* finishSignIn dismisses the login screen, if it is up still.              *)
RoleVolunteer(k) ==
  /\ RoleIs(k, "volunteer")
  /\ Result(k)
  /\ screen' = IF attempts[k].here THEN "tasksheet" ELSE screen
  /\ UNCHANGED <<user, sheetVars, last, mishaps>>

(* Mutant: the account with another role is not signed out.                 *)
RoleOther_staysSignedIn(k) ==
  /\ RoleIs(k, "other")
  /\ Result(k)
  /\ UNCHANGED <<user, screen, sheetVars, last, mishaps>>

(* .wrongRole: whoever is the current user is signed out.                   *)
RoleOther(k) ==
  /\ RoleIs(k, "other")
  /\ Result(k)
  /\ user' = Nobody
  /\ last' = "none"
  /\ UNCHANGED <<screen, sheetVars, mishaps>>

(* Mutant: a role that is missing ends the attempt without a result.        *)
RoleMissing_silent(k) ==
  /\ RoleIs(k, "none")
  /\ attempts' = [attempts EXCEPT ![k] = NoAttempt]
  /\ UNCHANGED <<user, screen, loading, sheetVars, last, mishaps>>

(* Mutant: a role that is missing counts as a success.                      *)
RoleMissing_success(k) ==
  /\ RoleIs(k, "none")
  /\ Result(k)
  /\ screen' = IF attempts[k].here THEN "tasksheet" ELSE screen
  /\ UNCHANGED <<user, sheetVars, last, mishaps>>

(* .other: nobody is signed out.                                            *)
RoleMissing(k) ==
  /\ RoleIs(k, "none")
  /\ Result(k)
  /\ UNCHANGED <<user, screen, sheetVars, last, mishaps>>

AttemptStep(k) ==
  \/ AuthFails(k) \/ AuthSucceeds(k) \/ CheckRole(k)
  \/ RoleVolunteer(k) \/ RoleOther(k) \/ RoleMissing(k)

Next ==
  \/ \E k \in Refreshes : Launch(k) \/ Pull(k) \/ Deliver(k) \/ Reload(k)
  \/ Kill \/ CompleteUnsigned \/ SignOut
  \/ \E k \in Attempts : AttemptStep(k) \/ \E a \in Accounts : SignIn(k, a)

Spec == Init /\ [][Next]_vars

(* The servers answer and timers fire.  The volunteer need not do anything. *)
FairSpec ==
  /\ Spec
  /\ \A k \in Attempts : WF_vars(AttemptStep(k))
  /\ \A k \in Refreshes : WF_vars(Deliver(k)) /\ WF_vars(Reload(k))

----------------------------------------------------------------------------
(* Properties                                                               *)

TypeOK ==
  /\ user \in Accounts \union {Nobody}
  /\ screen \in {"down", "login", "tasksheet"}
  /\ loading \in BOOLEAN
  /\ attempts \in [Attempts -> [stage : {"free", "sent", "authenticated", "checking"},
                                account : Accounts \union {Nobody}, here : BOOLEAN]]
  /\ \A k \in Attempts : attempts[k].stage # "free" => attempts[k].account # Nobody
  /\ refreshes \in [Refreshes -> [stage : {"free", "fetching", "reloading"},
                                  owner : Accounts \union {Nobody}]]
  /\ savedFor \in Accounts \union {Nobody}
  /\ shownFor \in Accounts \union {Nobody}
  /\ last \in {"none", "own", "stray"}
  /\ mishaps \subseteq {"overlap", "kill"}

(* The tasksheet is up for a volunteer who is signed in, whom completing a  *)
(* request can credit ("check authrole", FirAuthHandler.swift:64), whatever *)
(* the answers and wherever else the process ends.                          *)
TasksheetIsVolunteers ==
  screen = "tasksheet" /\ mishaps = {} => user # Nobody /\ RoleOf[user] = "volunteer"

(* Once an update fetched for the user was the last one, it is his or her   *)
(* requests that are on display, whatever earlier sessions left saved or    *)
(* under way.                                                               *)
OwnOnceRefreshed ==
  /\ screen # "down"
  /\ last = "own"
  /\ \A k \in Refreshes : refreshes[k].stage # "reloading"
  => shownFor = user

(* A sign-in comes to an end on the screen that began it.  Of two at a time *)
(* one may sign the other out, whose callback then returns without a word.  *)
SignInEnds == loading ~> (~loading \/ "overlap" \in mishaps)

(* An account of another role does not stay signed in, in whatever order    *)
(* several attempts are answered.                                           *)
WrongRoleGoes ==
  \A a \in Accounts : RoleOf[a] = "other" => (user = a ~> (user # a \/ "kill" \in mishaps))
============================================================================
