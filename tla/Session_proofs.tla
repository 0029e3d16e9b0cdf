--------------------------- MODULE Session_proofs ---------------------------
(***************************************************************************)
(* Proofs about Session, for every set of accounts and of roles.            *)
(***************************************************************************)
EXTENDS Session, TLAPS

USE DEF refreshData, Down, Result, RoleIs, sheetVars

----------------------------------------------------------------------------
(* Type correctness.                                                        *)

(* A slot that is free is free, and well-typed.                             *)
LEMMA FreeSlots ==
  /\ NoAttempt \in [stage : {"free", "sent", "authenticated", "checking"},
                   account : Accounts \union {Nobody}, here : BOOLEAN]
  /\ NoAttempt.stage = "free"
  /\ NoRefresh \in [stage : {"free", "fetching", "reloading"},
                   owner : Accounts \union {Nobody}]
  /\ NoRefresh.stage = "free"
  BY DEF NoAttempt, NoRefresh

(* The initial state has the types of TypeOK.                               *)
LEMMA TypeInit == Init => TypeOK
  BY FreeSlots DEF Init, TypeOK

(* Every action of the screens, of refreshes and of sign-ins preserves them.*)
LEMMA TypeStep == TypeOK /\ [Next]_vars => TypeOK'
<1> SUFFICES ASSUME TypeOK, [Next]_vars PROVE TypeOK'
  OBVIOUS
<1> USE DEF TypeOK
<1>1. ASSUME NEW k \in Refreshes, Launch(k) \/ Pull(k) PROVE TypeOK'
  <2>1. /\ refreshes' \in [Refreshes -> [stage : {"free", "fetching", "reloading"},
                                         owner : Accounts \union {Nobody}]]
        /\ UNCHANGED <<user, loading, attempts, savedFor, last, mishaps>>
    BY <1>1 DEF Launch, Pull
  <2>2. /\ screen' \in {"down", "login", "tasksheet"}
        /\ shownFor' \in {shownFor, savedFor}
    BY <1>1 DEF Launch, Pull
  <2>3. QED  BY <2>1, <2>2
<1>2. ASSUME NEW k \in Refreshes, Deliver(k) PROVE TypeOK'
  BY <1>2 DEF Deliver
<1>3. ASSUME NEW k \in Refreshes, Reload(k) PROVE TypeOK'
  BY <1>3, FreeSlots DEF Reload
<1>4. CASE Kill \/ CompleteUnsigned
  <2>1. Down
    BY <1>4 DEF Kill, CompleteUnsigned
  <2>2. /\ attempts' = [k \in Attempts |-> NoAttempt]
        /\ refreshes' = [k \in Refreshes |-> NoRefresh]
    BY <2>1
  <2>3. /\ screen' = "down" /\ loading' = FALSE /\ shownFor' = Nobody
        /\ UNCHANGED <<user, savedFor, last>>
    BY <2>1
  <2>4. mishaps' \subseteq {"overlap", "kill"}
    BY <1>4 DEF Kill, CompleteUnsigned
  <2>5. QED  BY <2>2, <2>3, <2>4, FreeSlots
<1>5. CASE SignOut
  <2>1. /\ user' = Nobody /\ screen' = "login" /\ loading' = FALSE /\ last' = "none"
        /\ attempts' = [k \in Attempts |-> [attempts[k] EXCEPT !.here = FALSE]]
        /\ UNCHANGED <<sheetVars, mishaps>>
    BY <1>5 DEF SignOut
  <2>2. ASSUME NEW k \in Attempts
        PROVE  /\ attempts'[k] \in [stage : {"free", "sent", "authenticated", "checking"},
                                    account : Accounts \union {Nobody}, here : BOOLEAN]
               /\ attempts'[k].stage # "free" => attempts'[k].account # Nobody
    <3>1. attempts'[k] = [attempts[k] EXCEPT !.here = FALSE]
      BY <2>1
    <3>2. attempts[k] \in [stage : {"free", "sent", "authenticated", "checking"},
                           account : Accounts \union {Nobody}, here : BOOLEAN]
      OBVIOUS
    <3>3. QED  BY <3>1, <3>2
  <2>3. attempts' \in [Attempts -> [stage : {"free", "sent", "authenticated", "checking"},
                                    account : Accounts \union {Nobody}, here : BOOLEAN]]
    BY <2>1, <2>2
  <2>4. QED  BY <2>1, <2>2, <2>3
<1>6. ASSUME NEW k \in Attempts, NEW a \in Accounts, SignIn(k, a) PROVE TypeOK'
  BY <1>6, SessionAssumption DEF SignIn
<1>7. ASSUME NEW k \in Attempts, AttemptStep(k) PROVE TypeOK'
  <2>1. CASE AuthFails(k)
    BY <2>1, FreeSlots DEF AuthFails
  <2>2. CASE AuthSucceeds(k)
    BY <2>2 DEF AuthSucceeds
  <2>3. CASE CheckRole(k)
    BY <2>3, FreeSlots DEF CheckRole
  <2>4. CASE RoleVolunteer(k)
    BY <2>4, FreeSlots DEF RoleVolunteer
  <2>5. CASE RoleOther(k)
    BY <2>5, FreeSlots DEF RoleOther
  <2>6. CASE RoleMissing(k)
    BY <2>6, FreeSlots DEF RoleMissing
  <2>7. QED
    BY <1>7, <2>1, <2>2, <2>3, <2>4, <2>5, <2>6 DEF AttemptStep
<1>8. CASE UNCHANGED vars
  BY <1>8 DEF vars
<1>9. QED
  BY <1>1, <1>2, <1>3, <1>4, <1>5, <1>6, <1>7, <1>8 DEF Next

(* The variables keep their types; in particular, a role is only ever read  *)
(* for an account, although the current user may be gone when its turn      *)
(* comes (the guard in FirAuthHandler.signin).                              *)
THEOREM TypeCorrect == Spec => []TypeOK
<1>1. QED  BY TypeInit, TypeStep, PTL DEF Spec

----------------------------------------------------------------------------
(* Whose requests are on display.                                           *)

NoneReloading == \A k \in Refreshes : refreshes[k].stage # "reloading"

(* What OwnOnceRefreshed needs to be inductive: the display is what is      *)
(* saved as soon as no reload is due, and an own update is saved.           *)
SheetInv ==
  /\ TypeOK
  /\ screen = "down" => /\ \A k \in Refreshes : refreshes[k].stage = "free"
                        /\ \A k \in Attempts : attempts[k].stage = "free"
  /\ screen # "down" /\ NoneReloading => shownFor = savedFor
  /\ last = "own" => savedFor = user

(* SheetInv holds at first.                                                 *)
LEMMA SheetInit == Init => SheetInv
  BY TypeInit, FreeSlots DEF Init, SheetInv

(* Whatever happens to the session, a reload is due wherever the display    *)
(* has fallen behind what is saved.                                         *)
LEMMA SheetStep == SheetInv /\ [Next]_vars => SheetInv'
<1> SUFFICES ASSUME SheetInv, [Next]_vars PROVE SheetInv'
  OBVIOUS
<1> USE DEF SheetInv, NoneReloading
<1>0. TypeOK /\ TypeOK'
  BY TypeStep
<1>1. ASSUME NEW k \in Refreshes, Launch(k) \/ Pull(k) PROVE SheetInv'
  BY <1>0, <1>1 DEF Launch, Pull, TypeOK
<1>2. ASSUME NEW k \in Refreshes, Deliver(k) PROVE SheetInv'
  <2>1. refreshes'[k].stage = "reloading" /\ screen # "down"
    BY <1>0, <1>2 DEF Deliver, TypeOK
  <2>2. QED  BY <1>0, <1>2, <2>1 DEF Deliver
<1>3. ASSUME NEW k \in Refreshes, Reload(k) PROVE SheetInv'
  BY <1>0, <1>3, FreeSlots DEF Reload, TypeOK
<1>4. CASE Kill \/ CompleteUnsigned
  BY <1>0, <1>4, FreeSlots DEF Kill, CompleteUnsigned
<1>5. CASE SignOut
  BY <1>0, <1>5 DEF SignOut
<1>6. ASSUME NEW k \in Attempts, NEW a \in Accounts, SignIn(k, a) PROVE SheetInv'
  BY <1>0, <1>6 DEF SignIn
<1>7. ASSUME NEW k \in Attempts, AttemptStep(k) PROVE SheetInv'
  <2>1. UNCHANGED sheetVars /\ (last' = "own" => UNCHANGED <<last, user>>)
    BY <1>7 DEF AttemptStep, AuthFails, AuthSucceeds, CheckRole, RoleVolunteer, RoleOther,
                RoleMissing
  <2>2. screen # "down" /\ screen' # "down"
    BY <1>7 DEF AttemptStep, AuthFails, AuthSucceeds, CheckRole, RoleVolunteer, RoleOther,
                RoleMissing
  <2>3. QED  BY <1>0, <2>1, <2>2
<1>8. CASE UNCHANGED vars
  BY <1>0, <1>8 DEF vars
<1>9. QED
  BY <1>1, <1>2, <1>3, <1>4, <1>5, <1>6, <1>7, <1>8 DEF Next

(* The update that was last the user's own is on display, or its reload is  *)
(* due, for any number of accounts, refreshes and sign-ins under way.       *)
THEOREM ShownIsOwn == Spec => []OwnOnceRefreshed
<1>1. SheetInv => OwnOnceRefreshed
  BY DEF SheetInv, OwnOnceRefreshed, NoneReloading
<1>2. QED  BY <1>1, SheetInit, SheetStep, PTL DEF Spec

----------------------------------------------------------------------------
(* Who sees the tasksheet.                                                  *)

IsVolunteer(account) == account \in Accounts /\ RoleOf[account] = "volunteer"

(* What TasksheetIsVolunteers needs to be inductive: while nothing went     *)
(* wrong, one sign-in is under way at most, on the login screen, and the    *)
(* current user is the account whose role it reads.                         *)
Undisturbed ==
  /\ screen = "down" => user = Nobody \/ IsVolunteer(user)
  /\ screen = "tasksheet" => IsVolunteer(user)
  /\ \A k \in Attempts : attempts[k].stage # "free" => screen = "login"
  /\ \A j, k \in Attempts :
       attempts[j].stage # "free" /\ attempts[k].stage # "free" => j = k
  /\ \A k \in Attempts :
       attempts[k].stage \in {"authenticated", "checking"} => user = attempts[k].account

RoleInv == TypeOK /\ (mishaps = {} => Undisturbed)

(* RoleInv holds at first.                                                  *)
LEMMA RoleInit == Init => RoleInv
  BY TypeInit, FreeSlots DEF Init, RoleInv, Undisturbed

(* Nobody gets past the login screen before the role of the current user is *)
(* known, and a kill anywhere else changes nothing about it.                *)
LEMMA RoleStep == RoleInv /\ [Next]_vars => RoleInv'
<1>0. ASSUME RoleInv, [Next]_vars PROVE TypeOK /\ TypeOK'
  BY <1>0, TypeStep DEF RoleInv
<1>m. ASSUME [Next]_vars, mishaps' = {} PROVE mishaps = {}
  BY <1>m DEF Next, vars, Launch, Pull, Deliver, Reload, Kill, CompleteUnsigned, SignOut,
              SignIn, AttemptStep, AuthFails, AuthSucceeds, CheckRole, RoleVolunteer,
              RoleOther, RoleMissing
<1> SUFFICES ASSUME TypeOK, TypeOK', Undisturbed, [Next]_vars, mishaps' = {}
             PROVE  Undisturbed'
  BY <1>0, <1>m DEF RoleInv
<1> USE DEF Undisturbed, IsVolunteer
<1>1. ASSUME NEW k \in Refreshes, Launch(k) \/ Pull(k) \/ Deliver(k) \/ Reload(k)
      PROVE  Undisturbed'
  <2>1. UNCHANGED <<user, attempts>>
    BY <1>1 DEF Launch, Pull, Deliver, Reload
  <2>2. screen' = screen \/ (screen = "down" /\ screen' = IF user = Nobody THEN "login"
                                                          ELSE "tasksheet")
    BY <1>1 DEF Launch, Pull, Deliver, Reload
  <2>3. QED  BY <2>1, <2>2
<1>2. CASE Kill \/ CompleteUnsigned
  <2>1. screen = "tasksheet"
    BY <1>2 DEF Kill, CompleteUnsigned, TypeOK
  <2>2. Down
    BY <1>2 DEF Kill, CompleteUnsigned
  <2>3. QED  BY <2>1, <2>2, FreeSlots
<1>3. CASE SignOut
  <2>1. \A k \in Attempts : attempts'[k].stage = "free"
    BY <1>3 DEF SignOut, TypeOK
  <2>2. QED  BY <1>3, <2>1 DEF SignOut
<1>4. ASSUME NEW k \in Attempts, NEW a \in Accounts, SignIn(k, a) PROVE Undisturbed'
  <2>1. \A j \in Attempts : attempts[j].stage = "free"
    BY <1>4 DEF SignIn
  <2>2. \A j \in Attempts : attempts'[j].stage = IF j = k THEN "sent" ELSE "free"
    BY <1>4, <2>1 DEF SignIn, TypeOK
  <2>3. QED  BY <1>4, <2>2 DEF SignIn
<1>5. ASSUME NEW k \in Attempts, AttemptStep(k) PROVE Undisturbed'
  <2>1. screen = "login" /\ \A j \in Attempts \ {k} : attempts[j].stage = "free"
    BY <1>5 DEF AttemptStep, AuthFails, AuthSucceeds, CheckRole, RoleVolunteer, RoleOther,
                RoleMissing, RoleIs
  <2>2. \A j \in Attempts \ {k} : attempts'[j] = attempts[j]
    <3>1. \E a : attempts' = [attempts EXCEPT ![k] = a]
      <4>1. CASE AuthFails(k) \/ RoleVolunteer(k) \/ RoleOther(k) \/ RoleMissing(k)
        BY <4>1 DEF AuthFails, RoleVolunteer, RoleOther, RoleMissing, Result
      <4>2. CASE AuthSucceeds(k)
        BY <4>2 DEF AuthSucceeds
      <4>3. CASE CheckRole(k)
        BY <4>3 DEF CheckRole
      <4>4. QED  BY <1>5, <4>1, <4>2, <4>3 DEF AttemptStep
    <3>2. DOMAIN attempts = Attempts
      BY DEF TypeOK
    <3>3. QED  BY <3>1, <3>2
  <2>3. CASE AuthFails(k) \/ RoleOther(k) \/ RoleMissing(k)
    <3>1. screen' = screen /\ attempts' = [attempts EXCEPT ![k] = NoAttempt]
      BY <2>3 DEF AuthFails, RoleOther, RoleMissing
    <3>2. attempts'[k].stage = "free"
      BY <3>1, FreeSlots DEF TypeOK
    <3>3. QED  BY <2>1, <2>2, <3>1, <3>2
  <2>4. CASE AuthSucceeds(k)
    BY <2>1, <2>2, <2>4 DEF AuthSucceeds, TypeOK
  <2>5. CASE CheckRole(k)
    BY <2>1, <2>2, <2>5, FreeSlots DEF CheckRole, TypeOK
  <2>6. CASE RoleVolunteer(k)
    <3>1. IsVolunteer(user) /\ UNCHANGED user
      BY <2>6 DEF RoleVolunteer, RoleIs, TypeOK
    <3>2. attempts'[k].stage = "free"
      BY <2>6, FreeSlots DEF RoleVolunteer, Result, TypeOK
    <3>3. screen' \in {"login", "tasksheet"}
      BY <2>1, <2>6 DEF RoleVolunteer
    <3>4. QED  BY <2>1, <2>2, <3>1, <3>2, <3>3
  <2>7. QED
    BY <1>5, <2>3, <2>4, <2>5, <2>6 DEF AttemptStep
<1>6. CASE UNCHANGED vars
  BY <1>6 DEF vars
<1>7. QED
  BY <1>1, <1>2, <1>3, <1>4, <1>5, <1>6 DEF Next

(* The role check of FirAuthHandler.signin keeps everyone but volunteers    *)
(* from the tasksheet, unless two sign-ins overlap or the process ends on   *)
(* the login screen.                                                        *)
THEOREM OnlyVolunteers == Spec => []TasksheetIsVolunteers
<1>1. RoleInv => TasksheetIsVolunteers
  BY SessionAssumption DEF RoleInv, Undisturbed, TasksheetIsVolunteers, IsVolunteer
<1>2. QED  BY <1>1, RoleInit, RoleStep, PTL DEF Spec
============================================================================
