\* two sign-ins under way, the process ended anywhere
SPECIFICATION FairSpec
CONSTANTS
  v = v  o = o  n = n
  k1 = k1  k2 = k2
  a1 = a1  a2 = a2
  Accounts = {v, o, n}
  Nobody = Nobody
  RoleOf <- MCRoleOf
  Attempts = {a1, a2}
  Refreshes = {k1, k2}
INVARIANTS
  TypeOK
  TasksheetIsVolunteers
  OwnOnceRefreshed
PROPERTIES
  SignInEnds
  WrongRoleGoes
