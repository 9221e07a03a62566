SPECIFICATION Spec
CONSTANTS
  a = a
  b = b
  c = c
  legacy = legacy
  r1 = r1
  r2 = r2
  r3 = r3
  t1 = t1
  t2 = t2
  t3 = t3
  Manage = Manage
  None = None
  Names = {a, b}
  Keys = {a}
  Fold <- AccessFold
  Permissions = {Manage, legacy}
  Canonical = {Manage}
  Managers = {a, b}
  InitialUsers <- AccessUsers
  Requests = {r1, r2}
  Tokens = {t1, t2}
  Lifetimes = {1}
  Window = 1
  MaxFailures = 1
  Lockout = 1
  Minute = 1
  MaxEntries = 0
  Patience = 0
  MaxTime = 2
  MaxChanges = 3
SYMMETRY RequestSymmetry
INVARIANTS
  ManagerRemains
  TrailReplays
  DeactivationRevokes
  InactiveNotServed
