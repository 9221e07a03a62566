SPECIFICATION Spec
CONSTANTS
  a = a
  b = b
  c = c
  r1 = r1
  r2 = r2
  r3 = r3
  t1 = t1
  t2 = t2
  t3 = t3
  legacy = legacy
  Manage = Manage
  None = None
  Names = {a, b}
  Keys = {a}
  Fold <- LoginFold
  Permissions = {Manage}
  Canonical = {Manage}
  Managers = {b}
  InitialUsers <- LoginUsers
  Requests = {r1, r2}
  Tokens = {}
  Lifetimes = {1, 2}
  Window = 4
  MaxFailures = 3
  Lockout = 4
  Minute = 2
  MaxEntries = 1
  Patience = 1
  MaxTime = 5
  MaxChanges = 1
SYMMETRY RequestSymmetry
INVARIANTS
  ProvisionedOnce
  GuessesBounded
