SPECIFICATION FairSpec
CONSTANTS
  c1 = c1
  o1 = o1
  f1 = f1
  Creds = {c1}
  Own = {o1}
  Foreign = {f1}
  CredOf <- MCCredOf
  Callers = {"k1"}
  MaxLeaving = 1
CHECK_DEADLOCK FALSE
INVARIANTS
  OwnedIsExact
  MarkIsNoticed
  QuietViewIsFresh
PROPERTIES
  ViewConverges
