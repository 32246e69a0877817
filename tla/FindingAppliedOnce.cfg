SPECIFICATION Spec
CONSTANTS
  Clients = {c1}
  Recoverers = {r1}
  Tx = {t1, t2}
  Appendable = {a}
  Unsupported = {}
  Malformed = {m}
  Nothing = Nothing
  Gaps = {2}
  MaxWal = 4
  MaxFaults = 1
  MaxCrashes = 1
INVARIANTS
  AppliedOnce
CHECK_DEADLOCK FALSE
