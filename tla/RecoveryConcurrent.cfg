SPECIFICATION Spec
CONSTANTS
  Clients = {c1, c2}
  Recoverers = {r1, r2}
  Tx = {t1}
  Appendable = {a}
  Unsupported = {}
  Malformed = {}
  Nothing = Nothing
  Gaps = {1}
  MaxWal = 2
  MaxFaults = 0
  MaxCrashes = 1
SYMMETRY ConcurrentSymmetry
INVARIANTS
  RememberedIsStored
  StoreJustified
  PassMeansApplied
CHECK_DEADLOCK FALSE
