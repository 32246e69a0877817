SPECIFICATION Spec
CONSTANTS
  Clients = {c1}
  Recoverers = {r1}
  Tx = {t1, t2}
  Appendable = {a}
  Unsupported = {u}
  Malformed = {m}
  Nothing = Nothing
  Gaps = {2}
  MaxWal = 4
  MaxFaults = 1
  MaxCrashes = 1
SYMMETRY Symmetry
INVARIANTS
  TypeOK
  RememberedIsStored
  StoreJustified
  PassMeansApplied
  CopiesBounded
  SeqIsPlace
PROPERTIES
  NeverForgets
CHECK_DEADLOCK FALSE
