SPECIFICATION FairSpec
CONSTANTS
  Clients = {c1}
  Recoverers = {r1}
  Tx = {t1, t2}
  Appendable = {a}
  Unsupported = {}
  Malformed = {}
  Nothing = Nothing
  Gaps = {1}
  MaxWal = 3
  MaxFaults = 1
  MaxCrashes = 1
PROPERTIES
  CommittedIsApplied
  ImplementsAtLeastOnce
CHECK_DEADLOCK FALSE
