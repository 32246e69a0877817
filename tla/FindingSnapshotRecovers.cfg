SPECIFICATION Spec
CONSTANTS
  seed = seed
  bridge = bridge
  i = i
  x = x
  y = y
  NoId = NoId
  Kinds = {seed, bridge}
  Texts = {x, y}
  Ids <- MCIds
  Payloads <- MCPayloads
  Precedes <- MCPrecedes
  MaxBase = 1
  MaxEntries = 2
  MaxRuns = 3
  MaxCrashes = 1
INVARIANTS
  SnapshotRecovers
CHECK_DEADLOCK FALSE
