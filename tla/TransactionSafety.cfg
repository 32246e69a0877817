SPECIFICATION Spec
CONSTANTS
  Versions = {1, 2}
  Data = {a, b}
  Readers = {r1}
  Garbled = Garbled
  MaxCalls = 2
  MaxCrashes = 1
  MaxRot = 1
SYMMETRY Symmetry
INVARIANTS
  TypeOK
  RecoveredIsWhole
  RecoversBest
PROPERTIES
  ActivatesPresent
CHECK_DEADLOCK FALSE
