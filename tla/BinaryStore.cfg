SPECIFICATION Spec
CONSTANTS
  Rows <- MCRows
  Sizes <- MCSizes
  Buffer = 13
  Writes <- MCWrites
  Trusts = {0, 3}
  MaxWrites = 3
INVARIANTS
  TypeOK
  CompleteOrRefused
  ReadersAgree
  EncodersAgree
  DamageIsSeen
  LookupIsScan
  IndexIsOfVersions
CHECK_DEADLOCK FALSE
