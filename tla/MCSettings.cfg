SPECIFICATION FairSpec
CONSTANTS
  None = None
  r1 = r1
  r2 = r2
  r3 = r3
  r4 = r4
  i1 = i1
  i2 = i2
  names = names
  fees = fees
  bkash = bkash
  courier = courier
  Request <- MCRequest
  Instance = {i1, i2}
  Host <- MCHost
  Workload <- MCWorkload
  Section = {names, fees}
  Secret = {bkash, courier}
  Patch <- MCPatch
  Initial <- MCInitial
INVARIANTS
  TypeOK
  StaleExplained
  UpdatesSerial
  SecretsReadable
PROPERTIES
  EventuallyFresh
CHECK_DEADLOCK FALSE
