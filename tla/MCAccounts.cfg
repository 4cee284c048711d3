SPECIFICATION Spec
CONSTANTS
  None = None
  cu = cu
  ad = ad
  old = old
  nobody = nobody
  k1 = k1
  k2 = k2
  k3 = k3
  k4 = k4
  k5 = k5
  r1 = r1
  r2 = r2
  r3 = r3
  r4 = r4
  User <- MCUser
  Token <- MCToken
  Request <- MCRequest
  Account <- MCAccount
  Workload <- MCWorkload
  Ageing = {k1}
  Killable = {r1}
  Code = {1, 2}
  Mailed <- MCMailed
  Threshold = 2
  MaxStrikes = 2
  MaxAttempts = 2
  LoginLimit = 2
  SendLimit = 2
INVARIANTS
  TypeOK
  OneLiveToken
  EndedStaysEnded
  KilledStaysKilled
  CodeGuessesBounded
  OneSessionPerCode
  FailuresLock
  WindowLimits
  NoHalfCreatedAdmin
PROPERTIES
  SessionSpec
CHECK_DEADLOCK FALSE
