SPECIFICATION Spec
CONSTANTS
  Key <- MCKey
  MaxEntries = 2
  MaxTime = 2
  MaxFaults = 1
  Call <- MCCall
  Fingerprint <- MCFingerprint
  KeyOf <- MCKeyOf
  Attempts <- MCAttempts
  LockTTL = 1
  TTL = 2
  None = None
  Junk = Junk
  Clients <- MCClients
  Delivery <- MCDelivery
  Content <- MCContent
  Secrets <- MCSecrets
  Tolerance = 1
  ReplayTTL = 2
  Visit = {"v", "w", "u"}
  SessionTTL = 3
  Caller <- MCCaller
  LoadKey <- MCLoadKey
  LoadTTL = 1
  Hit <- MCHit
  HitKey <- MCHitKey
  Interval = 1
  Capacity = 2
  Second = 2
INVARIANTS
  DoneOnce
  SessionGone
  LoadShared
  RateBounded
