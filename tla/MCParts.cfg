CONSTANTS
  Committers = {c1, c2}
  MaxId = 5
  LegacyIds = {1, 3}
  NoOne = NoOne
  Tasks = {t1, t2, t3}
  MaxFlights = 3
  MaxLosses = 1
  NoFlight = NoFlight
  Users = {t1, t2, t3}
  MaxLocks = 3
  NoLock = NoLock
  Calls = {r1}
  Ops = {"GetObject", "HeadObject", "ListObjects", "PutObject", "PutObjectFromPath", "DeleteObject", "CreateMultipartUpload", "UploadPart", "UploadPartFromPath", "CompleteMultipartUpload", "AbortMultipartUpload", "GET", "HEAD", "DELETE", "PUT", "POST"}
  MaxAttempts = 2
  BodyLimit = 1
  None = None
  Methods = {t1, t2}
  Corrupt = Corrupt
  MethodFaults = 1
  MethodFills = 1
SPECIFICATION PartsSpec
INVARIANTS OneLeader NoOrphanFlight MutualExclusion CallsSound
PROPERTIES NoReuse NoCollision FollowersWake CallsFinish MethodsReturn
CHECK_DEADLOCK FALSE
