SPECIFICATION FairSpec
CONSTANTS
  Reqs = {w1, q1}
  Writes = {w1}
  MaxAttempts = 3
  Monitor = Monitor
  NoReq = NoReq
INVARIANTS
  TypeOK
  WriteAppliedAtMostOnce
  UnavailableWriteUnseen
  ConnectedMeansSession
PROPERTIES
  AnswerIsOwn
  NoForeignKill
  ImplementsService
  EveryCallEnds
  ReleasesCompanyFile
