SPECIFICATION FairSpec
CONSTANTS
  k1 = k1
  k2 = k2
  r1 = r1
  r2 = r2
  r3 = r3
  Keys = {k1}
  Requests = {r1, r2}
  KeyOf <- keyOf
  TeamOf <- teamOf
  Operators = {o1, o2}
  MaxDeliver = 2
  BatchSize = 2
  Faults = {"db", "publish", "apicrash", "sigterm", "ack", "age", "dlq", "opcrash", "lease"}
  MaxFaults = 2
INVARIANTS
  SameKeySameJob
  JobOfItsRow
  AuditedHappened
  RevivedOnlyIfDeleted
  AckedMeansCreated
  DeadLetteredOnce
PROPERTIES
  
  PromiseKept
CHECK_DEADLOCK FALSE
