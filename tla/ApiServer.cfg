SPECIFICATION ApiSpec
CONSTANTS
  r1 = r1
  r2 = r2
  r3 = r3
  r4 = r4
  r5 = r5
  r6 = r6
  t1 = t1
  t2 = t2
  NoTeam = NoTeam
  NoBucket = NoBucket
  Requests = {r1, r2, r3, r4, r5, r6}
  Open = {r6}
  Teams = {t1, t2}
  Jobs = {"job"}
  TeamOf <- teamOf
  JobTeam <- jobTeam
  Ops <- ops
  Target <- target
  Phases = {"Running", "Succeeded"}
  Final = {"Succeeded"}
  Rps = 1
  Burst = 1
  MaxTime = 1
  MaxErrors = 1
INVARIANTS
  BudgetKept
  BurstIsOwn
  RefusedChangesNothing
  OwnTeamOnly
  AnswerWasTrue
  CancelIsRecorded
CHECK_DEADLOCK FALSE
