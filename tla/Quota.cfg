SPECIFICATION Spec
CONSTANTS
  j1 = j1
  j2 = j2
  j3 = j3
  j4 = j4
  Jobs = {j1, j2, j3, j4}
  Team <- team
  Count <- count
  Gang <- noGang
  Policies <- twoCaps
  MaxInt = 7
  MaxCreates = 2
  Serial = TRUE
INVARIANTS
  QuotaRespected
  DeniedForAReason
CHECK_DEADLOCK FALSE
