SPECIFICATION Spec
CONSTANTS
  k1 = k1
  k2 = k2
  r1 = r1
  r2 = r2
  r3 = r3
  Keys = {k1}
  Requests = {r1, r2}
  KeyOf <- keyOf
  TeamOf <- teamOf
  Operators = {o1}
  MaxDeliver = 2
  BatchSize = 1
  Faults = {"publish"}
  MaxFaults = 1
INVARIANTS
  AcceptedIsEnqueued
CHECK_DEADLOCK FALSE
