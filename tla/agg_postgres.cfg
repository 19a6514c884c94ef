\* Two deliveries race for one bucket of the SQL store.
SPECIFICATION Spec
CONSTANTS
  e1 = e1 e2 = e2
  Eval = {e1, e2}
  a1 = a1 a2 = a2
  Attached <- OneAction
  Threshold = 2  Window = 1
  Backends = {"postgres"}
  AtOffsets <- Present
  MaxPrunes = 0  MaxTime = 0
SYMMETRY EvalSymmetry
INVARIANTS NoMissedThreshold
CHECK_DEADLOCK FALSE
