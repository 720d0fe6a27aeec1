\* ExchangeAdd_NoSync has no barrier on ARM.
SPECIFICATION Spec
CONSTANTS
  Readers = {r1}
  Parts = {a, b}
  FinalIsBarrier = FALSE
  UpdateBound = 4
INVARIANTS
  Consistent
