\* One consumer (consumers write nothing the others read), values of two words.
SPECIFICATION Spec
CONSTANTS
  Readers = {r1}
  Parts = {a, b}
  FinalIsBarrier = TRUE
  UpdateBound = 5
INVARIANTS
  Consistent
PROPERTIES
  ImplementsRegister
  GetStateReturns
