SPECIFICATION Spec
CHECK_DEADLOCK FALSE
CONSTANTS
  k1 = k1
  k2 = k2
  v1 = v1
  v2 = v2
  Nil = Nil
  Goroutines = {g1, g2, g3}
  Mixes <- MCMixes
  Initial <- MCInitial
PROPERTIES
  GoroutineSafe
  CallsReturn
