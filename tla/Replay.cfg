\* Two steps with up to two calls in all; the log is drained every two events.
CONSTANTS
  FlushEvery = 2
  Calls = {c1, c2}
  MaxSteps = 2
SPECIFICATION Spec
INVARIANTS LogIsWhole ReplayIsSound
PROPERTY FinalizeReturns
