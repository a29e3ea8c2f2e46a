\* Four calls of every kind in every order, run sequentially and three at a
\* time.
CONSTANTS
  NumCalls = 4
  Limits = {1, 3}
SPECIFICATION Spec
INVARIANTS BatchIsSound SequentialAtOne
PROPERTIES TurnSpec BatchReturns
