\* Two turns of a desktop session: two rounds of iterations, stop and abort at
\* any moment, and a timeout, which the desktop does not set but an embedder
\* of the agent may.
CONSTANTS
  MaxIterations = 2
  MaxContinuations = 1
  IterationsPerCont = 1
  FoldsEveryTerminal = FALSE
  UserMayInterrupt = TRUE
  HasTimeout = TRUE
  MaxTurns = 2
SPECIFICATION Spec
INVARIANT ReceiptsAreSound
PROPERTIES InterruptionsHold ClosedTurnIsFinal TurnEnds
