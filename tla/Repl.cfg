\* Two lines entered, of every kind; runs of two rounds with up to two calls
\* of tools of two names, and a history of two cards.
SPECIFICATION Spec
CONSTANTS
  Tools = {"a", "b"}
  CardCap = 2
  Texts = {"task", "models", "replay", "team", "command", "exit"}
  MaxLines = 2
  MaxRounds = 1
  MaxCalls = 2
INVARIANTS
  LinesAreKept
  ScreenIsSound
PROPERTY
  InputsAreBegun
CHECK_DEADLOCK FALSE
