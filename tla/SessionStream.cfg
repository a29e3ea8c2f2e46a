CONSTANTS
  s1 = s1
  c1 = c1
  c2 = c2
  Sessions = {s1}
  CallIds = {c1, c2}
  RingCap = 4
  MaxEvents = 7
  MaxWindows = 2
  MaxInFlight = 2
SPECIFICATION StreamSpec
CHECK_DEADLOCK FALSE
INVARIANTS
  WindowIsSound TranscriptIsFaithful
PROPERTY
  EventuallyShown
