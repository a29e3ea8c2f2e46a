\* Two turns with two gated calls each, one rewind, two directories.
CONSTANTS
  Calls = {c1, c2}
  Dirs = {here, there}
  MaxTurns = 2
  MaxRewinds = 1
SPECIFICATION HostSpec
INVARIANTS SessionIsSound NothingUnapproved
PROPERTY AbortEnds
