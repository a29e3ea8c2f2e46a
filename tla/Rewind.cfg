\* One file, one command beside one write_file call, two turns, three changes
\* and commands, two rewinds.
CONSTANTS
  Files = {f}
  Shells = {s}
  Contents = {a, b}
  NoFile = NoFile
  Empty = Empty
  Large = Large
  Cut = Cut
  MaxTurns = 2
  MaxChanges = 3
  MaxRewinds = 2
SPECIFICATION RewindSpec
INVARIANT RewindIsSound
PROPERTY NeverClobbers
