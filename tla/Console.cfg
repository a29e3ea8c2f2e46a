CONSTANTS
  MaxChanges = 1
  Items = {1}
  MaxReads = 2
  MaxJobs = 2
  MinPoll = 2
  DefaultPoll = 3
  Polls = {0, 2}
  Others = {"keys"}
  TTL = 2
  MaxSaves = 2
  MaxFaults = 1
  Envs = {"auto", "direct"}
  Sessions = {1, 2}
  MaxTasks = 2
  MaxTurns = 2
  MaxRequests = 3
  MaxPlays = 2
  Length = 2
SPECIFICATION Spec
CHECK_DEADLOCK FALSE
INVARIANTS
  ConsoleIsSound
  SavedIsKept
  TasksArrive
  ShowsThePick
  PlaybackIsWhole
PROPERTIES
  ListingsAreRecent
  PanelSettles
