CONSTANTS
  u1 = u1
  updater = updater
  Path = {1}
  Prefix = 2
  Pids = {1, 2, 3}
  Users = {u1}
  Updater = updater
  Updates = {"update", "force"}
  Looks = 1
SPECIFICATION Spec
CHECK_DEADLOCK FALSE
INVARIANTS
  ReportsAreTrue
PROPERTY
  UpdateEnds
