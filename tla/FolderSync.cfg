CONSTANTS
  pc = pc
  other = other
  f = f
  g = g
  c0 = c0
  c1 = c1
  c2 = c2
  c3 = c3
  Device <- TwoDevices
  Content = {c0, c1, c2}
  Floor = 2
  File = {f}
  Orig <- OneOrig
  DayOf <- OneDay
  Phone = {other}
  Overlap = FALSE
  MidSweep = FALSE
  CheckpointFaults = FALSE
  Events = {"edit", "delete", "touch", "halt", "fault", "rejoin", "mirror"}
  MaxEvents = 3
SPECIFICATION FairSpec
INVARIANTS TypeOK ContentKept  DeletionMeant
PROPERTIES NoEcho Converges
