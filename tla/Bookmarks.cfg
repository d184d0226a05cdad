\* Browser a has synced page 1 for long, browser b is paired now; the relay
\* also holds page 1 under the random id 2 of an older version.
CONSTANTS
  Browser = {a, b}
  Url = {1}
  Legacy = {2}
  Text = {t0, t1}
  Node = {1, 2, 3}
  Seed <- MCSeed
  Lone = {b}
  Old = {a}
  BulkFloor = 0
  Others <- MCOthers
  Overlap = FALSE
  Slow = {}
  Copies = FALSE
  Events = {"edit", "kill", "fail", "off"}
  MaxEvents = 2
SPECIFICATION FairSpec
INVARIANTS TypeOK
PROPERTIES DeletionMeant  Converges DeletionSticks
\* With nothing left to sync the engines rest until a user acts again.
CHECK_DEADLOCK FALSE
