\* One browser and an empty account: a page is added and its publish fails.
CONSTANTS
  Browser = {a}
  Url = {1}
  Legacy = {}
  Text = {t0}
  Node = {1, 2}
  Seed <- MCNoSeed
  Lone = {}
  Old = {}
  BulkFloor = 0
  Others <- MCOthers
  Overlap = FALSE
  Slow = {}
  Copies = FALSE
  Events = {"fail"}
  MaxEvents = 2
SPECIFICATION FairSpec
PROPERTIES EverythingSent
CHECK_DEADLOCK FALSE
