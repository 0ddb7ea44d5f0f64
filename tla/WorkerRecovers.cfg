SPECIFICATION FairSpec
CONSTANTS
  e1 = e1  e2 = e2  e3 = e3
  Entries = {e1, e2, e3}
  Poison = {e2}
  PollInterval = 5
  Throttle = 1
  Cap = 20
  MaxPower = 4
  MaxAttempts = 6
  MaxOutages = 2
  MaxRestarts = 2
PROPERTIES NoHammering QueueRecovers
\* the task may end
CHECK_DEADLOCK FALSE
