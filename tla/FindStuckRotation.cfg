SPECIFICATION Spec
CONSTANTS
  q1 = q1  q2 = q2  b1 = b1
  Entries = {1, 2, 3}
  Rich = {1, 2, 3}
  Dead = {2}
  Mute = {}
  Rotations = {q1}
  Backfills = {}
  Limit = 2
  MaxActive = 1
  MaxRotations = 2
  MaxFaults = 0
INVARIANTS EveryEntryRotates
\* nobody has to call again
CHECK_DEADLOCK FALSE
