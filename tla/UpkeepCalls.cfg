SPECIFICATION FairSpec
CONSTANTS
  q1 = q1  q2 = q2  b1 = b1
  Entries = {1, 2, 3, 4}
  Rich = {2, 4}
  Dead = {3}
  Mute = {1}
  Rotations = {q1, q2}
  Backfills = {b1}
  Limit = 3
  MaxActive = 2
  MaxRotations = 3
  MaxFaults = 1
INVARIANTS CardInStep FilledIsShown DeckAdvancesTogether
PROPERTIES RotationRepairs BackfillReachesAll
\* nobody has to call again
CHECK_DEADLOCK FALSE
