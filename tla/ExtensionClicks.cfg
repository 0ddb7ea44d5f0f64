SPECIFICATION FairSpec
CONSTANTS
  NoToken = NoToken
  NoTip = NoTip
  Menu = {1, 2}
  Presses = {3, 4}
  Clicks = {1, 2, 3, 4}
  MaxLogins = 1
  MaxFaults = 2
INVARIANTS StoredIsAccepted ButtonIsHonest
PROPERTIES ClicksSettle
\* clicks are the user's
CHECK_DEADLOCK FALSE
