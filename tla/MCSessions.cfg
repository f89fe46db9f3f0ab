SPECIFICATION FairSpec
CONSTANTS
  a = a
  b = b
  Tabs = {a, b}
  MaxSessions = 1
  MaxExpiries = 1
  MaxEvents = 1
  MaxUpgrades = 2
  SharedUpgrade = FALSE
CHECK_DEADLOCK FALSE
INVARIANTS RefreshWorks
PROPERTIES KeepsLogin RevocationEndsLogin
