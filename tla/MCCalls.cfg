SPECIFICATION MCSpec
CONSTANTS
  alice = alice
  bob = bob
  owner = owner
  member = member
  guest = guest
  c1 = c1
  c2 = c2
  c3 = c3
  Account <- MCAccount
  Call <- MCCall
  None = None
  NoMeeting = None
  MaxFaults = 1
  MaxAttempts = 1
  MaxTimers = 1
  Member <- MCMember
  Owner = owner
  Meeting <- MCMeeting
  MaxConnecting = 1
  MaxTroubles = 1
  MaxPresses = 2
  Conns = {c1, c2, c3}
  MaxRestarts = 1
CONSTRAINT Explored
INVARIANTS
  OfflineWhenGone
  NoStrayRoom
  TalksToPeer
  GlareEnds
  FollowsHost
  ClosedMeansOut
CHECK_DEADLOCK FALSE
