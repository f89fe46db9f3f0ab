SPECIFICATION MeetingSpec
CONSTANTS
  member = member
  owner = owner
  Member = {owner, member}
  Owner = owner
  Meeting <- MCMeeting
  NoMeeting = NoMeeting
  MaxConnecting = 2
  MaxTroubles = 0
  MaxPresses = 0
INVARIANTS OneConnection
CHECK_DEADLOCK FALSE
