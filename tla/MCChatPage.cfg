SPECIFICATION ChatSpec
CONSTANTS
  bob = bob
  team = team
  i1 = i1
  o1 = o1
  o2 = o2
  Private <- MCPrivate
  Group <- MCGroup
  Timed <- MCPrivate
  Incoming <- MCIncoming
  Home <- MCHome
  Text <- MCText
  Picture <- MCPicture
  Nothing = Nothing
  MAX_IMAGES_PER_SEND = 20
  MaxEvents = 1
  MaxLoads = 2
INVARIANTS
  BadgeHonest
  ReadMeansSeen
  TicksAreTrue
  AnswerSettles
PROPERTY ShownStays
CONSTRAINT Explored
CHECK_DEADLOCK FALSE
