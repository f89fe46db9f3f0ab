SPECIFICATION FairSpec
CONSTANTS
  p = p
  q = q
  g = g
  Messages = {p, g}
  GroupMessages = {g}
  OutboxLimit = 3
  MaxSockets = 3
  MaxEvents = 2
CHECK_DEADLOCK FALSE
INVARIANTS PushedOnce SendOrder
PROPERTIES Reliable EventuallyAnswered
