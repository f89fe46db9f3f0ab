CONSTANTS
  User = {me, x}
  Me = me
  Group = {g}
  Tag = {t}
  None = None
  MomentId = {1}
  PostId = {1, 2}
  MaxPick = 2
  MomentImages = 1
  PostImages = 1
  MaxActs = 4
  Tours <- MCTours
SPECIFICATION MCSpec
INVARIANTS Mutual ListsShowFriends FeedsAgree
PROPERTIES TrustFreshest
CHECK_DEADLOCK FALSE
