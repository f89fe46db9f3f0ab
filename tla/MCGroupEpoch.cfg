SPECIFICATION Spec
CONSTANTS
  Users = {a, b, c}
  ClientIds = {m1}
  Keys = {k1, k2}
  MaxEpoch = 3
  MaxMembers = 2
  MaxAttempts = 2
SYMMETRY Symmetry
CONSTRAINT Bounded
CHECK_DEADLOCK FALSE
INVARIANTS CatchUpDecryptable MembershipIntervals OneKeyPerEpoch AnswersAreTrue
PROPERTIES MembershipFence
