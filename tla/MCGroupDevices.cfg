SPECIFICATION DeviceSpec
CONSTANTS
  a = a
  b = b
  a1 = a1
  a2 = a2
  b1 = b1
  Users = {a, b}
  Devices = {a1, a2}
  Owner <- Account
  ClientIds = {m1}
  Keys = {k1, k2}
  MaxEpoch = 2
  MaxMembers = 2
  MaxFailures = 2
SYMMETRY Symmetry
CONSTRAINT Owned
CHECK_DEADLOCK FALSE
INVARIANTS SealedIsReadable CachesAgree
PROPERTIES KeepsHistory
