CONSTANTS
  Account = {a, b}
  Password = {p, q}
  None = None
  MaxActs = 7
  Address = {w, z}
  Direct = Direct
  ProxyLimit = 2
  MaxProxies = 3
  MaxSwitches = 5
SPECIFICATION MCSpec
SYMMETRY MCSymmetry
INVARIANTS LoginAgrees PasswordHeld ShownIsUsed
PROPERTIES KeepsIdentity
CHECK_DEADLOCK FALSE
