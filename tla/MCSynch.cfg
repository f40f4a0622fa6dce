\* Two synchs and an update of one entry.
SPECIFICATION Spec
CONSTANTS
  Servers = {S1, S2}
  Stores = {x, y}
  Items = {a}
  Prices = {1, 2, 3}
  Users = {foo, guest, intruder}
  Registered = {foo, guest}
  FiveLetters = {guest}
  Spelt <- NoSpelt
  BadItems = {}
  Thr = {c1, c2, c3}
  S1 = S1  S2 = S2
  x = x  y = y
  a = a  b = b  quoted = quoted
  foo = foo  guest = guest  intruder = intruder
  xa021 = xa021  one = one
  c1 = c1  c2 = c2  c3 = c3
  NaN = NaN
  None = None
  LocalStores <- MCLocalStores
  Home <- MCHome
  Menu <- SynchMenu
  Disks <- SynchDisks
  MaxRequests = 3
  MaxCrashes = 0
CHECK_DEADLOCK FALSE
INVARIANTS IInv CulpritsArePublished
