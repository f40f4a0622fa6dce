\* Crashes, late answers and statements that are rejected.
SPECIFICATION Spec
CONSTANTS
  Servers = {S1, S2}
  Stores = {x, y}
  Items = {a, quoted}
  Prices = {1, 2}
  Users = {foo, guest, xa021, one}
  Registered = {foo, guest, xa021}
  FiveLetters = {guest, xa021}
  Spelt <- MCSpelt
  BadItems = {quoted}
  Thr = {c1, c3}
  S1 = S1  S2 = S2
  x = x  y = y
  a = a  b = b  quoted = quoted
  foo = foo  guest = guest  intruder = intruder
  xa021 = xa021  one = one
  c1 = c1  c2 = c2  c3 = c3
  NaN = NaN
  None = None
  LocalStores <- MCLocalStores
  Home <- MCHome
  Menu <- CrashMenu
  Disks <- CrashDisks
  MaxRequests = 2
  MaxCrashes = 1
CHECK_DEADLOCK FALSE
INVARIANTS QueuesMatchWaits NoInventedPrices
PROPERTY HandlerComesBack
