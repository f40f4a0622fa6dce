\* DB: the table on disk, two threads, every method.
SPECIFICATION Spec
CONSTANTS
  Threads = {t1, t2}
  NoThread = NoThread
  Stores = {s1}
  Items = {a, b}
  Prices = {low, high}
  Users = {u}
  s1 = s1
  a = a
  b = b
  low = low
  high = high
  u = u
  Ops <- MCOps
  Malformed <- MCMalformed
  Persistent = TRUE
INVARIANTS IInv PrimaryKey
PROPERTIES ImplementsTable LockComesBack
