\* Four clients, and two events from other servers.
SPECIFICATION Spec
CONSTANTS
  Handlers = {h1, h2, h3, h4}
  MaxServed = 2
CHECK_DEADLOCK FALSE
INVARIANT QueueIsOwn
