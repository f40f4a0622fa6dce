\* Two servers, a request and an event that is cut in one queue, and an answer.
SPECIFICATION Spec
CONSTANTS
  Nodes = {S1, S2}
  Events = {rqst, resp, long}
  Long = {long}
  NoEvent = NoEvent
  S1 = S1  S2 = S2
  rqst = rqst  resp = resp  long = long
  Src <- MCSrc
  Dst <- MCDst
INVARIANT IInv
PROPERTIES ImplementsNet QueueDrains SocketDrains
