--------------------------- MODULE ThreadNumbers ---------------------------
(***************************************************************************)
(* The count thr_no of a main server, which two threads increment without  *)
(* a lock: the accept loop, for a ClientHandler, and UDPListener, for a    *)
(* ServerHandler.  A handler's number is its key in pending.  MainServer   *)
(* takes the numbers to differ; here is when they do.                      *)
(***************************************************************************)
EXTENDS Integers

CONSTANTS
  Handlers,    \* client handlers that are made
  MaxServed    \* bound: ServerHandlers that are made

None == "none"

VARIABLES
  thr_no,      \* the count
  accept,      \* the accept loop in ClientHandler(): whom it makes, where it is, what it read
  listener,    \* UDPListener in ServerHandler(): the same
  number,      \* number[h]: self.thr_no
  phase,       \* phase[h]: "fresh", "ready", "asked" (between the two uses of pending), "ended"
  pending,     \* pending: a function from numbers to the handler whose queue it is
  served       \* ServerHandlers so far

vars == <<thr_no, accept, listener, number, phase, pending, served>>
callVars == <<number, phase, pending>>

Outside == [who |-> None, at |-> "outside", read |-> 0]

Init ==
  /\ thr_no = 0 /\ accept = Outside /\ listener = Outside
  /\ number = [h \in Handlers |-> 0]
  /\ phase = [h \in Handlers |-> "fresh"]
  /\ pending = [n \in {} |-> None]
  /\ served = 0

\* thr_no += 1: a load, and a store of what was loaded plus one.
Accept(h) ==
  /\ accept.at = "outside" /\ phase[h] = "fresh"
  /\ accept' = [who |-> h, at |-> "loaded", read |-> thr_no]
  /\ UNCHANGED <<thr_no, listener, callVars, served>>
AcceptStores ==
  /\ accept.at = "loaded"
  /\ thr_no' = accept.read + 1
  /\ accept' = [accept EXCEPT !.at = "stored"]
  /\ UNCHANGED <<listener, callVars, served>>

\* self.thr_no = thr_no reads the count again.
AcceptNumbers ==
  /\ accept.at = "stored"
  /\ number' = [number EXCEPT ![accept.who] = thr_no]
  /\ phase' = [phase EXCEPT ![accept.who] = "ready"]
  /\ accept' = Outside
  /\ UNCHANGED <<thr_no, listener, pending, served>>

\* A ServerHandler uses the number for its log only.
Listen ==
  /\ listener.at = "outside" /\ served < MaxServed
  /\ listener' = [who |-> None, at |-> "loaded", read |-> thr_no]
  /\ served' = served + 1
  /\ UNCHANGED <<thr_no, accept, callVars>>
ListenerStores ==
  /\ listener.at = "loaded"
  /\ thr_no' = listener.read + 1
  /\ listener' = Outside
  /\ UNCHANGED <<accept, callVars, served>>

\* pending[self.thr_no] = Queue.Queue(), for a download or a synch.
Ask(h) ==
  /\ phase[h] = "ready"
  /\ pending' = [n \in DOMAIN pending \cup {number[h]} |->
                   IF n = number[h] THEN h ELSE pending[n]]
  /\ phase' = [phase EXCEPT ![h] = "asked"]
  /\ UNCHANGED <<thr_no, accept, listener, number, served>>

\* pending[self.thr_no].get(...), after which the handler is ready; without the
\* key it raises, and the thread ends.
Get(h) ==
  /\ phase[h] = "asked"
  /\ phase' = [phase EXCEPT ![h] = IF number[h] \in DOMAIN pending THEN "ready" ELSE "ended"]
  /\ UNCHANGED <<thr_no, accept, listener, number, pending, served>>

\* The end of run(), which pops the key if it is there.
Close(h) ==
  /\ phase[h] = "ready"
  /\ phase' = [phase EXCEPT ![h] = "ended"]
  /\ pending' = [n \in DOMAIN pending \ {number[h]} |-> pending[n]]
  /\ UNCHANGED <<thr_no, accept, listener, number, served>>

Next ==
  \/ AcceptStores \/ AcceptNumbers \/ Listen \/ ListenerStores
  \/ \E h \in Handlers : Accept(h) \/ Ask(h) \/ Get(h) \/ Close(h)

Spec == Init /\ [][Next]_vars
-----------------------------------------------------------------------------
\* server.py:200: pending[thr_no] is the "queue through which ServerHandlers will
\* signal their completion" to the handler that made it, until it has waited.
QueueIsOwn ==
  \A h \in Handlers : phase[h] = "asked" =>
    number[h] \in DOMAIN pending /\ pending[number[h]] = h
=============================================================================
