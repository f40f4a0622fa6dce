---------------------------- MODULE UdpEndpoint ----------------------------
(***************************************************************************)
(* UDPListener, UDPDispatcher and the queue `outgoing' of server.py, for   *)
(* every server, and the UDP network between them.  The two threads of a   *)
(* server share one lock around recvfrom and sendto.                       *)
(*                                                                         *)
(* An event whose encoding is longer than MAX_RECV is cut by recvfrom.     *)
(* What is left cannot be decoded, or lacks fields that ServerHandler.run  *)
(* unpacks.                                                                *)
(***************************************************************************)
EXTENDS Integers, Sequences, Functions

CONSTANTS
  Nodes,     \* the servers
  Events,    \* the events threads put into `outgoing'
  Src, Dst,  \* Src[e]: the server that sends e; Dst[e]: the one it is for
  Long,      \* the events longer than MAX_RECV
  NoEvent

ASSUME EndpointAssumption ==
  /\ Src \in [Events -> Nodes] /\ Dst \in [Events -> Nodes]
  /\ Long \subseteq Events /\ NoEvent \notin Events

VARIABLES
  sent,      \* history: the events put into some `outgoing'
  outgoing,  \* outgoing[n]: the Queue of server n
  lock,      \* lock[n]: the lock of its socket
  dis,       \* dis[n]: where its UDPDispatcher is in run()
  mail,      \* mail[n]: the event its dispatcher has in hand
  wire,      \* datagrams between servers
  buf,       \* buf[n]: those in the socket of n
  lis,       \* lis[n]: where its UDPListener is in run()
  data,      \* data[n]: what recvfrom returned to it
  started    \* the events a ServerHandler was started for

dispatcherVars == <<dis, mail>>
listenerVars == <<lis, data, started>>
vars == <<sent, outgoing, lock, dispatcherVars, wire, buf, listenerVars>>

Init ==
  /\ sent = {} /\ wire = {} /\ started = {}
  /\ outgoing = [n \in Nodes |-> <<>>]
  /\ lock = [n \in Nodes |-> "free"]
  /\ dis = [n \in Nodes |-> "get"]
  /\ mail = [n \in Nodes |-> NoEvent]
  /\ buf = [n \in Nodes |-> {}]
  /\ lis = [n \in Nodes |-> "select"]
  /\ data = [n \in Nodes |-> NoEvent]

Lock(n, who) == lock[n] = "free" /\ lock' = [lock EXCEPT ![n] = who]

Unlock(n) == lock' = [lock EXCEPT ![n] = "free"]

\* A ClientHandler or ServerHandler: outgoing.put((event, dst)).
Put(e) ==
  /\ e \in Events \ sent
  /\ sent' = sent \cup {e}
  /\ outgoing' = [outgoing EXCEPT ![Src[e]] = Append(@, e)]
  /\ UNCHANGED <<lock, dispatcherVars, wire, buf, listenerVars>>
-----------------------------------------------------------------------------
\* UDPDispatcher.run

Dispatcher(n, from, to) == dis[n] = from /\ dis' = [dis EXCEPT ![n] = to]

\* event, src = self.queue.get()
Get(n) ==
  /\ Dispatcher(n, "get", "acquire")
  /\ outgoing[n] # <<>>
  /\ mail' = [mail EXCEPT ![n] = Head(outgoing[n])]
  /\ outgoing' = [outgoing EXCEPT ![n] = Tail(@)]
  /\ UNCHANGED <<sent, lock, wire, buf, listenerVars>>

DispatcherAcquire(n) ==
  /\ Dispatcher(n, "acquire", "send")
  /\ Lock(n, "dispatcher")
  /\ UNCHANGED <<sent, outgoing, mail, wire, buf, listenerVars>>

SendTo(n) ==
  /\ Dispatcher(n, "send", "release")
  /\ wire' = wire \cup {mail[n]}
  /\ UNCHANGED <<sent, outgoing, lock, mail, buf, listenerVars>>

\* sendto raises (no such host): the thread ends with the lock held.
SendFails(n) ==
  /\ Dispatcher(n, "send", "dead")
  /\ UNCHANGED <<sent, outgoing, lock, mail, wire, buf, listenerVars>>

\* Mutant of DispatcherRelease: the loop goes on with the lock held.
DispatcherKeeps(n) ==
  /\ Dispatcher(n, "release", "get")
  /\ UNCHANGED <<sent, outgoing, lock, mail, wire, buf, listenerVars>>

DispatcherRelease(n) ==
  /\ Dispatcher(n, "release", "get")
  /\ Unlock(n)
  /\ UNCHANGED <<sent, outgoing, mail, wire, buf, listenerVars>>
-----------------------------------------------------------------------------
\* UDPListener.run

Listener(n, from, to) == lis[n] = from /\ lis' = [lis EXCEPT ![n] = to]

\* select returns.
Select(n) ==
  /\ Listener(n, "select", "acquire")
  /\ buf[n] # {}
  /\ UNCHANGED <<sent, outgoing, lock, dispatcherVars, wire, buf, data, started>>

ListenerAcquire(n) ==
  /\ Listener(n, "acquire", "recv")
  /\ Lock(n, "listener")
  /\ UNCHANGED <<sent, outgoing, dispatcherVars, wire, buf, data, started>>

\* Mutant of RecvFrom: the datagram stays in the socket.
RecvFromPeeking(n) ==
  /\ Listener(n, "recv", "release")
  /\ \E e \in buf[n] : data' = [data EXCEPT ![n] = e]
  /\ UNCHANGED <<sent, outgoing, lock, dispatcherVars, wire, buf, started>>

\* recvfrom(MAX_RECV) blocks, with the lock held, while there is no datagram.
RecvFrom(n) ==
  /\ Listener(n, "recv", "release")
  /\ \E e \in buf[n] : /\ data' = [data EXCEPT ![n] = e]
                       /\ buf' = [buf EXCEPT ![n] = @ \ {e}]
  /\ UNCHANGED <<sent, outgoing, lock, dispatcherVars, wire, started>>

\* Mutant of ListenerRelease: the lock is kept while the event is decoded.
ListenerKeeps(n) ==
  /\ Listener(n, "release", "read")
  /\ UNCHANGED <<sent, outgoing, lock, dispatcherVars, wire, buf, data, started>>

ListenerRelease(n) ==
  /\ Listener(n, "release", "read")
  /\ Unlock(n)
  /\ UNCHANGED <<sent, outgoing, dispatcherVars, wire, buf, data, started>>

\* An event decoded whole: a ServerHandler is started.
Start(n) ==
  /\ Listener(n, "read", "select")
  /\ data[n] \notin Long
  /\ started' = started \cup {data[n]}
  /\ UNCHANGED <<sent, outgoing, lock, dispatcherVars, wire, buf, data>>

\* An event cut between two fields: its ServerHandler cannot unpack it.
StartCut(n) ==
  /\ Listener(n, "read", "select")
  /\ data[n] \in Long
  /\ UNCHANGED <<sent, outgoing, lock, dispatcherVars, wire, buf, data, started>>

\* An event cut anywhere else: read() warns and returns None, which run() unpacks
\* into event and src: the TypeError ends the thread.
Warn(n) ==
  /\ Listener(n, "read", "dead")
  /\ data[n] \in Long
  /\ UNCHANGED <<sent, outgoing, lock, dispatcherVars, wire, buf, data, started>>
-----------------------------------------------------------------------------
\* UDP and the kernel.

Arrive(e) ==
  /\ e \in wire
  /\ wire' = wire \ {e}
  /\ buf' = [buf EXCEPT ![Dst[e]] = @ \cup {e}]
  /\ UNCHANGED <<sent, outgoing, lock, dispatcherVars, listenerVars>>

LoseOnWire(e) ==
  /\ e \in wire
  /\ wire' = wire \ {e}
  /\ UNCHANGED <<sent, outgoing, lock, dispatcherVars, buf, listenerVars>>

\* A datagram that select saw turns out to be damaged.
Discard(n) ==
  /\ \E e \in buf[n] : buf' = [buf EXCEPT ![n] = @ \ {e}]
  /\ UNCHANGED <<sent, outgoing, lock, dispatcherVars, wire, listenerVars>>

\* The process of server n ends and starts again.
Restart(n) ==
  /\ outgoing' = [outgoing EXCEPT ![n] = <<>>]
  /\ Unlock(n)
  /\ dis' = [dis EXCEPT ![n] = "get"] /\ mail' = [mail EXCEPT ![n] = NoEvent]
  /\ buf' = [buf EXCEPT ![n] = {}]
  /\ lis' = [lis EXCEPT ![n] = "select"] /\ data' = [data EXCEPT ![n] = NoEvent]
  /\ UNCHANGED <<sent, wire, started>>

DispatcherStep(n) ==
  \/ Get(n) \/ DispatcherAcquire(n) \/ SendTo(n) \/ SendFails(n) \/ DispatcherRelease(n)

ListenerStep(n) ==
  \/ Select(n) \/ ListenerAcquire(n) \/ RecvFrom(n) \/ ListenerRelease(n)
  \/ Start(n) \/ StartCut(n) \/ Warn(n)

Next ==
  \/ \E e \in Events : Put(e) \/ Arrive(e) \/ LoseOnWire(e)
  \/ \E n \in Nodes :
       DispatcherStep(n) \/ ListenerStep(n) \/ Discard(n) \/ Restart(n)

\* Both threads are scheduled.  A thread that waits for the lock is assumed to
\* get it only if it stays free: Python promises no more.
Spec ==
  /\ Init /\ [][Next]_vars
  /\ \A n \in Nodes : WF_vars(DispatcherStep(n)) /\ WF_vars(ListenerStep(n))
-----------------------------------------------------------------------------
\* Every variable has its type.
TypeOK ==
  /\ sent \subseteq Events /\ wire \subseteq Events /\ started \subseteq Events
  /\ outgoing \in [Nodes -> Seq(Events)]
  /\ lock \in [Nodes -> {"free", "dispatcher", "listener"}]
  /\ dis \in [Nodes -> {"get", "acquire", "send", "release", "dead"}]
  /\ mail \in [Nodes -> Events \cup {NoEvent}]
  /\ buf \in [Nodes -> SUBSET Events]
  /\ lis \in [Nodes -> {"select", "acquire", "recv", "release", "read", "dead"}]
  /\ data \in [Nodes -> Events \cup {NoEvent}]

\* Where the events of server n are while the threads of n have them.
Queued(n) == Range(outgoing[n])
InHand(n) == IF dis[n] \in {"acquire", "send"} THEN {mail[n]} ELSE {}
Received(n) == IF lis[n] \in {"release", "read"} THEN {data[n]} ELSE {}

Leaving(n) == Queued(n) \cup InHand(n)
Reached(n) == buf[n] \cup Received(n)
InFlight == wire \cup UNION {Leaving(n) \cup Reached(n) : n \in Nodes}

\* The lock is held by a thread between its acquire and release, or by a
\* dispatcher that ended there: then the listener is not inside recvfrom, and a
\* server with a dead dispatcher is deaf as well as mute.
LockIsHeldInside ==
  \A n \in Nodes :
    /\ lock[n] = "dispatcher" <=> dis[n] \in {"send", "release", "dead"}
    /\ lock[n] = "listener" <=> lis[n] \in {"recv", "release"}

\* An event is in one place: no thread, queue or socket has one that another
\* also has or that was handled already.  So each is handled at most once.
InOnePlace ==
  /\ \A n \in Nodes :
       /\ IsInjective(outgoing[n])
       /\ Queued(n) \cap InHand(n) = {}
       /\ buf[n] \cap Received(n) = {}
       /\ \A e \in Leaving(n) : Src[e] = n /\ e \notin wire
       /\ \A e \in Reached(n) : Dst[e] = n /\ e \notin wire
  /\ \A m, n \in Nodes : Leaving(m) \cap Reached(n) = {}
  /\ InFlight \cap started = {}
  /\ InFlight \cup started \subseteq sent

\* Inductive invariant: the lock is the thread's that is inside, and an event is in
\* one place, so that it is handled at most once.
IInv == TypeOK /\ LockIsHeldInside /\ InOnePlace

\* The endpoints and UDP implement the network that MainServer assumes.
N == INSTANCE LossyNet WITH net <- InFlight, got <- started

ImplementsNet == N!Spec

\* What is put into `outgoing' leaves it, unless the dispatcher has died or the
\* listener sits in recvfrom with the lock and nothing to receive.
QueueDrains ==
  \A n \in Nodes : \A e \in Events :
    (e \in Queued(n)) ~> \/ e \notin Queued(n)
                         \/ dis[n] = "dead"
                         \/ lis[n] = "recv" /\ buf[n] = {}

\* A datagram does not stay in the socket, unless one of the threads has died.
SocketDrains ==
  \A n \in Nodes : \A e \in Events :
    (e \in buf[n]) ~> (e \notin buf[n] \/ dis[n] = "dead" \/ lis[n] = "dead")
=============================================================================
