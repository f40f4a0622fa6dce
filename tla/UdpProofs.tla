----------------------------- MODULE UdpProofs -----------------------------
(***************************************************************************)
(* Any number of servers and events: UdpEndpoint keeps every event in one  *)
(* place, and implements LossyNet.                                         *)
(***************************************************************************)
EXTENDS UdpEndpoint, TLAPS

\* Queue.put adds the event to those in the queue.
LEMMA AppendFacts ==
  ASSUME NEW q \in Seq(Events), NEW e \in Events, IsInjective(q), e \notin Range(q)
  PROVE  /\ Append(q, e) \in Seq(Events)
         /\ IsInjective(Append(q, e))
         /\ Range(Append(q, e)) = Range(q) \cup {e}
<1>1. Append(q, e) \in Seq(Events)
  OBVIOUS
<1>2. \A i \in DOMAIN Append(q, e) :
        Append(q, e)[i] = IF i \in DOMAIN q THEN q[i] ELSE e
  OBVIOUS
<1>3. DOMAIN Append(q, e) = DOMAIN q \cup {Len(q) + 1}
  OBVIOUS
<1>4. Len(q) + 1 \notin DOMAIN q
  OBVIOUS
<1>5. Range(Append(q, e)) = Range(q) \cup {e}
  BY <1>2, <1>3, <1>4 DEF Range
<1>6. IsInjective(Append(q, e))
  BY <1>2, <1>3, <1>4 DEF Range, IsInjective
<1> QED BY <1>1, <1>5, <1>6

\* Queue.get takes the first event, and that event only.
LEMMA TailFacts ==
  ASSUME NEW q \in Seq(Events), IsInjective(q), q # <<>>
  PROVE  /\ Head(q) \in Range(q) /\ Head(q) \in Events
         /\ Tail(q) \in Seq(Events)
         /\ IsInjective(Tail(q))
         /\ Range(Tail(q)) = Range(q) \ {Head(q)}
<1>1. Tail(q) \in Seq(Events) /\ Len(q) \in Nat \ {0} /\ Head(q) = q[1]
  OBVIOUS
<1>2. DOMAIN q = 1..Len(q) /\ DOMAIN Tail(q) = 1..(Len(q) - 1)
  OBVIOUS
<1>3. \A i \in DOMAIN Tail(q) : Tail(q)[i] = q[i + 1]
  OBVIOUS
<1>4. IsInjective(Tail(q))
  BY <1>1, <1>2, <1>3 DEF IsInjective
<1>5. Head(q) \in Range(q) /\ Head(q) \in Events
  BY <1>1, <1>2 DEF Range
<1>6. Range(Tail(q)) \subseteq Range(q) \ {Head(q)}
  BY <1>1, <1>2, <1>3 DEF Range, IsInjective
<1>7. ASSUME NEW e \in Range(q) \ {Head(q)} PROVE e \in Range(Tail(q))
  <2>1. PICK i \in DOMAIN q : e = q[i]
    BY DEF Range
  <2>2. i - 1 \in DOMAIN Tail(q) /\ Tail(q)[i - 1] = e
    BY <1>1, <1>2, <1>3, <1>7, <2>1
  <2> QED BY <2>2 DEF Range
<1> QED BY <1>1, <1>4, <1>5, <1>6, <1>7
-----------------------------------------------------------------------------
LEMMA InitIInv == Init => IInv
<1> SUFFICES ASSUME Init PROVE IInv
  OBVIOUS
<1>1. TypeOK /\ LockIsHeldInside
  BY DEF Init, TypeOK, LockIsHeldInside
<1>2. \A n \in Nodes : Leaving(n) = {} /\ Reached(n) = {} /\ IsInjective(outgoing[n])
  BY DEF Init, Leaving, Reached, Queued, InHand, Received, Range, IsInjective
<1>3. InFlight = {}
  BY <1>2 DEF Init, InFlight
<1> QED BY <1>1, <1>2, <1>3 DEF Init, IInv, InOnePlace, Leaving, Reached

LEMMA NextTypeOK == TypeOK /\ InOnePlace /\ [Next]_vars => TypeOK'
<1> SUFFICES ASSUME TypeOK, InOnePlace, [Next]_vars PROVE TypeOK'
  OBVIOUS
<1> USE EndpointAssumption DEF TypeOK
<1>1. ASSUME NEW e \in Events, Put(e) PROVE TypeOK'
  BY <1>1 DEF Put, dispatcherVars, listenerVars
<1>2. ASSUME NEW e \in Events, Arrive(e) PROVE TypeOK'
  <2>1. buf' \in [Nodes -> SUBSET Events]
    BY <1>2 DEF Arrive
  <2> QED BY <1>2, <2>1 DEF Arrive, dispatcherVars, listenerVars
<1>3. ASSUME NEW e \in Events, LoseOnWire(e) PROVE TypeOK'
  BY <1>3 DEF LoseOnWire, dispatcherVars, listenerVars
<1>4. ASSUME NEW n \in Nodes, Get(n) PROVE TypeOK'
  <2>1. Head(outgoing[n]) \in Events /\ Tail(outgoing[n]) \in Seq(Events)
    BY <1>4, TailFacts DEF Get, InOnePlace
  <2> QED BY <1>4, <2>1 DEF Get, Dispatcher, listenerVars
<1>5. ASSUME NEW n \in Nodes, SendTo(n) PROVE TypeOK'
  <2>1. mail[n] \in sent
    BY <1>5 DEF SendTo, Dispatcher, InOnePlace, InFlight, Leaving, InHand
  <2> QED BY <1>5, <2>1 DEF SendTo, Dispatcher, listenerVars
<1>6. ASSUME NEW n \in Nodes, DispatcherAcquire(n) PROVE TypeOK'
  BY <1>6 DEF DispatcherAcquire, Dispatcher, Lock, listenerVars
<1>7. ASSUME NEW n \in Nodes, SendFails(n) PROVE TypeOK'
  BY <1>7 DEF SendFails, Dispatcher, listenerVars
<1>8. ASSUME NEW n \in Nodes, DispatcherRelease(n) PROVE TypeOK'
  BY <1>8 DEF DispatcherRelease, Dispatcher, Unlock, listenerVars
<1>9. ASSUME NEW n \in Nodes, Select(n) \/ ListenerAcquire(n) \/ ListenerRelease(n)
      PROVE  TypeOK'
  BY <1>9 DEF Select, ListenerAcquire, ListenerRelease, Listener, Lock, Unlock,
              dispatcherVars
<1>10. ASSUME NEW n \in Nodes, RecvFrom(n) PROVE TypeOK'
  <2>1. PICK e \in buf[n] : /\ data' = [data EXCEPT ![n] = e]
                            /\ buf' = [buf EXCEPT ![n] = buf[n] \ {e}]
    BY <1>10 DEF RecvFrom
  <2>2. e \in Events /\ buf[n] \ {e} \in SUBSET Events
    OBVIOUS
  <2> QED BY <1>10, <2>1, <2>2 DEF RecvFrom, Listener, dispatcherVars
<1>11. ASSUME NEW n \in Nodes, Start(n) PROVE TypeOK'
  <2>1. data[n] \in sent
    BY <1>11 DEF Start, Listener, InOnePlace, InFlight, Reached, Received
  <2> QED BY <1>11, <2>1 DEF Start, Listener, dispatcherVars
<1>12. ASSUME NEW n \in Nodes, StartCut(n) \/ Warn(n) PROVE TypeOK'
  BY <1>12 DEF StartCut, Warn, Listener, dispatcherVars
<1>13. ASSUME NEW n \in Nodes, Restart(n) PROVE TypeOK'
  <2>1. <<>> \in Seq(Events)
    OBVIOUS
  <2> QED BY <1>13, <2>1 DEF Restart, Unlock
<1>14. ASSUME NEW n \in Nodes, Discard(n) PROVE TypeOK'
  <2>1. buf' \in [Nodes -> SUBSET Events]
    BY <1>14 DEF Discard
  <2> QED BY <1>14, <2>1 DEF Discard, dispatcherVars, listenerVars
<1>15. CASE UNCHANGED vars
  BY <1>15 DEF vars, dispatcherVars, listenerVars
<1> QED
  BY <1>1, <1>2, <1>3, <1>4, <1>5, <1>6, <1>7, <1>8, <1>9, <1>10,
     <1>11, <1>12, <1>13, <1>14, <1>15
     DEF Next, DispatcherStep, ListenerStep

LEMMA NextLock == TypeOK /\ LockIsHeldInside /\ [Next]_vars => LockIsHeldInside'
<1> SUFFICES ASSUME TypeOK, LockIsHeldInside, [Next]_vars PROVE LockIsHeldInside'
  OBVIOUS
<1> USE DEF TypeOK, LockIsHeldInside
<1>1. ASSUME NEW n \in Nodes, DispatcherStep(n) PROVE LockIsHeldInside'
  BY <1>1 DEF DispatcherStep, Get, DispatcherAcquire, SendTo, SendFails,
              DispatcherRelease, Dispatcher, Lock, Unlock, listenerVars
<1>2. ASSUME NEW n \in Nodes, ListenerStep(n) PROVE LockIsHeldInside'
  BY <1>2 DEF ListenerStep, Select, ListenerAcquire, RecvFrom, ListenerRelease,
              Start, StartCut, Warn, Listener, Lock, Unlock, dispatcherVars
<1>3. ASSUME NEW n \in Nodes, Restart(n) PROVE LockIsHeldInside'
  BY <1>3 DEF Restart, Unlock
<1>4. CASE UNCHANGED <<lock, dis, lis>>
  BY <1>4
<1> QED
  BY <1>1, <1>2, <1>3, <1>4
     DEF Next, Put, Arrive, LoseOnWire, Discard, vars, dispatcherVars, listenerVars
-----------------------------------------------------------------------------
\* What a step of the dispatcher of n leaves alone, and what of the listener.
LEMMA DispatcherFrame ==
  ASSUME TypeOK, NEW n \in Nodes, NEW from, NEW to, Dispatcher(n, from, to),
         UNCHANGED listenerVars
  PROVE  /\ \A m \in Nodes : Received(m)' = Received(m)
         /\ \A m \in Nodes \ {n} : dis'[m] = dis[m]
         /\ dis[n] = from /\ dis'[n] = to
         /\ started' = started
BY DEF TypeOK, Dispatcher, listenerVars, Received

LEMMA ListenerFrame ==
  ASSUME TypeOK, NEW n \in Nodes, NEW from, NEW to, Listener(n, from, to),
         UNCHANGED dispatcherVars
  PROVE  /\ \A m \in Nodes : InHand(m)' = InHand(m)
         /\ \A m \in Nodes \ {n} : lis'[m] = lis[m]
         /\ lis[n] = from /\ lis'[n] = to
BY DEF TypeOK, Listener, dispatcherVars, InHand

\* Where the events are, seen as sets: all that InOnePlace speaks of.
Places(n) == <<outgoing[n], InHand(n), buf[n], Received(n)>>

\* Steps that move no event.
LEMMA UnmovedInOnePlace ==
  ASSUME InOnePlace, UNCHANGED <<sent, wire, started>>,
         \A n \in Nodes : Places(n)' = Places(n)
  PROVE  InOnePlace' /\ InFlight' = InFlight
<1>1. \A n \in Nodes :
        /\ outgoing'[n] = outgoing[n] /\ buf'[n] = buf[n]
        /\ Queued(n)' = Queued(n) /\ InHand(n)' = InHand(n)
        /\ Received(n)' = Received(n)
  BY DEF Places, Queued
<1>2. \A n \in Nodes : Leaving(n)' = Leaving(n) /\ Reached(n)' = Reached(n)
  BY <1>1 DEF Leaving, Reached
<1>3. InFlight' = InFlight
  BY <1>2 DEF InFlight
<1> QED BY <1>1, <1>2, <1>3 DEF InOnePlace

\* A new event enters the queue of its sender.
LEMMA PutInOnePlace ==
  ASSUME IInv, NEW e \in Events, Put(e)
  PROVE  InOnePlace' /\ InFlight' = InFlight \cup {e}
<1> DEFINE s == Src[e]
<1> USE EndpointAssumption DEF IInv
<1>1. s \in Nodes /\ e \notin sent /\ sent' = sent \cup {e}
  BY DEF Put
<1>2. e \notin InFlight /\ e \notin started
  BY <1>1 DEF InOnePlace
<1>3. e \notin Range(outgoing[s])
  BY <1>1, <1>2 DEF InFlight, Leaving, Queued
<1>4. /\ outgoing'[s] = Append(outgoing[s], e)
      /\ \A n \in Nodes \ {s} : outgoing'[n] = outgoing[n]
  BY <1>1 DEF Put, TypeOK
<1>5. IsInjective(outgoing'[s]) /\ Range(outgoing'[s]) = Range(outgoing[s]) \cup {e}
  BY <1>1, <1>3, <1>4, AppendFacts DEF InOnePlace, TypeOK
<1>6. \A n \in Nodes : /\ InHand(n)' = InHand(n) /\ Received(n)' = Received(n)
                       /\ buf'[n] = buf[n]
  BY DEF Put, InHand, Received, dispatcherVars, listenerVars
<1>7. wire' = wire /\ started' = started
  BY DEF Put, listenerVars
<1>8. /\ Queued(s)' = Queued(s) \cup {e}
      /\ \A n \in Nodes \ {s} : Queued(n)' = Queued(n)
  BY <1>4, <1>5 DEF Queued
<1>9. /\ Leaving(s)' = Leaving(s) \cup {e}
      /\ \A n \in Nodes \ {s} : Leaving(n)' = Leaving(n)
      /\ \A n \in Nodes : Reached(n)' = Reached(n)
  BY <1>6, <1>8 DEF Leaving, Reached
<1>10. InFlight' = InFlight \cup {e}
  BY <1>1, <1>7, <1>9 DEF InFlight
<1>11. \A n \in Nodes : e \notin Leaving(n) \cup Reached(n) /\ e \notin wire
  BY <1>2 DEF InFlight
<1>12. \A n \in Nodes : e \notin InHand(n)
  BY <1>11 DEF Leaving
<1>13. \A n \in Nodes : IsInjective(outgoing'[n])
  BY <1>4, <1>5 DEF InOnePlace
<1>14. \A n \in Nodes : Queued(n)' \cap InHand(n)' = {} /\ buf'[n] \cap Received(n)' = {}
  BY <1>6, <1>8, <1>12 DEF InOnePlace
<1>15. \A n \in Nodes :
         /\ \A d \in Leaving(n)' : Src[d] = n /\ d \notin wire'
         /\ \A d \in Reached(n)' : Dst[d] = n /\ d \notin wire'
  BY <1>7, <1>9, <1>11 DEF InOnePlace
<1>16. \A m, n \in Nodes : Leaving(m)' \cap Reached(n)' = {}
  BY <1>9, <1>11 DEF InOnePlace
<1>17. InFlight' \cap started' = {} /\ InFlight' \cup started' \subseteq sent'
  BY <1>1, <1>2, <1>7, <1>10 DEF InOnePlace
<1> QED BY <1>10, <1>13, <1>14, <1>15, <1>16, <1>17 DEF InOnePlace

\* The dispatcher takes the first event of the queue into its hand.
LEMMA GetInOnePlace ==
  ASSUME IInv, NEW n \in Nodes, Get(n)
  PROVE  InOnePlace' /\ InFlight' = InFlight
<1> USE DEF IInv
<1> DEFINE q == outgoing[n]
<1>1. q \in Seq(Events) /\ IsInjective(q) /\ q # <<>>
  BY DEF Get, TypeOK, InOnePlace
<1>2. /\ \A m \in Nodes : Received(m)' = Received(m)
      /\ \A m \in Nodes \ {n} : dis'[m] = dis[m]
      /\ dis[n] = "get" /\ dis'[n] = "acquire" /\ started' = started
  BY DispatcherFrame DEF Get
<1>3. /\ outgoing'[n] = Tail(q) /\ mail'[n] = Head(q)
      /\ \A m \in Nodes \ {n} : outgoing'[m] = outgoing[m] /\ mail'[m] = mail[m]
      /\ wire' = wire /\ buf' = buf /\ sent' = sent
  BY DEF Get, TypeOK
<1>4. Head(q) \in Range(q) /\ IsInjective(Tail(q)) /\ Range(Tail(q)) = Range(q) \ {Head(q)}
  BY <1>1, TailFacts
<1>5. /\ Queued(n)' = Queued(n) \ {Head(q)} /\ Head(q) \in Queued(n)
      /\ InHand(n) = {} /\ InHand(n)' = {Head(q)}
  BY <1>2, <1>3, <1>4 DEF Queued, InHand
<1>6. \A m \in Nodes \ {n} : Queued(m)' = Queued(m) /\ InHand(m)' = InHand(m)
  BY <1>2, <1>3 DEF Queued, InHand
<1>7. \A m \in Nodes : Leaving(m)' = Leaving(m) /\ Reached(m)' = Reached(m)
  BY <1>2, <1>3, <1>5, <1>6 DEF Leaving, Reached
<1>8. InFlight' = InFlight
  BY <1>3, <1>7 DEF InFlight
<1>9. \A m \in Nodes : IsInjective(outgoing'[m]) /\ Queued(m)' \cap InHand(m)' = {}
  BY <1>3, <1>4, <1>5, <1>6 DEF InOnePlace
<1> QED BY <1>2, <1>3, <1>7, <1>8, <1>9 DEF InOnePlace

\* sendto moves the event from the dispatcher's hand to the wire.
LEMMA SendToInOnePlace ==
  ASSUME IInv, NEW n \in Nodes, SendTo(n)
  PROVE  InOnePlace' /\ InFlight' = InFlight
<1> USE DEF IInv
<1>1. /\ \A m \in Nodes : Received(m)' = Received(m)
      /\ \A m \in Nodes \ {n} : dis'[m] = dis[m]
      /\ dis[n] = "send" /\ dis'[n] = "release" /\ started' = started
  BY DispatcherFrame DEF SendTo
<1>2. /\ wire' = wire \cup {mail[n]} /\ outgoing' = outgoing /\ mail' = mail
      /\ buf' = buf /\ sent' = sent
  BY DEF SendTo
<1>3. \A m \in Nodes : Queued(m)' = Queued(m)
  BY <1>2 DEF Queued
<1>4. /\ InHand(n) = {mail[n]} /\ InHand(n)' = {}
      /\ \A m \in Nodes \ {n} : InHand(m)' = InHand(m)
  BY <1>1, <1>2 DEF InHand
<1>5. mail[n] \in Leaving(n) /\ mail[n] \notin Queued(n)
  BY <1>4 DEF Leaving, InOnePlace
<1>6. /\ Leaving(n)' = Leaving(n) \ {mail[n]}
      /\ \A m \in Nodes \ {n} : Leaving(m)' = Leaving(m)
      /\ \A m \in Nodes : Reached(m)' = Reached(m)
  BY <1>1, <1>2, <1>3, <1>4, <1>5 DEF Leaving, Reached
<1>7. \A m \in Nodes \ {n} : mail[n] \notin Leaving(m)
  BY <1>5 DEF InOnePlace
<1>8. \A m \in Nodes : mail[n] \notin Reached(m)
  BY <1>5 DEF InOnePlace
<1>9. InFlight' = InFlight
  BY <1>2, <1>5, <1>6 DEF InFlight
<1>10. \A m \in Nodes : /\ IsInjective(outgoing'[m]) /\ Queued(m)' \cap InHand(m)' = {}
                        /\ buf'[m] \cap Received(m)' = {}
  BY <1>1, <1>2, <1>3, <1>4 DEF InOnePlace
<1>11. \A m \in Nodes :
         /\ \A e \in Leaving(m)' : Src[e] = m /\ e \notin wire'
         /\ \A e \in Reached(m)' : Dst[e] = m /\ e \notin wire'
  BY <1>2, <1>6, <1>7, <1>8 DEF InOnePlace
<1>12. \A l, m \in Nodes : Leaving(l)' \cap Reached(m)' = {}
  BY <1>6 DEF InOnePlace
<1> QED BY <1>1, <1>2, <1>9, <1>10, <1>11, <1>12 DEF InOnePlace

\* The kernel puts a datagram from the wire into the socket it is for.
LEMMA ArriveInOnePlace ==
  ASSUME IInv, NEW e \in Events, Arrive(e)
  PROVE  InOnePlace' /\ InFlight' = InFlight
<1> USE EndpointAssumption DEF IInv
<1> DEFINE d == Dst[e]
<1>1. /\ d \in Nodes /\ e \in wire /\ wire' = wire \ {e}
      /\ buf'[d] = buf[d] \cup {e}
      /\ \A m \in Nodes \ {d} : buf'[m] = buf[m]
      /\ outgoing' = outgoing /\ started' = started /\ sent' = sent
  BY DEF Arrive, TypeOK, listenerVars
<1>2. \A m \in Nodes : /\ Queued(m)' = Queued(m) /\ InHand(m)' = InHand(m)
                       /\ Received(m)' = Received(m)
  BY DEF Arrive, Queued, InHand, Received, dispatcherVars, listenerVars
<1>3. \A m \in Nodes : e \notin Leaving(m) /\ e \notin Reached(m)
  BY <1>1 DEF InOnePlace
<1>4. /\ \A m \in Nodes : Leaving(m)' = Leaving(m)
      /\ Reached(d)' = Reached(d) \cup {e}
      /\ \A m \in Nodes \ {d} : Reached(m)' = Reached(m)
  BY <1>1, <1>2 DEF Leaving, Reached
<1>5. InFlight' = InFlight
  BY <1>1, <1>4 DEF InFlight
<1>6. \A m \in Nodes : e \notin Received(m)
  BY <1>3 DEF Reached
<1>7. \A m \in Nodes : /\ IsInjective(outgoing'[m]) /\ Queued(m)' \cap InHand(m)' = {}
                       /\ buf'[m] \cap Received(m)' = {}
  BY <1>1, <1>2, <1>6 DEF InOnePlace
<1>8. \A m \in Nodes :
        /\ \A f \in Leaving(m)' : Src[f] = m /\ f \notin wire'
        /\ \A f \in Reached(m)' : Dst[f] = m /\ f \notin wire'
  BY <1>1, <1>4 DEF InOnePlace
<1>9. \A l, m \in Nodes : Leaving(l)' \cap Reached(m)' = {}
  BY <1>3, <1>4 DEF InOnePlace
<1> QED BY <1>1, <1>5, <1>7, <1>8, <1>9 DEF InOnePlace

\* recvfrom moves a datagram from the socket to the listener.
LEMMA RecvFromInOnePlace ==
  ASSUME IInv, NEW n \in Nodes, RecvFrom(n)
  PROVE  InOnePlace' /\ InFlight' = InFlight
<1> USE DEF IInv
<1>1. /\ \A m \in Nodes : InHand(m)' = InHand(m)
      /\ \A m \in Nodes \ {n} : lis'[m] = lis[m]
      /\ lis[n] = "recv" /\ lis'[n] = "release"
  BY ListenerFrame DEF RecvFrom
<1>2. PICK e \in buf[n] : /\ data' = [data EXCEPT ![n] = e]
                          /\ buf' = [buf EXCEPT ![n] = buf[n] \ {e}]
  BY DEF RecvFrom
<1>3. /\ data'[n] = e /\ buf'[n] = buf[n] \ {e}
      /\ \A m \in Nodes \ {n} : data'[m] = data[m] /\ buf'[m] = buf[m]
  BY <1>2 DEF TypeOK
<1>4. outgoing' = outgoing /\ wire' = wire /\ started' = started /\ sent' = sent
  BY DEF RecvFrom
<1>5. /\ Received(n) = {} /\ Received(n)' = {e}
      /\ \A m \in Nodes \ {n} : Received(m)' = Received(m)
      /\ \A m \in Nodes : Queued(m)' = Queued(m)
  BY <1>1, <1>3, <1>4 DEF Received, Queued
<1>6. \A m \in Nodes : Leaving(m)' = Leaving(m) /\ Reached(m)' = Reached(m)
  BY <1>1, <1>3, <1>5 DEF Leaving, Reached
<1>7. InFlight' = InFlight
  BY <1>4, <1>6 DEF InFlight
<1>8. \A m \in Nodes : /\ IsInjective(outgoing'[m]) /\ Queued(m)' \cap InHand(m)' = {}
                       /\ buf'[m] \cap Received(m)' = {}
  BY <1>1, <1>3, <1>4, <1>5 DEF InOnePlace
<1> QED BY <1>4, <1>6, <1>7, <1>8 DEF InOnePlace

\* A ServerHandler gets the event that the listener received.
LEMMA StartInOnePlace ==
  ASSUME IInv, NEW n \in Nodes, Start(n)
  PROVE  /\ InOnePlace' /\ InFlight' = InFlight \ {data[n]}
         /\ data[n] \in InFlight
<1> USE DEF IInv
<1>1. /\ \A m \in Nodes : InHand(m)' = InHand(m)
      /\ \A m \in Nodes \ {n} : lis'[m] = lis[m]
      /\ lis[n] = "read" /\ lis'[n] = "select"
  BY ListenerFrame DEF Start
<1>2. /\ started' = started \cup {data[n]} /\ data' = data /\ buf' = buf
      /\ outgoing' = outgoing /\ wire' = wire /\ sent' = sent
  BY DEF Start
<1>3. /\ Received(n) = {data[n]} /\ Received(n)' = {}
      /\ \A m \in Nodes \ {n} : Received(m)' = Received(m)
      /\ \A m \in Nodes : Queued(m)' = Queued(m)
  BY <1>1, <1>2 DEF Received, Queued
<1>4. data[n] \in Reached(n) /\ data[n] \notin buf[n] /\ data[n] \in InFlight
  BY <1>3 DEF Reached, InFlight, InOnePlace
<1>5. /\ \A m \in Nodes : Leaving(m)' = Leaving(m)
      /\ Reached(n)' = Reached(n) \ {data[n]}
      /\ \A m \in Nodes \ {n} : Reached(m)' = Reached(m)
  BY <1>1, <1>2, <1>3, <1>4 DEF Leaving, Reached
<1>6. \A m \in Nodes : /\ data[n] \notin Leaving(m)
                       /\ m # n => data[n] \notin Reached(m)
  BY <1>4 DEF InOnePlace
<1>7. InFlight' = InFlight \ {data[n]}
  BY <1>2, <1>4, <1>5, <1>6 DEF InFlight, InOnePlace
<1>8. \A m \in Nodes : /\ IsInjective(outgoing'[m]) /\ Queued(m)' \cap InHand(m)' = {}
                       /\ buf'[m] \cap Received(m)' = {}
  BY <1>1, <1>2, <1>3 DEF InOnePlace
<1>9. \A m \in Nodes :
        /\ \A e \in Leaving(m)' : Src[e] = m /\ e \notin wire'
        /\ \A e \in Reached(m)' : Dst[e] = m /\ e \notin wire'
  BY <1>2, <1>5 DEF InOnePlace
<1>10. \A l, m \in Nodes : Leaving(l)' \cap Reached(m)' = {}
  BY <1>5 DEF InOnePlace
<1>11. InFlight' \cap started' = {} /\ InFlight' \cup started' \subseteq sent'
  BY <1>2, <1>4, <1>7 DEF InOnePlace
<1> QED BY <1>4, <1>7, <1>8, <1>9, <1>10, <1>11 DEF InOnePlace

\* Steps that drop events, and move none.
LEMMA FewerInOnePlace ==
  ASSUME InOnePlace, UNCHANGED <<sent, started>>, wire' \subseteq wire,
         \A n \in Nodes : /\ outgoing'[n] \in {outgoing[n], <<>>}
                          /\ InHand(n)' \subseteq InHand(n)
                          /\ buf'[n] \subseteq buf[n]
                          /\ Received(n)' \subseteq Received(n)
  PROVE  InOnePlace' /\ InFlight' \subseteq InFlight
<1>1. \A n \in Nodes : IsInjective(outgoing'[n]) /\ Queued(n)' \subseteq Queued(n)
  BY DEF InOnePlace, Queued, Range, IsInjective
<1>2. \A n \in Nodes : Leaving(n)' \subseteq Leaving(n) /\ Reached(n)' \subseteq Reached(n)
  BY <1>1 DEF Leaving, Reached
<1>3. InFlight' \subseteq InFlight
  BY <1>2 DEF InFlight
<1>4. \A n \in Nodes : Queued(n)' \cap InHand(n)' = {} /\ buf'[n] \cap Received(n)' = {}
  BY <1>1 DEF InOnePlace
<1>5. \A n \in Nodes :
        /\ \A e \in Leaving(n)' : Src[e] = n /\ e \notin wire'
        /\ \A e \in Reached(n)' : Dst[e] = n /\ e \notin wire'
  BY <1>2 DEF InOnePlace
<1>6. \A m, n \in Nodes : Leaving(m)' \cap Reached(n)' = {}
  BY <1>2 DEF InOnePlace
<1>7. InFlight' \cap started' = {} /\ InFlight' \cup started' \subseteq sent'
  BY <1>3 DEF InOnePlace
<1> QED BY <1>1, <1>3, <1>4, <1>5, <1>6, <1>7 DEF InOnePlace

\* Which steps move no event, and which drop some.
Unmoving(n) ==
  \/ DispatcherAcquire(n) \/ DispatcherRelease(n)
  \/ Select(n) \/ ListenerAcquire(n) \/ ListenerRelease(n)

Dropping(n) == SendFails(n) \/ StartCut(n) \/ Warn(n) \/ Discard(n) \/ Restart(n)

LEMMA UnmovingKeepsPlaces ==
  ASSUME TypeOK, NEW n \in Nodes, Unmoving(n)
  PROVE  InOnePlace => InOnePlace' /\ InFlight' = InFlight /\ UNCHANGED <<sent, started>>
<1>1. CASE DispatcherAcquire(n) \/ DispatcherRelease(n)
  <2>1. UNCHANGED <<sent, outgoing, mail, wire, buf, listenerVars>>
    BY <1>1 DEF DispatcherAcquire, DispatcherRelease
  <2>2. \A m \in Nodes : InHand(m)' = InHand(m) /\ Received(m)' = Received(m)
    BY <1>1, <2>1 DEF TypeOK, DispatcherAcquire, DispatcherRelease, Dispatcher,
                     InHand, Received, listenerVars
  <2> QED BY <2>1, <2>2, UnmovedInOnePlace DEF Places, listenerVars
<1>2. CASE Select(n) \/ ListenerAcquire(n) \/ ListenerRelease(n)
  <2>1. UNCHANGED <<sent, outgoing, dispatcherVars, wire, buf, data, started>>
    BY <1>2 DEF Select, ListenerAcquire, ListenerRelease
  <2>2. \A m \in Nodes : InHand(m)' = InHand(m) /\ Received(m)' = Received(m)
    BY <1>2, <2>1 DEF TypeOK, Select, ListenerAcquire, ListenerRelease, Listener,
                     InHand, Received, dispatcherVars
  <2> QED BY <2>1, <2>2, UnmovedInOnePlace DEF Places
<1> QED BY <1>1, <1>2 DEF Unmoving

LEMMA DroppingKeepsPlaces ==
  ASSUME TypeOK, NEW n \in Nodes, Dropping(n)
  PROVE  InOnePlace => /\ InOnePlace' /\ InFlight' \subseteq InFlight
                       /\ UNCHANGED <<sent, started>>
<1>1. CASE SendFails(n)
  <2>1. UNCHANGED <<sent, outgoing, mail, wire, buf, lis, data, started>>
    BY <1>1 DEF SendFails, listenerVars
  <2>2. \A m \in Nodes : InHand(m)' \subseteq InHand(m) /\ Received(m)' = Received(m)
    BY <1>1, <2>1 DEF TypeOK, SendFails, Dispatcher, InHand, Received
  <2> QED BY <2>1, <2>2, FewerInOnePlace
<1>2. CASE StartCut(n) \/ Warn(n)
  <2>1. UNCHANGED <<sent, outgoing, dis, mail, wire, buf, data, started>>
    BY <1>2 DEF StartCut, Warn, dispatcherVars
  <2>2. \A m \in Nodes : InHand(m)' = InHand(m) /\ Received(m)' \subseteq Received(m)
    BY <1>2, <2>1 DEF TypeOK, StartCut, Warn, Listener, InHand, Received
  <2> QED BY <2>1, <2>2, FewerInOnePlace
<1>3. CASE Discard(n)
  <2>1. UNCHANGED <<sent, outgoing, dis, mail, wire, lis, data, started>>
    BY <1>3 DEF Discard, dispatcherVars, listenerVars
  <2>2. \A m \in Nodes : InHand(m)' = InHand(m) /\ Received(m)' = Received(m)
    BY <2>1 DEF InHand, Received
  <2>3. \A m \in Nodes : buf'[m] \subseteq buf[m]
    BY <1>3 DEF TypeOK, Discard
  <2> QED BY <2>1, <2>2, <2>3, FewerInOnePlace
<1>4. CASE Restart(n)
  <2>1. UNCHANGED <<sent, wire, started>>
    BY <1>4 DEF Restart
  <2>2. \A m \in Nodes : /\ outgoing'[m] \in {outgoing[m], <<>>}
                         /\ buf'[m] \subseteq buf[m]
    BY <1>4 DEF TypeOK, Restart
  <2>3. \A m \in Nodes : InHand(m)' \subseteq InHand(m)
    BY <1>4 DEF TypeOK, Restart, InHand
  <2>4. \A m \in Nodes : Received(m)' \subseteq Received(m)
    BY <1>4 DEF TypeOK, Restart, Received
  <2> QED BY <2>1, <2>2, <2>3, <2>4, FewerInOnePlace
<1> QED BY <1>1, <1>2, <1>3, <1>4 DEF Dropping

LEMMA LoseOnWireKeepsPlaces ==
  ASSUME NEW e \in Events, LoseOnWire(e)
  PROVE  InOnePlace => /\ InOnePlace' /\ InFlight' \subseteq InFlight
                       /\ UNCHANGED <<sent, started>>
<1>1. /\ UNCHANGED <<sent, outgoing, dis, mail, buf, lis, data, started>>
      /\ wire' \subseteq wire
  BY DEF LoseOnWire, dispatcherVars, listenerVars
<1>2. \A m \in Nodes : InHand(m)' = InHand(m) /\ Received(m)' = Received(m)
  BY <1>1 DEF InHand, Received
<1> QED BY <1>1, <1>2, FewerInOnePlace
-----------------------------------------------------------------------------
LEMMA InitNet == Init => N!Init
<1> SUFFICES ASSUME Init PROVE N!Init
  OBVIOUS
<1>1. \A n \in Nodes : Leaving(n) = {} /\ Reached(n) = {}
  BY DEF Init, Leaving, Reached, Queued, InHand, Received, Range
<1>2. InFlight = {}
  BY <1>1 DEF Init, InFlight
<1> QED BY <1>2 DEF Init, N!Init

\* Each step keeps every event in one place, and is a step of the network: an
\* event is sent when it is put, delivered when its ServerHandler starts, and
\* lost wherever it is dropped.
LEMMA NextNet == IInv /\ [Next]_vars => InOnePlace' /\ [N!Next]_(N!vars)
<1> SUFFICES ASSUME IInv, [Next]_vars PROVE InOnePlace' /\ [N!Next]_(N!vars)
  OBVIOUS
<1> USE DEF IInv
<1>1. ASSUME InOnePlace', InFlight' = InFlight, UNCHANGED <<sent, started>>
      PROVE  InOnePlace' /\ [N!Next]_(N!vars)
  BY <1>1 DEF N!vars
<1>2. ASSUME InOnePlace', InFlight' \subseteq InFlight, UNCHANGED <<sent, started>>
      PROVE  InOnePlace' /\ [N!Next]_(N!vars)
  <2>1. N!Lose(InFlight \ InFlight')
    BY <1>2 DEF N!Lose
  <2> QED BY <1>2, <2>1 DEF N!Next
<1>3. ASSUME NEW e \in Events, Put(e) PROVE InOnePlace' /\ [N!Next]_(N!vars)
  <2>1. InOnePlace' /\ N!Send(e)
    BY <1>3, PutInOnePlace DEF Put, listenerVars, N!Send
  <2> QED BY <2>1 DEF N!Next
<1>4. ASSUME NEW e \in Events, Arrive(e) PROVE InOnePlace' /\ [N!Next]_(N!vars)
  BY <1>1, <1>4, ArriveInOnePlace DEF Arrive, listenerVars
<1>5. ASSUME NEW e \in Events, LoseOnWire(e) PROVE InOnePlace' /\ [N!Next]_(N!vars)
  BY <1>2, <1>5, LoseOnWireKeepsPlaces
<1>6. ASSUME NEW n \in Nodes, Get(n) PROVE InOnePlace' /\ [N!Next]_(N!vars)
  BY <1>1, <1>6, GetInOnePlace DEF Get, listenerVars
<1>7. ASSUME NEW n \in Nodes, SendTo(n) PROVE InOnePlace' /\ [N!Next]_(N!vars)
  BY <1>1, <1>7, SendToInOnePlace DEF SendTo, listenerVars
<1>8. ASSUME NEW n \in Nodes, RecvFrom(n) PROVE InOnePlace' /\ [N!Next]_(N!vars)
  BY <1>1, <1>8, RecvFromInOnePlace DEF RecvFrom
<1>9. ASSUME NEW n \in Nodes, Start(n) PROVE InOnePlace' /\ [N!Next]_(N!vars)
  <2>1. InOnePlace' /\ N!Deliver(data[n])
    BY <1>9, StartInOnePlace DEF Start, N!Deliver
  <2>2. data[n] \in Events
    BY <1>9, StartInOnePlace DEF InOnePlace, TypeOK
  <2> QED BY <2>1, <2>2 DEF N!Next
<1>10. ASSUME NEW n \in Nodes, Unmoving(n) PROVE InOnePlace' /\ [N!Next]_(N!vars)
  BY <1>1, <1>10, UnmovingKeepsPlaces
<1>11. ASSUME NEW n \in Nodes, Dropping(n) PROVE InOnePlace' /\ [N!Next]_(N!vars)
  BY <1>2, <1>11, DroppingKeepsPlaces
<1>12. CASE UNCHANGED vars
  <2>1. \A n \in Nodes : Places(n)' = Places(n)
    BY <1>12 DEF vars, dispatcherVars, listenerVars, Places, InHand, Received
  <2>2. UNCHANGED <<sent, wire, started>>
    BY <1>12 DEF vars, listenerVars
  <2> QED BY <1>1, <2>1, <2>2, UnmovedInOnePlace
<1> QED
  BY <1>3, <1>4, <1>5, <1>6, <1>7, <1>8, <1>9, <1>10, <1>11, <1>12
     DEF Next, DispatcherStep, ListenerStep, Unmoving, Dropping

LEMMA NextIInv == IInv /\ [Next]_vars => IInv'
BY NextTypeOK, NextLock, NextNet DEF IInv

\* Events, threads and lock are always where the parts of IInv say.
THEOREM Invariance == Spec => []IInv
BY InitIInv, NextIInv, PTL DEF Spec

\* Every variable keeps its type.
THEOREM TypeCorrect == Spec => []TypeOK
BY Invariance, PTL DEF IInv

\* The lock of a socket is held by the thread that is between acquire and
\* release, or by a dispatcher that died there.
THEOREM LockIsSound == Spec => []LockIsHeldInside
BY Invariance, PTL DEF IInv

\* No two threads, queues or sockets ever have the same event, and none has one
\* that a ServerHandler was started for.
THEOREM EventsAreInOnePlace == Spec => []InOnePlace
BY Invariance, PTL DEF IInv

\* Queue, threads, lock and UDP implement the network of MainServer: an event
\* is handled at most once, by one ServerHandler, or lost.
THEOREM EndpointsImplementNet == Spec => ImplementsNet
<1>1. Init => IInv /\ N!Init
  BY InitIInv, InitNet
<1>2. IInv /\ [Next]_vars => IInv' /\ [N!Next]_(N!vars)
  BY NextIInv, NextNet
<1> QED BY <1>1, <1>2, PTL DEF Spec, ImplementsNet, N!Spec
=============================================================================
