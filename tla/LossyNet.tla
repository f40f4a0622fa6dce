------------------------------ MODULE LossyNet ------------------------------
(***************************************************************************)
(* The network as the handler threads of server.py see it, and as          *)
(* MainServer.tla has it: what a thread puts into `outgoing' is handed to  *)
(* a ServerHandler of the addressed server, at some time, in any order, at *)
(* most once, or never.  UdpEndpoint.tla implements it.                    *)
(***************************************************************************)
CONSTANT Events   \* the events that threads put into `outgoing', each with its address

VARIABLES
  sent,   \* those put so far
  net,    \* those on their way
  got     \* those that a ServerHandler was started for

vars == <<sent, net, got>>

Init == sent = {} /\ net = {} /\ got = {}

Send(e) ==
  /\ e \in Events \ sent
  /\ sent' = sent \cup {e} /\ net' = net \cup {e}
  /\ UNCHANGED got

Deliver(e) ==
  /\ e \in net
  /\ net' = net \ {e} /\ got' = got \cup {e}
  /\ UNCHANGED sent

Lose(lost) ==
  /\ lost \subseteq net
  /\ net' = net \ lost
  /\ UNCHANGED <<sent, got>>

Next ==
  \/ \E e \in Events : Send(e) \/ Deliver(e)
  \/ \E lost \in SUBSET net : Lose(lost)

Spec == Init /\ [][Next]_vars
=============================================================================
