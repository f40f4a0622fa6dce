------------------------------ MODULE Composer ------------------------------
(***************************************************************************)
(* composer.py: events to a graph of nodes.  s.events are those to come.   *)
(***************************************************************************)
EXTENDS Resolver, SequencesExt, TLC

Composing(events) == [events |-> events, nodes |-> <<>>, anchors |-> <<>>, node |-> 0, failed |-> ""]

peek_event(s) == Head(s.events)
Drop(s) == [s EXCEPT !.events = Tail(@)]

\* Mutant of NewNode: a collection has its anchor once it is complete, which a
\* collection inside itself is not.
NewNodeLater(s, e) ==
  LET n == Len(s.nodes) + 1
      tag == IF e.tag = "" THEN resolve(e.type, e.value, e.implicit[1]) ELSE e.tag IN
  [Drop(s) EXCEPT
     !.nodes = Append(@, [id |-> e.type, tag |-> tag, value |-> e.value, kids |-> <<>>]),
     !.anchors = IF e.anchor # 0 /\ e.type = "Scalar" THEN (e.anchor :> n) @@ @ ELSE @]

NewNode(s, e) ==
  LET n == Len(s.nodes) + 1
      tag == IF e.tag = "" THEN resolve(e.type, e.value, e.implicit[1]) ELSE e.tag IN
  [Drop(s) EXCEPT
     !.nodes = Append(@, [id |-> e.type, tag |-> tag, value |-> e.value, kids |-> <<>>]),
     !.anchors = IF e.anchor # 0 THEN (e.anchor :> n) @@ @ ELSE @]

Hang(s, n) == [s EXCEPT !.nodes[n].kids = Append(@, s.node)]

\* compose_node(), and the loop over the inner nodes of node n.
RECURSIVE compose_node(_), compose_inside(_, _)
compose_node(s) ==
  LET e == peek_event(s)
      n == Len(s.nodes) + 1
      new == NewNode(s, e) IN
  IF e.type = "Alias"
  THEN IF e.anchor \in DOMAIN s.anchors THEN [Drop(s) EXCEPT !.node = s.anchors[e.anchor]]
       ELSE [s EXCEPT !.failed = "found undefined alias"]
  ELSE IF e.anchor # 0 /\ e.anchor \in DOMAIN s.anchors
  THEN [s EXCEPT !.failed = "found duplicate anchor"]
  ELSE [IF e.type = "Scalar" THEN new ELSE compose_inside(new, n) EXCEPT !.node = n]
compose_inside(s, n) ==
  IF s.failed # "" THEN s
  ELSE IF peek_event(s).type = "End" THEN Drop(s)
  ELSE compose_inside(Hang(compose_node(s), n), n)

\* The anchors of a document are its own.
EndDocument(t) == IF t.failed # "" THEN t ELSE [Drop(t) EXCEPT !.anchors = <<>>]
compose_document(s) == EndDocument(compose_node([Drop(s) EXCEPT !.nodes = <<>>]))

Graph(s) == [nodes |-> s.nodes, root |-> s.node, failed |-> s.failed]

\* check_node() and get_node(), as compose_all() calls them.
RECURSIVE compose_rest(_)
compose_rest(s) ==
  IF peek_event(s).type = "StreamEnd" THEN <<>>
  ELSE LET t == compose_document(s) IN
       <<Graph(t)>> \o (IF t.failed # "" THEN <<>> ELSE compose_rest(t))
compose_all(events) == compose_rest(Drop(Composing(events)))

\* get_single_node()
get_single_node(events) ==
  LET start == Drop(Composing(events))
      t == IF peek_event(start).type = "StreamEnd" THEN start ELSE compose_document(start) IN
  IF t.failed = "" /\ peek_event(t).type # "StreamEnd"
  THEN Graph([t EXCEPT !.failed = "expected a single document in the stream"])
  ELSE Graph(t)
=============================================================================
