----------------------------- MODULE Serializer -----------------------------
(***************************************************************************)
(* serializer.py: a graph of nodes to events.  A node that is met again    *)
(* becomes an alias, and gets an anchor where it is met first.             *)
(***************************************************************************)
EXTENDS Resolver, SequencesExt, TLC

\* anchors: from nodes to anchors, 0 is None.
Serialized == [out |-> <<>>, anchors |-> <<>>, last_anchor_id |-> 0, serialized_nodes |-> {}]

RECURSIVE anchor_node(_, _, _)
anchor_node(s, nodes, n) ==
  IF n \notin DOMAIN s.anchors
  THEN FoldLeft(LAMBDA t, k : anchor_node(t, nodes, k),
                [s EXCEPT !.anchors = (n :> 0) @@ @], nodes[n].kids)
  ELSE IF s.anchors[n] # 0 THEN s
  ELSE [s EXCEPT !.last_anchor_id = @ + 1, !.anchors[n] = s.last_anchor_id + 1]

Event(type) == [type |-> type, anchor |-> 0, tag |-> "", implicit |-> <<FALSE, FALSE>>, value |-> ""]
Emitted(s, e) == [s EXCEPT !.out = Append(@, e)]

StartEvent(node, anchor) ==
  [type |-> node.id, anchor |-> anchor, tag |-> node.tag, value |-> node.value,
   implicit |-> <<node.tag = resolve(node.id, node.value, TRUE),
                  node.tag = resolve(node.id, node.value, FALSE)>>]

RECURSIVE serialize_node(_, _, _)
serialize_node(s, nodes, n) ==
  IF n \in s.serialized_nodes
  THEN Emitted(s, [Event("Alias") EXCEPT !.anchor = s.anchors[n]])
  ELSE LET start == StartEvent(nodes[n], s.anchors[n])
           inside == FoldLeft(LAMBDA t, k : serialize_node(t, nodes, k),
                              [Emitted(s, start) EXCEPT !.serialized_nodes = @ \cup {n}],
                              nodes[n].kids) IN
       IF start.type = "Scalar" THEN inside ELSE Emitted(inside, Event("End"))

\* Mutant of Reset: what a document anchors stays anchored.
ResetCount(s) == [s EXCEPT !.last_anchor_id = 0]

Reset(s) == [Serialized EXCEPT !.out = s.out]

\* serialize()
Serialize(s, g) ==
  LET t == serialize_node(anchor_node(Emitted(s, Event("DocumentStart")), g.nodes, g.root),
                          g.nodes, g.root) IN
  Reset(Emitted(t, Event("DocumentEnd")))

\* serialize_all(): open(), the documents, close().
SerializeAll(graphs) ==
  Emitted(FoldLeft(Serialize, Emitted(Serialized, Event("StreamStart")), graphs),
          Event("StreamEnd")).out
=============================================================================
