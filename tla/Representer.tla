---------------------------- MODULE Representer ----------------------------
(***************************************************************************)
(* representer.py: Python objects to a graph of nodes.                     *)
(* An object is [kind, value, kids]; kids are indices into the heap, keys  *)
(* and values in turn for a dict (in the order that represent_mapping      *)
(* sorts them into) or for the attributes of an object.  A node is         *)
(* [id, tag, value, kids].  An object of kind "apply" is one that __reduce__   *)
(* says how to make: a function of kids, and a state, value, or none.      *)
(***************************************************************************)
EXTENDS Integers, SequencesExt, TLC

VARIABLE safe   \* an option: safe_dump() and safe_load(), not dump() and load()

Scalars == {"none", "str", "int", "date"}
Tag(o) ==
  CASE o.kind = "none" -> "null" [] o.kind = "date" -> "timestamp"
    [] o.kind = "list" -> "seq" [] o.kind = "dict" -> "map"
    [] o.kind = "tuple" -> IF safe THEN "seq" ELSE "tuple"
    [] OTHER -> o.kind

Stateful(o) == o.kind = "apply" /\ o.value # ""
Node(o) ==
  [id |-> CASE o.kind \in Scalars -> "Scalar"
            [] o.kind \in {"dict", "object"} \/ Stateful(o) -> "Mapping"
            [] OTHER -> "Sequence",
   tag |-> Tag(o), value |-> IF o.kind \in Scalars THEN o.value ELSE "", kids |-> <<>>]

ignore_aliases(o) ==
  o.kind \in Scalars \ {"date"} \/ (o.kind = "tuple" /\ o.kids = <<>>)

\* represented_objects: from addresses to nodes.  object_keeper: addresses that
\* are in use until the document is done; live: of lists that represent_object()
\* made and still uses.  node: what represent_data() returns.  raised: a TypeError.
Represented == [nodes |-> <<>>, represented_objects |-> <<>>, object_keeper |-> {},
                live |-> {}, node |-> 0, raised |-> FALSE]

\* mapping.sort() raises: dates compare with dates only.
KeyKinds(heap, o) == {heap[o.kids[k]].kind : k \in {j \in DOMAIN o.kids : j % 2 = 1}}
Unsortable(heap, o) ==
  o.kind = "dict" /\ "date" \in KeyKinds(heap, o) /\ KeyKinds(heap, o) # {"date"}

\* A list that is made gets the first free address.
Free(s, heap) ==
  CHOOSE a \in Len(heap)..(Len(heap) + 10) \ {Len(heap)} :
    /\ a \notin s.object_keeper \cup s.live
    /\ \A b \in (Len(heap) + 1)..(a - 1) : b \in s.object_keeper \cup s.live

\* What is represented for the parts of o, with their addresses.
Scalar(kind, value) == [o |-> [kind |-> kind, value |-> value, kids |-> <<>>], at |-> 0]
Parts(heap, o, made) ==
  IF Stateful(o)
  THEN (IF o.kids = <<>> THEN <<>>
        ELSE <<Scalar("str", "args"),
               [o |-> [kind |-> "list", value |-> "", kids |-> o.kids], at |-> made]>>)
         \o <<Scalar("str", "state"), Scalar("int", o.value)>>
  ELSE [i \in DOMAIN o.kids |-> [o |-> heap[o.kids[i]], at |-> o.kids[i]]]

\* A node without its parts: it is known before they are.
Begin(s, heap, o, at) ==
  LET n == Len(s.nodes) + 1 IN
  [s EXCEPT !.nodes = Append(@, Node(o)),
            !.raised = @ \/ Unsortable(heap, o),
            !.represented_objects = IF ignore_aliases(o) THEN @ ELSE (at :> n) @@ @,
            !.object_keeper = IF ignore_aliases(o) THEN @ ELSE @ \cup {at}]

RECURSIVE represent_data(_, _, _, _)
represent_data(s, heap, o, at) ==
  IF s.raised THEN s
  ELSE IF ~ignore_aliases(o) /\ at \in DOMAIN s.represented_objects
  THEN [s EXCEPT !.node = s.represented_objects[at]]
  ELSE LET n == Len(s.nodes) + 1
           made == Free(s, heap)
           begun == [Begin(s, heap, o, at) EXCEPT !.live = IF Stateful(o) THEN @ \cup {made} ELSE @]
           add(t, part) ==
             LET u == represent_data(t, heap, part.o, part.at) IN
             [u EXCEPT !.nodes[n].kids = Append(@, u.node)] IN
       [FoldLeft(add, begun, Parts(heap, o, made)) EXCEPT !.live = s.live, !.node = n]

\* represent(), which forgets the objects of a document after it.
Represent(heap, i) ==
  LET s == represent_data(Represented, heap, heap[i], i) IN
  [nodes |-> s.nodes, root |-> s.node, raised |-> s.raised]
=============================================================================
