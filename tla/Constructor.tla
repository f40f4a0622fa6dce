---------------------------- MODULE Constructor ----------------------------
(***************************************************************************)
(* constructor.py: a graph of nodes to Python objects, which are as in     *)
(* Representer.  Lists, dicts and objects are made empty and filled by a   *)
(* generator, at once where the node is constructed deeply, else when the  *)
(* root is there.                                                          *)
(***************************************************************************)
EXTENDS SequencesExt, TLC

\* data: what construct_object() returns.
Constructing(nodes) ==
  [nodes |-> nodes, objects |-> <<>>, constructed_objects |-> <<>>, recursive_objects |-> {},
   state_generators |-> <<>>, deep_construct |-> FALSE, data |-> 0,
   failed |-> ""]

Raise(s, what) == [s EXCEPT !.failed = what]
NewObject(s, kind, value, kids) ==
  [s EXCEPT !.objects = Append(@, [kind |-> kind, value |-> value, kids |-> kids]),
            !.data = Len(s.objects) + 1]

ScalarKind == [null |-> "none", str |-> "str", int |-> "int", timestamp |-> "date"]
TwoStep == [seq |-> "list", map |-> "dict", object |-> "object"]

RECURSIVE hashable(_, _)
hashable(objects, i) ==
  /\ objects[i].kind \notin {"list", "dict"}
  /\ objects[i].kind = "tuple" => \A k \in Range(objects[i].kids) : hashable(objects, k)

RECURSIVE construct_object(_, _, _), construct_kids(_, _, _), Construct(_, _)

\* construct_object(), once made is there.
Constructed(made, n, deep, old_deep) ==
  IF made.failed # "" THEN made
  ELSE [made EXCEPT !.constructed_objects = (n :> made.data) @@ @,
                    !.recursive_objects = @ \ {n},
                    !.deep_construct = IF deep THEN old_deep ELSE @]

\* construct_object().  The early return leaves deep_construct as it is.
construct_object(s, n, deep) ==
  LET into == [s EXCEPT !.deep_construct = @ \/ deep] IN
  IF s.failed # "" THEN s
  ELSE IF n \in DOMAIN s.constructed_objects
  THEN [into EXCEPT !.data = s.constructed_objects[n]]
  ELSE IF n \in s.recursive_objects THEN Raise(s, "found unconstructable recursive node")
  ELSE Constructed(Construct([into EXCEPT !.recursive_objects = @ \cup {n}], n),
                   n, deep, s.deep_construct)

\* construct_sequence() and construct_mapping(): the objects of the inner nodes
\* of n, in s.data; every other one of a mapping is a key.
construct_kids(s, n, deep) ==
  LET node == s.nodes[n]
      next(kids, u, i) ==
        IF u.failed = "" /\ node.id = "Mapping" /\ i % 2 = 1 /\ ~hashable(u.objects, u.data)
        THEN [s |-> Raise(u, "found unacceptable key"), kids |-> kids]
        ELSE [s |-> u, kids |-> Append(kids, u.data)]
      step(t, i) ==
        IF t.s.failed # "" THEN t
        ELSE next(t.kids, construct_object(t.s, node.kids[i], deep), i) IN
  FoldLeft(step, [s |-> s, kids |-> <<>>], [i \in DOMAIN node.kids |-> i])

\* What a generator does after its first step, and in the end.
Filled(r, data) ==
  IF r.s.failed # "" THEN r.s ELSE [r.s EXCEPT !.objects[data].kids = r.kids]
RunGenerator(s, g) == Filled(construct_kids(s, g.node, FALSE), g.data)

\* An object that is made of its parts: a tuple, or what a function returns for
\* the arguments, with the state.
Made(r, node) ==
  LET all == node.tag = "tuple" \/ node.id = "Sequence"
      args == IF all THEN r.kids
              ELSE IF Len(r.kids) = 2 THEN <<>> ELSE r.s.objects[r.kids[2]].kids
      state == IF all THEN "" ELSE r.s.objects[Last(r.kids)].value IN
  IF r.s.failed # "" THEN r.s ELSE NewObject(r.s, node.tag, state, args)

\* The function that the tag of n names.
Construct(s, n) ==
  LET node == s.nodes[n]
      twostep == node.tag \in DOMAIN TwoStep
      t == IF twostep THEN NewObject(s, TwoStep[node.tag], "", <<>>) ELSE s
      full(r) == IF twostep THEN [Filled(r, t.data) EXCEPT !.data = t.data] ELSE Made(r, node) IN
  CASE node.tag \in DOMAIN ScalarKind -> NewObject(s, ScalarKind[node.tag], node.value, <<>>)
    [] twostep /\ ~s.deep_construct ->
         [t EXCEPT !.state_generators = Append(@, [node |-> n, data |-> t.data])]
    [] (twostep /\ s.deep_construct) \/ node.tag \in {"tuple", "apply"} ->
         full(construct_kids(t, n, node.tag = "apply"))
    [] OTHER -> Raise(s, "could not determine a constructor for the tag")

\* Rounds of construct_document(): what generators construct may need generators.
RECURSIVE Rounds(_)
Rounds(s) ==
  IF s.failed # "" \/ s.state_generators = <<>> THEN s
  ELSE Rounds(FoldLeft(LAMBDA t, g : IF t.failed # "" THEN t ELSE RunGenerator(t, g),
                       [s EXCEPT !.state_generators = <<>>], s.state_generators))

Finish(root) == [Rounds(root) EXCEPT !.data = root.data]

construct_document(graph) ==
  IF graph.failed # "" THEN Raise(Constructing(graph.nodes), graph.failed)
  ELSE Finish(construct_object(Constructing(graph.nodes), graph.root, FALSE))
=============================================================================
