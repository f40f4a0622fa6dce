------------------------------ MODULE DumpLoad ------------------------------
(***************************************************************************)
(* dump() and load() of myyaml/__init__.py: representer, serializer, text, *)
(* composer, constructor.  The heap of a program grows step by step; what  *)
(* was dumped must load again, with the same things shared.  The text is   *)
(* what RoundTrip says of it: every event comes back, without the tag      *)
(* where it can be guessed.                                                *)
(***************************************************************************)
EXTENDS Representer, Serializer, Composer, Constructor, Integers

\* What a program uses: under safe, whether it calls safe_dump() and safe_load();
\* its texts, [kind, value], and the kinds of its collections; and how many objects
\* it has (a bound) and how many items one has at most (a bound).
CONSTANT Settings

\* Safely, only what safe_dump() knows is dumped.
ASSUME DumpLoadAssumption ==
  \A c \in Range(Settings) :
    /\ c.safe \in BOOLEAN /\ {c.objects, c.items} \subseteq Nat
    /\ c.safe => c.kinds \subseteq {"list", "dict", "tuple"}

VARIABLES
  heap,      \* the objects of the program
  setting    \* the member of Settings that it is

Objects == DOMAIN heap
Mutable == {i \in Objects : heap[i].kind \in {"list", "dict", "object"}}
Hashable == {i \in Objects : hashable(heap, i)}
-----------------------------------------------------------------------------
\* The program.  Tuples are made with their items, and so are the arguments of a
\* function; a state is none or a number.
Program == Settings[setting]
Init ==
  /\ heap = <<>>
  /\ setting \in DOMAIN Settings
  /\ safe = Program.safe

New(o) == Len(heap) < Program.objects /\ heap' = Append(heap, o)
Fresh == {<<>>} \cup UNION {[1..n -> Objects] : n \in 1..Program.items}

NewScalar ==
  /\ \E t \in Program.texts : New([kind |-> t.kind, value |-> t.value, kids |-> <<>>])
  /\ UNCHANGED <<safe, setting>>
NewMutable ==
  /\ \E k \in Program.kinds \cap {"list", "dict", "object"} :
       New([kind |-> k, value |-> "", kids |-> <<>>])
  /\ UNCHANGED <<safe, setting>>
NewTuple ==
  /\ "tuple" \in Program.kinds
  /\ \E kids \in Fresh : New([kind |-> "tuple", value |-> "", kids |-> kids])
  /\ UNCHANGED <<safe, setting>>
NewApply ==
  /\ "apply" \in Program.kinds
  /\ \E kids \in Fresh, state \in {"", "12"} :
       New([kind |-> "apply", value |-> state, kids |-> kids])
  /\ UNCHANGED <<safe, setting>>
Extend(i) ==
  /\ heap[i].kind = "list" /\ Len(heap[i].kids) < Program.items
  /\ \E k \in Objects : heap' = [heap EXCEPT ![i].kids = Append(@, k)]
  /\ UNCHANGED <<safe, setting>>
\* A key that the dict has not got; attributes have names.
Keys(i) ==
  {k \in Hashable : /\ heap[i].kind = "object" => heap[k].kind = "str"
                    /\ \A j \in Range(heap[i].kids) : heap[j].value # heap[k].value}
Put(i) ==
  /\ heap[i].kind \in {"dict", "object"} /\ Len(heap[i].kids) < 2 * Program.items
  /\ \E k \in Keys(i), v \in Objects : heap' = [heap EXCEPT ![i].kids = @ \o <<k, v>>]
  /\ UNCHANGED <<safe, setting>>

Next == NewScalar \/ NewMutable \/ NewTuple \/ NewApply \/ \E i \in Mutable : Extend(i) \/ Put(i)
Spec == Init /\ [][Next]_<<heap, setting, safe>>
-----------------------------------------------------------------------------
\* What emitter and parser make of an event, where scalars are plain if they may
\* be, or quoted.
Read(e, plain) ==
  IF e.type = "Scalar"
  THEN LET bare == plain /\ e.implicit[1]
           guess == IF bare THEN e.implicit[1] ELSE e.implicit[2] IN
       [e EXCEPT !.tag = IF guess THEN "" ELSE @,
                 !.implicit = <<guess /\ bare, guess /\ ~bare>>]
  ELSE IF e.type \in {"Sequence", "Mapping"} /\ e.implicit[1] THEN [e EXCEPT !.tag = ""]
  ELSE e
Text(events, plain) == [i \in DOMAIN events |-> Read(events[i], plain)]

\* dump_all(), load_all() and load().
dump_all(roots, plain) == Text(SerializeAll([i \in DOMAIN roots |-> Represent(heap, roots[i])]), plain)
Constructions(graphs) == [i \in DOMAIN graphs |-> construct_document(graphs[i])]
load_all(events) == Constructions(compose_all(events))
load(events) == construct_document(get_single_node(events))
-----------------------------------------------------------------------------
\* The same objects, from a root on: of the same kinds, with the same parts, and
\* shared where they are shared.  safe_load() makes lists of tuples.
LoadedKind(o) == IF safe /\ o.kind = "tuple" THEN "list" ELSE o.kind
RECURSIVE Pairs(_, _)
Pairs(pairs, objects) ==
  LET more == UNION {{<<heap[p[1]].kids[k], objects[p[2]].kids[k]>> :
                        k \in DOMAIN heap[p[1]].kids \cap DOMAIN objects[p[2]].kids} : p \in pairs} IN
  IF more \subseteq pairs THEN pairs ELSE Pairs(pairs \cup more, objects)
SamePairs(pairs, objects) ==
  /\ \A p \in pairs :
       LET o == heap[p[1]]
           q == objects[p[2]] IN
       LoadedKind(o) = q.kind /\ o.value = q.value /\ Len(o.kids) = Len(q.kids)
  /\ \A p, q \in pairs : ~ignore_aliases(heap[p[1]]) => (p[1] = q[1] <=> p[2] = q[2])
Loaded(i, c) == c.failed = "" /\ SamePairs(Pairs({<<i, c.data>>}, c.objects), c.objects)

RECURSIVE Closure(_)
Closure(S) ==
  LET more == S \cup UNION {Range(heap[i].kids) : i \in S} IN
  IF more = S THEN S ELSE Closure(more)
Reach(i) == Closure({i})

\* A dict that has a tuple for a key loads as safe_load() says: lists are no keys.
KeysLoad(i) ==
  safe => \A d \in Reach(i) : heap[d].kind = "dict" =>
            \A k \in DOMAIN heap[d].kids : k % 2 = 1 => heap[heap[d].kids[k]].kind # "tuple"

\* Objects that dump() raises for: a dict with a date and something else for keys
\* is somewhere in them.
Raises(i) == Represent(heap, i).raised
Mixed(i) ==
  \E d \in Reach(i) : heap[d].kind = "dict" /\
    \E j, k \in {n \in DOMAIN heap[d].kids : n % 2 = 1} :
      heap[heap[d].kids[j]].kind = "date" /\ heap[heap[d].kids[k]].kind # "date"

\* What dump() wrote, load() reads: the same objects, shared and recursive as they
\* were, and neither tags nor anchors are mistaken.  dump() writes all but dicts
\* with keys that do not compare.
LoadsBack ==
  \A i \in Objects :
    /\ Raises(i) = Mixed(i)
    /\ KeysLoad(i) /\ ~Raises(i) =>
         \A plain \in BOOLEAN : Loaded(i, load(dump_all(<<i>>, plain)))

\* Two documents of a stream share nothing: the second is as if it were alone, for
\* objects, anchors and aliases.
AllLoaded(roots, cs) ==
  Len(cs) = Len(roots) /\ \A d \in DOMAIN roots : Loaded(roots[d], cs[d])
DocumentsAreAlone ==
  \A i, j \in {k \in Objects : KeysLoad(k) /\ ~Raises(k)} :
    AllLoaded(<<i, j>>, load_all(dump_all(<<i, j>>, TRUE)))
=============================================================================
