------------------------------ MODULE Resolver ------------------------------
(***************************************************************************)
(* resolver.py: the tag of a node that shows none.  A text is a member of  *)
(* a small set, which the regular expressions of the implicit resolvers    *)
(* tell apart: a number, a date, null, and the rest.  The program adds no  *)
(* path resolvers, without which descend_resolver() and ascend_resolver()  *)
(* do nothing.                                                             *)
(***************************************************************************)

Detected(text) ==
  CASE text \in {"12", "13"} -> "int"
    [] text = "2010-05-01" -> "timestamp"
    [] text \in {"", "null"} -> "null"
    [] text = "<<" -> "merge"
    [] OTHER -> "str"

\* plain: implicit[0]; a scalar that is not may not be taken for a number.
resolve(kind, text, plain) ==
  CASE kind = "Sequence" -> "seq"
    [] kind = "Mapping" -> "map"
    [] kind = "Scalar" -> IF plain THEN Detected(text) ELSE "str"
=============================================================================
