----------------------------- MODULE MCDumpLoad -----------------------------
(* Heaps of a few objects: collections that hold one another and themselves, *)
(* texts that look like something else, the objects of classes, and what     *)
(* functions make.                                                           *)
EXTENDS DumpLoad

T(kind, value) == [kind |-> kind, value |-> value]
Plain == {T("str", "a")}
Clashing == {T("none", "null"), T("str", ""), T("str", "12"), T("str", "<<"), T("int", "12"),
             T("date", "2010-05-01")}
AllSettings == [
  collections |-> [safe |-> TRUE, texts |-> Plain, kinds |-> {"list", "dict", "tuple"},
                   objects |-> 3, items |-> 2],
  texts |-> [safe |-> TRUE, texts |-> Clashing, kinds |-> {"list", "dict", "tuple"},
             objects |-> 3, items |-> 1],
  keys |-> [safe |-> TRUE, kinds |-> {"dict"}, objects |-> 3, items |-> 2,
            texts |-> {T("str", "a"), T("none", "null"), T("date", "2010-05-01")}],
  instances |-> [safe |-> FALSE, texts |-> Plain, kinds |-> {"list", "object", "tuple"},
                 objects |-> 3, items |-> 2],
  called |-> [safe |-> FALSE, texts |-> {}, kinds |-> {"tuple", "apply"},
             objects |-> 3, items |-> 2],
  made |-> [safe |-> FALSE, texts |-> {}, kinds |-> {"apply"}, objects |-> 4, items |-> 2]]
=============================================================================
