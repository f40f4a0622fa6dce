-------------------------------- MODULE Rows --------------------------------
(***************************************************************************)
(* The rows of storage.py's table (store, item, fpath, price, user), less  *)
(* the file path, and what its primary key makes of a REPLACE.             *)
(***************************************************************************)
CONSTANTS Stores, Items, Prices, Users

Row == [store: Stores, item: Items, price: Prices, user: Users]

Key(r) == <<r.store, r.item>>

Selected(rows, keys) == {r \in rows : Key(r) \in keys}

\* Mutant of Replaced: the row of the same key stays.
ReplacedBeside(rows, new) == rows \cup {new}

\* REPLACE INTO data: the row of the same primary key, if any, makes way.
Replaced(rows, new) == {r \in rows : Key(r) # Key(new)} \cup {new}

UniqueKeys(rows) == \A r, s \in rows : Key(r) = Key(s) => r = s
=============================================================================
