------------------------------ MODULE TableOps ------------------------------
(***************************************************************************)
(* The calls on storage.py's table and the effect of the SQL statements    *)
(* they build, shared by the abstract table and the locked one.            *)
(***************************************************************************)
EXTENDS Rows

CONSTANTS
  Threads,      \* the threads that share the table
  Ops,          \* the calls these threads may make
  Malformed,    \* those whose SQL text SQLite rejects
  Persistent    \* TRUE for DB, a file; FALSE for Cache, which is in memory

\* insert(replace=False) and insert(replace=True), the latter being update().
Insertion == [kind: {"INSERT", "REPLACE"}, row: Row]

\* get, _get and remove: the keys are the pairs their WHERE clause selects.
Query == [kind: {"SELECT", "DELETE"}, keys: SUBSET (Stores \X Items)]

IsWrite(o) == o.kind \in {"INSERT", "REPLACE", "DELETE"}

Effect(rows, o) ==
  CASE o.kind \in {"INSERT", "REPLACE"} -> Replaced(rows, o.row)
    [] o.kind = "DELETE" -> rows \ Selected(rows, o.keys)
    [] o.kind = "SELECT" -> rows

\* cur.execute raises: bad SQL text, or a plain INSERT of a key that is there.
Rejects(rows, o) ==
  \/ o \in Malformed
  \/ /\ o.kind = "INSERT"
     /\ Selected(rows, {Key(o.row)}) # {}

ASSUME TableAssumption ==
  /\ Ops \subseteq Insertion \cup Query
  /\ Malformed \subseteq Ops
  /\ Persistent \in BOOLEAN
=============================================================================
