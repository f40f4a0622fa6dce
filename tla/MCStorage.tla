----------------------------- MODULE MCStorage -----------------------------
(* Storage on two keys: the calls cover every method of class DB.           *)
EXTENDS Storage
CONSTANTS s1, a, b, low, high, u

RowOf(i, p) == [store |-> s1, item |-> i, price |-> p, user |-> u]
Replace(i, p) == [kind |-> "REPLACE", row |-> RowOf(i, p)]

MCOps ==
  {Replace(a, low), Replace(a, high), Replace(b, low),
   [kind |-> "INSERT", row |-> RowOf(a, high)],
   [kind |-> "DELETE", keys |-> {<<s1, a>>}],
   [kind |-> "SELECT", keys |-> {<<s1, a>>}],
   [kind |-> "SELECT", keys |-> {<<s1, a>>, <<s1, b>>}]}

\* The text of this call breaks the SQL statement, e.g. by a quote in a name.
MCMalformed == {Replace(b, low)}
=============================================================================
