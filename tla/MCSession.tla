----------------------------- MODULE MCSession -----------------------------
(* One client, and what its user may type.                                  *)
EXTENDS Session

Update(entries) == [cmd |-> "update", entries |-> entries]
Synch(fields) == [cmd |-> "synch", fields |-> fields]
Download == [cmd |-> "download", shops |-> <<"L1">>, items |-> <<"A1">>]
Command(word) == [cmd |-> word]

\* Every kind of line, with batches of two queries, of one and of none.
AllLines ==
  {Update(<<"A/1", "A-f/1">>), Update(<<"A/1", "", "A/1">>), Update(<<"", "">>),
   Update(<<"A/1", " ">>), Download, Synch("all"), Synch("some"), Synch("mispriced"),
   Command("quit"), Command("other")}
=============================================================================
