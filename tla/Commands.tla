------------------------------ MODULE Commands ------------------------------
(***************************************************************************)
(* commands.py and read_stdin of client.py: what the client makes of a     *)
(* line.  Words are abstracted to what the parsers tell apart.             *)
(***************************************************************************)
EXTENDS Naturals, SequencesExt, FiniteSetsExt

\* The text between two semicolons of an update, and the words of the others:
\* ""      nothing             " "      only spaces
\* "A"     an item, no price   "A/x"    a price that is no number
\* "A/1"   item and price      "A-f/1"  item, file and price
Entries == {"", " ", "A", "A/x", "A/1", "A-f/1"}
Priced == {"A/1", "A-f/1"}

\* A typed line: the command word and what follows it.  entries: what follows
\* the colon of an update, split at the semicolons; shops, items: the two
\* sides of the colon of a download; fields: how far a synch is filled in.
Line ==
  [cmd: {"update"}, entries: Seq(Entries)]
    \cup [cmd: {"download"}, shops: Seq({"L1", "L2"}), items: Seq({"A1", "A2"})]
    \cup [cmd: {"synch"}, fields: {"all", "some", "mispriced"}]
    \cup [cmd: {"quit", "other"}]

Nothing == [type |-> "none"]     \* None: a message, and no event
Exception == [type |-> "raise"]  \* an exception no caller catches

\* `if not q: break'
BeforeBlank(entries) ==
  LET blanks == {i \in DOMAIN entries : entries[i] = ""} IN
  IF blanks = {} THEN entries ELSE SubSeq(entries, 1, Min(blanks) - 1)

update(line) ==
  LET queries == BeforeBlank(line.entries) IN
  IF \/ line.entries \in {<<>>, <<"">>}            \* `if not queries'
     \/ ~(ToSet(queries) \subseteq Priced)
  THEN Nothing
  ELSE [type |-> "iUpdate", queries |-> queries]

\* Without items the shops are taken for items.
download(line) ==
  LET swap == line.items = <<>>
      items == IF swap THEN line.shops ELSE line.items
      shops == IF swap THEN <<>> ELSE line.shops IN
  IF items = <<>> THEN Nothing
  ELSE [type |-> "iDownload", shops |-> shops, items |-> items]

\* float(p1), float(p2) are not guarded, unlike the price of an update.
synch(line) ==
  CASE line.fields = "all" -> [type |-> "iSynch"]
    [] line.fields = "some" -> Nothing
    [] line.fields = "mispriced" -> Exception

read_stdin(line) ==
  CASE line.cmd = "update" -> update(line)
    [] line.cmd = "download" -> download(line)
    [] line.cmd = "synch" -> synch(line)
    [] line.cmd = "quit" -> [type |-> "iQuit"]
    [] line.cmd = "other" -> Nothing
=============================================================================
