---------------------------- MODULE MCMainServer ----------------------------
(* Small networks of main servers.  The cfgs choose the handlers, what their *)
(* clients may send, and what is on disk.                                    *)
EXTENDS HandlerService, TLC
CONSTANTS S1, S2, x, y, a, b, quoted, foo, guest, intruder, xa021, one, c1, c2, c3

\* As in Shops.dat: both servers serve a shop of the same name.
MCLocalStores == S1 :> {x} @@ S2 :> {x, y}
MCHome == [c \in Thr |-> IF c = c3 THEN S2 ELSE S1]

Entry(store, item, price, who) ==
  [store |-> store, item |-> item, price |-> price, user |-> who]
\* A user name that is a row: x, a, 0, 2, 1.
MCSpelt == xa021 :> Entry(x, a, 2, one)
NoSpelt == <<>>

Auth(who) == [type |-> "cAuth", user |-> who]
Update(store, item, price) ==
  [type |-> "cUpdate", store |-> store, item |-> item, price |-> price]
Download(items, stores) == [type |-> "cDownload", items |-> items, stores |-> stores]
Synch(item, p1, p2) ==
  [type |-> "cSynch", store |-> x, item |-> item, p1 |-> p1, p2 |-> p2]

Disk(first, second) == S1 :> first @@ S2 :> second

\* Two clients of S1: one downloads, the other downloads or changes a price.
\* S1 may or may not know all that the first one asks for.
DownloadMenu ==
  c1 :> {Auth(foo), Download(<<a, b>>, {x})}
    @@ c2 :> {Auth(guest), Auth(intruder), Download(<<a>>, {}),
              Update(x, b, 1), Update(y, a, 1)}
DownloadDisks ==
  {Disk(first, {Entry(x, a, 2, foo), Entry(y, a, 1, foo)}) :
     first \in {{Entry(x, b, 3, foo)}, {Entry(x, a, 2, foo), Entry(x, b, 3, foo)}}}

\* Two clients of S1 correct the same price while a client of S2 changes it.
SynchMenu ==
  c1 :> {Auth(foo), Synch(a, 1, 2)}
    @@ c2 :> {Auth(guest), Auth(intruder), Synch(a, 1, 3)}
    @@ c3 :> {Auth(foo), Update(x, a, 3)}
SynchDisks == {Disk({}, {Entry(x, a, 1, guest), Entry(y, a, 1, guest)})}

\* A client that synchs and downloads, and one of the other server, on servers that
\* may crash.  Some of what they send cannot be stored.
CrashMenu ==
  c1 :> {Auth(foo), Synch(a, 1, 2), Synch(a, 1, NaN), Download(<<a>>, {})}
    @@ c3 :> {Auth(guest), Update(x, a, 1), Update(x, quoted, 1)}
CrashDisks == {Disk({}, {Entry(x, a, 1, who), Entry(y, a, 1, guest)}) : who \in {guest, xa021}}

\* A client whose first synch may be answered after it has sent the second.
LateMenu == c1 :> {Auth(foo), Synch(a, 1, 2), Synch(a, 2, 3)}
=============================================================================
