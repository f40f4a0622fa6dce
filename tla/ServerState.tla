---------------------------- MODULE ServerState ----------------------------
(***************************************************************************)
(* The state of the main servers (server.py): each has a price database on *)
(* disk, a cache in memory, one ClientHandler thread per client and one    *)
(* ServerHandler thread per datagram another server sends.  The actions    *)
(* are in ClientHandler.tla and ServerHandler.tla; MainServer.tla composes *)
(* them.                                                                   *)
(*                                                                         *)
(* A call of storage.py is one step here (Storage.tla implements Table.tla,*)
(* the atomic table); everything the threads do between two such calls can *)
(* be interleaved.  Collections the code iterates in no particular order   *)
(* (dict keys, sets of shops) are sets.  `outgoing', UDPDispatcher, the    *)
(* UDP channel and UDPListener are `net': datagrams may be lost, delayed   *)
(* and reordered.                                                          *)
(***************************************************************************)
EXTENDS Rows, Integers, Sequences

CONSTANTS
  Servers,       \* the keys of mDBs.dat
  LocalStores,   \* LocalStores[s]: the shops of server s in Shops.dat
  NaN,           \* float('nan'), whose text SQLite takes for a column name
  BadItems,      \* names that break the text of a statement, e.g. by a quote
  FiveLetters,   \* the user names that are five characters long
  Spelt,         \* Spelt[u]: the row that the characters of u are, one a column, if
                 \* the fourth is a digit
  Registered,    \* the users whose password is the one in Users.dat
  Thr,           \* the values of thr_no that client handlers get
  Home,          \* Home[c]: the server of client handler c
  Menu,          \* Menu[c]: the PDUs the client of c may send
  Disks,         \* what the servers may have on disk at first
  None,          \* Python's None
  MaxRequests,   \* bound: requests after authentication, by all clients
  MaxCrashes     \* bound: server crashes

\* allshops; commands.py turns an empty list of shops into a request for all.
AllStores == UNION {LocalStores[s] : s \in Servers}

\* The client's PDUs.  A user who gives a wrong password is outside Registered;
\* every price commands.py accepts is a float, so p_updValueOK holds of it.
Request ==
  [type: {"cAuth"}, user: Users]
    \cup [type: {"cUpdate"}, store: Stores, item: Items, price: Prices \cup {NaN}]
    \cup [type: {"cDownload"}, items: Seq(Items) \ {<<>>}, stores: SUBSET Stores]
    \cup [type: {"cSynch"}, store: Stores, item: Items,
          p1: Prices \cup {NaN}, p2: Prices \cup {NaN}]

ASSUME MainServerAssumption ==
  /\ Prices \subseteq Int /\ NaN \notin Prices
  /\ BadItems \subseteq Items
  /\ FiveLetters \subseteq Users /\ Registered \subseteq Users
  /\ DOMAIN Spelt \subseteq FiveLetters /\ \A u \in DOMAIN Spelt : Spelt[u] \in Row
  /\ None \notin Users
  /\ LocalStores \in [Servers -> SUBSET Stores]
  /\ Home \in [Thr -> Servers]
  /\ \A c \in Thr : \A r \in Menu[c] : r \in Request
  /\ \A d \in Disks : /\ d \in [Servers -> SUBSET Row]
                      /\ \A s \in Servers : UniqueKeys(d[s])
  /\ MaxRequests \in Nat /\ MaxCrashes \in Nat

\* What a server may find in its database: rows of its own shops, entered by
\* registered users, under names that its statements can spell.
ASSUME DiskAssumption ==
  \A d \in Disks : \A s \in Servers : \A r \in d[s] :
    /\ r.store \in LocalStores[s]
    /\ r.user \in Registered
    /\ r.item \notin BadItems

VARIABLES
  pc,        \* pc[c]: the state of handler c and where it is in process()
  user,      \* user[c]: self.user
  rqst,      \* rqst[c]: the PDU in process
  loc,       \* loc[c]: the local variables of process() and p_dwnHasInfo()
  out,       \* out[c]: the last PDU sent to the client
  pending,   \* the keys of the pending dict of c's server
  queue,     \* queue[c]: the Queue at that key
  db,        \* db[s]: the database of server s
  cache,     \* cache[s]: its cache
  stuck,     \* the tables whose lock a thread died with: <<s, "db">>, <<s, "cache">>
  net,       \* datagrams on their way
  jobs,      \* ServerHandler threads at work on a request
  ask,       \* identity for the next request datagram; the code gives them none
  published, \* history: the rows that were ever in a database
  quiet,     \* history: no write at c's server since c's scan began
  served,    \* requests so far
  crashes    \* crashes so far

handlerVars == <<pc, user, rqst, loc, out>>
mailVars == <<pending, queue>>
tableVars == <<db, cache, stuck, published, quiet>>
udpVars == <<net, jobs, ask>>
boundVars == <<served, crashes>>
vars == <<handlerVars, mailVars, tableVars, udpVars, boundVars>>

DwnRqst == [type: {"sDwnRqst"}, dst: Servers, thr: Thr, ask: Nat,
            item: Items, stores: SUBSET Stores]
SynRqst == [type: {"sSynRqst"}, dst: Servers, thr: Thr, ask: Nat,
            store: Stores, item: Items,
            p1: Prices \cup {NaN}, p2: Prices \cup {NaN}, user: Users]

\* The answers.  `re', the request answered, is not part of the datagram:
\* properties read it, actions do not.  An empty `best' is None.
DwnResp == [type: {"sDwnResp"}, thr: Thr, best: SUBSET Row, re: DwnRqst]
SynResp == [type: {"sSynResp"}, thr: Thr, user: Users, re: SynRqst]

Job == [rqst: DwnRqst \cup SynRqst, stores: SUBSET Stores, at: SUBSET Stores,
        info: SUBSET Row, found: SUBSET Row]

Reply ==
  [type: {"none", "sAuthOK", "sAuthErr", "sUpdOK", "sUpdErr"}]
    \cup [type: {"sDwnInfo"}, rows: SUBSET Row]
    \cup [type: {"sSynOK"}, user: Users \cup SUBSET Row]

\* items: those left of the loop in progress; stores: the shops left to read for
\* the first of them; at: the shop whose cache entry comes next; info, bests;
\* servers: those of the horizon still to ask about the first item.
Locals == [items: Seq(Items), stores: SUBSET Stores, at: SUBSET Stores,
           info: SUBSET Row, bests: SUBSET Row, servers: SUBSET Servers]

NoLocals == [items |-> <<>>, stores |-> {}, at |-> {},
             info |-> {}, bests |-> {}, servers |-> {}]
NoRequest == [type |-> "none"]
NoReply == [type |-> "none"]
-----------------------------------------------------------------------------
Init ==
  /\ pc = [c \in Thr |-> "fresh"]
  /\ user = [c \in Thr |-> None]
  /\ rqst = [c \in Thr |-> NoRequest]
  /\ loc = [c \in Thr |-> NoLocals]
  /\ out = [c \in Thr |-> NoReply]
  /\ pending = {}
  /\ queue = [c \in Thr |-> <<>>]
  /\ db \in Disks
  /\ cache = [s \in Servers |-> {}]
  /\ stuck = {}
  /\ net = {} /\ jobs = {} /\ ask = 0
  /\ published = UNION {db[s] : s \in Servers}
  /\ quiet = [c \in Thr |-> FALSE]
  /\ served = 0 /\ crashes = 0

\* The lock of table t of server s can be acquired.
Works(s, t) == <<s, t>> \notin stuck

\* db.get and cache.get
Lookup(rows, store, item) == Selected(rows, {<<store, item>>})

Cheapest(rows) == {r \in rows : \A q \in rows : r.price <= q.price}

\* Every scan in progress at s, and every answer already given, is out of date.
Disturb(s) == quiet' = [c \in Thr |-> quiet[c] /\ Home[c] # s]

WriteDb(s, row) ==
  /\ db' = [db EXCEPT ![s] = Replaced(@, row)]
  /\ published' = published \cup {row}
  /\ Disturb(s)

WriteCache(s, row) ==
  /\ cache' = [cache EXCEPT ![s] = Replaced(@, row)]
  /\ Disturb(s)

\* A statement is rejected: storage.py leaves the lock taken.
Jam(s, t) == stuck' = stuck \cup {<<s, t>>} /\ UNCHANGED <<db, cache, published, quiet>>
=============================================================================
