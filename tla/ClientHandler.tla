--------------------------- MODULE ClientHandler ---------------------------
(***************************************************************************)
(* class ClientHandler of server.py: the thread that serves one client.    *)
(*                                                                         *)
(* pc[c] is "fresh" (no client yet), one of the states the code names      *)
(* (main_anonymous, main_ready) while it listens, a place inside process() *)
(* while it works (upd_store, dwn_scan, dwn_ask, dwn_wait, dwn_rescan,     *)
(* syn_wait), or "closed" (left the loop) or "dead" (an exception).        *)
(***************************************************************************)
EXTENDS ServerState

\* pending[self.thr_no] = Queue.Queue()
NewQueue(c) ==
  /\ pending' = pending \cup {c}
  /\ queue' = [queue EXCEPT ![c] = <<>>]

\* if self.thr_no in pending: pending.pop(self.thr_no)
Cleanup(c) ==
  /\ pending' = pending \ {c}
  /\ queue' = [queue EXCEPT ![c] = <<>>]

Take(c) == queue' = [queue EXCEPT ![c] = Tail(@)]

Go(c, place, locals) ==
  /\ pc' = [pc EXCEPT ![c] = place]
  /\ loc' = [loc EXCEPT ![c] = locals]

\* An exception that run() does not catch: no reply, no cleanup.
Die(c) == Go(c, "dead", NoLocals) /\ UNCHANGED <<user, rqst, out>>

\* process() returns an event, and run() sends it.
Answer(c, reply) ==
  /\ Go(c, "main_ready", NoLocals)
  /\ out' = [out EXCEPT ![c] = reply]
  /\ UNCHANGED <<user, rqst>>

\* listen() hands the PDU r to process().
Receive(c, r, type) ==
  /\ pc[c] = "main_ready" /\ r \in Menu[c] /\ r.type = type
  /\ served < MaxRequests
  /\ served' = served + 1
  /\ UNCHANGED crashes

Process(c, r, place, locals) ==
  /\ Go(c, place, locals)
  /\ rqst' = [rqst EXCEPT ![c] = r]
  /\ out' = [out EXCEPT ![c] = NoReply]
  /\ UNCHANGED user
-----------------------------------------------------------------------------
\* The connection, authentication and the end of the thread.

Accept(c) ==
  /\ pc[c] = "fresh"
  /\ pc' = [pc EXCEPT ![c] = "main_anonymous"]
  /\ UNCHANGED <<user, rqst, loc, out, mailVars, tableVars, udpVars, boundVars>>

\* Mutant of p_sAuthOK: any user will do.
p_sAuthOKAny(r) == r.user \in Users

p_sAuthOK(r) == r.user \in Registered

Authenticate(c, r) ==
  /\ pc[c] = "main_anonymous" /\ r \in Menu[c] /\ r.type = "cAuth"
  /\ user' = [user EXCEPT ![c] = r.user]
  /\ IF p_sAuthOK(r)
     THEN /\ pc' = [pc EXCEPT ![c] = "main_ready"]
          /\ out' = [out EXCEPT ![c] = [type |-> "sAuthOK"]]
          /\ UNCHANGED mailVars
     ELSE /\ pc' = [pc EXCEPT ![c] = "closed"]
          /\ out' = [out EXCEPT ![c] = [type |-> "sAuthErr"]]
          /\ Cleanup(c)
  /\ UNCHANGED <<rqst, loc, tableVars, udpVars, boundVars>>

\* recv returns nothing: ConnectionError, the way out that cleans up.
HangUp(c) ==
  /\ pc[c] \in {"main_anonymous", "main_ready"}
  /\ pc' = [pc EXCEPT ![c] = "closed"]
  /\ Cleanup(c)
  /\ UNCHANGED <<user, rqst, loc, out, tableVars, udpVars, boundVars>>

\* recv raises socket.error, which run() does not catch.
Reset(c) ==
  /\ pc[c] \in {"main_anonymous", "main_ready"}
  /\ Die(c)
  /\ UNCHANGED <<mailVars, tableVars, udpVars, boundVars>>
-----------------------------------------------------------------------------
\* cUpdate

p_updShopOK(c, r) == r.store \in LocalStores[Home[c]]

RecvUpdate(c, r) ==
  /\ Receive(c, r, "cUpdate")
  /\ p_updShopOK(c, r)
  /\ Process(c, r, "upd_store", NoLocals)
  /\ UNCHANGED <<mailVars, tableVars, udpVars>>

RefuseUpdate(c, r) ==
  /\ Receive(c, r, "cUpdate")
  /\ ~p_updShopOK(c, r)
  /\ rqst' = [rqst EXCEPT ![c] = r]
  /\ out' = [out EXCEPT ![c] = [type |-> "sUpdErr"]]
  /\ UNCHANGED <<pc, user, loc, mailVars, tableVars, udpVars>>

StoreUpdate(c) ==
  LET r == rqst[c]
      bad == r.item \in BadItems \/ r.price = NaN
      row == [store |-> r.store, item |-> r.item,
              price |-> r.price, user |-> user[c]] IN
  /\ pc[c] = "upd_store" /\ Works(Home[c], "db")
  /\ \/ /\ ~bad
        /\ WriteDb(Home[c], row)
        /\ Answer(c, [type |-> "sUpdOK"])
        /\ UNCHANGED <<cache, stuck>>
     \/ bad /\ Jam(Home[c], "db") /\ Die(c)
  /\ UNCHANGED <<mailVars, udpVars, boundVars>>
-----------------------------------------------------------------------------
\* cDownload, p_dwnHasInfo: the scan of the server's own tables.  It is strict
\* in "dwn_scan"; in "dwn_rescan" (ignoreerrors) a shop without the item is
\* passed over.

Wanted(r) == IF r.stores = {} THEN AllStores ELSE r.stores

Scan(r) == [NoLocals EXCEPT !.items = r.items, !.stores = Wanted(r)]

Scanning(c) == pc[c] \in {"dwn_scan", "dwn_rescan"}

RecvDownload(c, r) ==
  /\ Receive(c, r, "cDownload")
  /\ Process(c, r, "dwn_scan", Scan(r))
  /\ quiet' = [quiet EXCEPT ![c] = TRUE]
  /\ UNCHANGED <<mailVars, db, cache, stuck, published, udpVars>>

\* db.get(shop, item)
ReadDb(c, store) ==
  LET l == loc[c]
      item == Head(l.items)
      next == [l EXCEPT !.stores = @ \ {store}, !.at = {store},
                        !.info = @ \cup Lookup(db[Home[c]], store, item)] IN
  /\ Scanning(c) /\ l.at = {} /\ store \in l.stores /\ Works(Home[c], "db")
  /\ \/ /\ item \notin BadItems
        /\ loc' = [loc EXCEPT ![c] = next]
        /\ UNCHANGED <<pc, user, rqst, out, tableVars>>
     \/ item \in BadItems /\ Jam(Home[c], "db") /\ Die(c)
  /\ UNCHANGED <<mailVars, udpVars, boundVars>>

\* The servers that own a wanted shop.  shopsvisited is always empty (see
\* GetAnswer), so p_dwnSkipServer skips none of them.
Horizon(c) ==
  {s \in Servers \ {Home[c]} : LocalStores[s] \cap Wanted(rqst[c]) # {}}

Gather(items, c) == [NoLocals EXCEPT !.items = items, !.servers = Horizon(c)]

\* cache.get(shop, item), then the test of `found': the strict scan gives up
\* and the handler turns to the other servers.
ReadCache(c, store) ==
  LET l == loc[c]
      info == l.info \cup Lookup(cache[Home[c]], store, Head(l.items))
      found == \E r \in info : r.store = store IN
  /\ Scanning(c) /\ store \in l.at /\ Works(Home[c], "cache")
  /\ IF found \/ pc[c] = "dwn_rescan"
     THEN /\ loc' = [loc EXCEPT ![c] = [l EXCEPT !.at = {}, !.info = info]]
          /\ UNCHANGED <<pc, mailVars>>
     ELSE /\ Go(c, "dwn_ask", Gather(rqst[c].items, c))
          /\ NewQueue(c)
  /\ UNCHANGED <<user, rqst, out, tableVars, udpVars, boundVars>>

\* Mutant of NextScan: info is not emptied between two items.
NextScanKeepingInfo(c, best) ==
  [loc[c] EXCEPT !.items = Tail(@), !.stores = Wanted(rqst[c]),
                 !.bests = @ \cup {best}]

NextScan(c, best) ==
  [loc[c] EXCEPT !.items = Tail(@), !.stores = Wanted(rqst[c]),
                 !.info = {}, !.bests = @ \cup {best}]

\* All shops read: the cheapest row of the item joins `bests', the next item
\* follows, and after the last one the reply.
PickBest(c) ==
  LET l == loc[c] IN
  /\ Scanning(c) /\ l.at = {} /\ l.stores = {}
  /\ \E best \in Cheapest(l.info) :
       IF Tail(l.items) = <<>>
       THEN Answer(c, [type |-> "sDwnInfo", rows |-> l.bests \cup {best}])
       ELSE /\ loc' = [loc EXCEPT ![c] = NextScan(c, best)]
            /\ UNCHANGED <<pc, user, rqst, out>>
  /\ UNCHANGED <<mailVars, tableVars, udpVars, boundVars>>

\* The rescan found no row of the item: the reply has none at all.
PickNone(c) ==
  /\ Scanning(c) /\ loc[c].at = {} /\ loc[c].stores = {} /\ loc[c].info = {}
  /\ Answer(c, [type |-> "sDwnInfo", rows |-> {}])
  /\ UNCHANGED <<mailVars, tableVars, udpVars, boundVars>>
-----------------------------------------------------------------------------
\* cDownload, the loop over the items and the servers of the horizon.

Ask(c, s) ==
  LET l == loc[c] IN
  /\ pc[c] = "dwn_ask" /\ s \in l.servers
  /\ net' = net \cup {[type |-> "sDwnRqst", dst |-> s, thr |-> c, ask |-> ask,
                       item |-> Head(l.items), stores |-> Wanted(rqst[c])]}
  /\ ask' = ask + 1
  /\ Go(c, "dwn_wait", [l EXCEPT !.servers = @ \ {s}])
  /\ UNCHANGED <<user, rqst, out, jobs, mailVars, tableVars, boundVars>>

\* The horizon is exhausted: the next item, or the second scan.
NextItem(c) ==
  LET rest == Tail(loc[c].items) IN
  /\ pc[c] = "dwn_ask" /\ loc[c].servers = {}
  /\ IF rest = <<>> THEN Go(c, "dwn_rescan", Scan(rqst[c]))
                    ELSE Go(c, "dwn_ask", Gather(rest, c))
  /\ UNCHANGED <<user, rqst, out, mailVars, tableVars, udpVars, boundVars>>

\* Mutant of DwnTimeout: process() returns None.
DwnTimeoutReturning(c) ==
  /\ pc[c] = "dwn_wait" /\ queue[c] = <<>>
  /\ Go(c, "main_ready", NoLocals)
  /\ UNCHANGED <<user, rqst, out, mailVars, tableVars, udpVars, boundVars>>

\* Queue.Empty after T_DOWNLOAD.
DwnTimeout(c) ==
  /\ pc[c] = "dwn_wait" /\ queue[c] = <<>>
  /\ Go(c, "dwn_ask", loc[c])
  /\ UNCHANGED <<user, rqst, out, mailVars, tableVars, udpVars, boundVars>>

\* An answer of None.
GetNothing(c) ==
  /\ pc[c] = "dwn_wait" /\ queue[c] # <<>>
  /\ Head(queue[c]).type = "sDwnResp" /\ Head(queue[c]).best = {}
  /\ Take(c)
  /\ Go(c, "dwn_ask", loc[c])
  /\ UNCHANGED <<user, rqst, out, pending, tableVars, udpVars, boundVars>>

\* Mutant of GetAnswer: the row is cached in the name of the handler's user.
GetAnswerInOwnName(c, row) ==
  /\ pc[c] = "dwn_wait" /\ queue[c] # <<>>
  /\ Head(queue[c]).type = "sDwnResp" /\ row \in Head(queue[c]).best
  /\ Works(Home[c], "cache")
  /\ Take(c)
  /\ WriteCache(Home[c], [row EXCEPT !.user = user[c]])
  /\ Die(c)
  /\ UNCHANGED <<pending, db, stuck, published, udpVars, boundVars>>

\* A row: it is cached, and then shopsvisited.insert(0, shop) reads a local
\* variable that only the cSynch branch assigns: UnboundLocalError.
GetAnswer(c, row) ==
  /\ pc[c] = "dwn_wait" /\ queue[c] # <<>>
  /\ Head(queue[c]).type = "sDwnResp" /\ row \in Head(queue[c]).best
  /\ Works(Home[c], "cache")
  /\ Take(c)
  /\ WriteCache(Home[c], row)
  /\ Die(c)
  /\ UNCHANGED <<pending, db, stuck, published, udpVars, boundVars>>

\* The late answer to a cSynch carries a name: cache.update(*name) wants five
\* arguments.  A name of five characters is a row, if the fourth is a digit, and
\* a price that SQLite takes for a column otherwise.
GetName(c) ==
  LET name == Head(queue[c]).user IN
  /\ pc[c] = "dwn_wait" /\ queue[c] # <<>>
  /\ Head(queue[c]).type = "sSynResp"
  /\ \/ name \notin FiveLetters /\ UNCHANGED tableVars
     \/ /\ name \in DOMAIN Spelt /\ Works(Home[c], "cache")
        /\ WriteCache(Home[c], Spelt[name])
        /\ UNCHANGED <<db, stuck, published>>
     \/ /\ name \in FiveLetters \ DOMAIN Spelt /\ Works(Home[c], "cache")
        /\ Jam(Home[c], "cache")
  /\ Take(c)
  /\ Die(c)
  /\ UNCHANGED <<pending, udpVars, boundVars>>
-----------------------------------------------------------------------------
\* cSynch

RecvSynch(c, r) ==
  /\ Receive(c, r, "cSynch")
  /\ Process(c, r, "syn_wait", NoLocals)
  /\ NewQueue(c)
  /\ net' = net \cup {[type |-> "sSynRqst", dst |-> s, thr |-> c, ask |-> ask,
                       store |-> r.store, item |-> r.item, p1 |-> r.p1,
                       p2 |-> r.p2, user |-> user[c]]
                      : s \in Servers \ {Home[c]}}
  /\ ask' = ask + 1
  /\ UNCHANGED <<jobs, tableVars>>

\* Any response: its second field goes to the client.
GetSynch(c) ==
  LET resp == Head(queue[c]) IN
  /\ pc[c] = "syn_wait" /\ queue[c] # <<>>
  /\ Take(c)
  /\ Answer(c, [type |-> "sSynOK",
                user |-> IF resp.type = "sSynResp" THEN resp.user ELSE resp.best])
  /\ UNCHANGED <<pending, tableVars, udpVars, boundVars>>

\* Mutant of SynTimeout: get() without a timeout.
SynTimeoutNever(c) == FALSE

\* Queue.Empty after T_SYNCH: process() returns None and nothing is sent.
SynTimeout(c) ==
  /\ pc[c] = "syn_wait" /\ queue[c] = <<>>
  /\ Go(c, "main_ready", NoLocals)
  /\ UNCHANGED <<user, rqst, out, mailVars, tableVars, udpVars, boundVars>>
-----------------------------------------------------------------------------
\* What arrives from the client, or its loss.
FromClient(c) ==
  \/ Accept(c) \/ HangUp(c) \/ Reset(c)
  \/ \E r \in Menu[c] :
       \/ Authenticate(c, r) \/ RecvUpdate(c, r) \/ RefuseUpdate(c, r)
       \/ RecvDownload(c, r) \/ RecvSynch(c, r)

\* What the thread does by itself: the rest of process().
Proceed(c) ==
  \/ StoreUpdate(c)
  \/ \E store \in Stores : ReadDb(c, store) \/ ReadCache(c, store)
  \/ PickBest(c) \/ PickNone(c)
  \/ (\E s \in Servers : Ask(c, s)) \/ NextItem(c)
  \/ DwnTimeout(c) \/ GetNothing(c) \/ (\E row \in Row : GetAnswer(c, row))
  \/ GetName(c) \/ GetSynch(c) \/ SynTimeout(c)
=============================================================================
