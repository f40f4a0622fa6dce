--------------------------- MODULE ServerHandler ---------------------------
(***************************************************************************)
(* class ServerHandler of server.py: a thread per datagram.  A thread that *)
(* works on a request is a member of `jobs'; a response is put into the    *)
(* queue of the handler it is for, if pending still has one.               *)
(***************************************************************************)
EXTENDS ServerState

Start(m) == [rqst |-> m, at |-> {}, info |-> {}, found |-> {},
             stores |-> IF m.type = "sDwnRqst" THEN m.stores ELSE {}]

Replace(j, k) == jobs' = (jobs \ {j}) \cup {k} /\ UNCHANGED <<net, ask>>

\* The thread writes its answer, if any, and ends.
Finish(j, answers) ==
  /\ jobs' = jobs \ {j}
  /\ net' = net \cup answers
  /\ UNCHANGED ask

DwnAnswer(j, best) ==
  [type |-> "sDwnResp", thr |-> j.rqst.thr, best |-> best, re |-> j.rqst]

\* Mutant of SynAnswer: it names the user who corrects the mistake.
SynAnswerOfFixer(j, culprit) ==
  [type |-> "sSynResp", thr |-> j.rqst.thr, user |-> j.rqst.user, re |-> j.rqst]

SynAnswer(j, culprit) ==
  [type |-> "sSynResp", thr |-> j.rqst.thr, user |-> culprit, re |-> j.rqst]
-----------------------------------------------------------------------------
\* UDPListener receives the request m and starts its thread.
Serve(m) ==
  /\ m \in net /\ m.type \in {"sDwnRqst", "sSynRqst"}
  /\ net' = net \ {m}
  /\ jobs' = jobs \cup {Start(m)}
  /\ UNCHANGED <<ask, handlerVars, mailVars, tableVars, boundVars>>

\* Mutant of PutResponse: a queue is made for a handler that has none.
PutResponseAlways(m) ==
  /\ m \in net /\ m.type \in {"sDwnResp", "sSynResp"}
  /\ net' = net \ {m}
  /\ pending' = pending \cup {m.thr}
  /\ queue' = [queue EXCEPT ![m.thr] = Append(@, m)]
  /\ UNCHANGED <<ask, jobs, handlerVars, tableVars, boundVars>>

\* pending[thr_no].put(self.rqst), or the KeyError that ends the thread.
PutResponse(m) ==
  /\ m \in net /\ m.type \in {"sDwnResp", "sSynResp"}
  /\ net' = net \ {m}
  /\ IF m.thr \in pending
     THEN queue' = [queue EXCEPT ![m.thr] = Append(@, m)]
     ELSE UNCHANGED queue
  /\ UNCHANGED <<pending, ask, jobs, handlerVars, tableVars, boundVars>>

Downloading(j) == j \in jobs /\ j.rqst.type = "sDwnRqst"

\* db.get(shop, item)
JobReadDb(j, store) ==
  LET s == j.rqst.dst
      row == Lookup(db[s], store, j.rqst.item) IN
  /\ Downloading(j) /\ j.at = {} /\ store \in j.stores /\ Works(s, "db")
  /\ \/ /\ j.rqst.item \notin BadItems
        /\ Replace(j, [j EXCEPT !.stores = @ \ {store}, !.at = {store},
                                !.info = @ \cup row])
        /\ UNCHANGED tableVars
     \/ j.rqst.item \in BadItems /\ Jam(s, "db") /\ Finish(j, {})
  /\ UNCHANGED <<handlerVars, mailVars, boundVars>>

\* cache.get(shop, item); a shop without the item makes the answer None,
\* whatever the other shops have.
JobReadCache(j, store) ==
  LET s == j.rqst.dst
      info == j.info \cup Lookup(cache[s], store, j.rqst.item) IN
  /\ Downloading(j) /\ store \in j.at /\ Works(s, "cache")
  /\ IF \E r \in info : r.store = store
     THEN Replace(j, [j EXCEPT !.at = {}, !.info = info])
     ELSE Finish(j, {DwnAnswer(j, {})})
  /\ UNCHANGED <<handlerVars, mailVars, tableVars, boundVars>>

JobAnswer(j) ==
  /\ Downloading(j) /\ j.at = {} /\ j.stores = {}
  /\ \E best \in Cheapest(j.info) : Finish(j, {DwnAnswer(j, {best})})
  /\ UNCHANGED <<handlerVars, mailVars, tableVars, boundVars>>

Synching(j) == j \in jobs /\ j.rqst.type = "sSynRqst"

\* entries = db.get(store, item), and the test of the price.
JobCheck(j) ==
  LET m == j.rqst
      wrong == {r \in Lookup(db[m.dst], m.store, m.item) : r.price = m.p1} IN
  /\ Synching(j) /\ j.found = {} /\ Works(m.dst, "db")
  /\ \/ /\ m.item \notin BadItems
        /\ IF wrong = {} THEN Finish(j, {})
                         ELSE Replace(j, [j EXCEPT !.found = wrong])
        /\ UNCHANGED tableVars
     \/ m.item \in BadItems /\ Jam(m.dst, "db") /\ Finish(j, {})
  /\ UNCHANGED <<handlerVars, mailVars, boundVars>>

\* db.update(store, item, e[db.FPATH], p2, new_user) and the answer.
JobFix(j) ==
  LET m == j.rqst
      fixed == [store |-> m.store, item |-> m.item,
                price |-> m.p2, user |-> m.user] IN
  /\ Synching(j) /\ Works(m.dst, "db")
  /\ \E wrong \in j.found :
       \/ /\ m.p2 # NaN
          /\ WriteDb(m.dst, fixed)
          /\ Finish(j, {SynAnswer(j, wrong.user)})
          /\ UNCHANGED <<cache, stuck>>
       \/ m.p2 = NaN /\ Jam(m.dst, "db") /\ Finish(j, {})
  /\ UNCHANGED <<handlerVars, mailVars, boundVars>>

Work(j) ==
  \/ \E store \in Stores : JobReadDb(j, store) \/ JobReadCache(j, store)
  \/ JobAnswer(j) \/ JobCheck(j) \/ JobFix(j)
=============================================================================
