-------------------------- MODULE MainServerProofs --------------------------
(***************************************************************************)
(* Theorems about MainServer, for any number of servers, shops, handlers,  *)
(* requests and crashes.                                                   *)
(***************************************************************************)
EXTENDS HandlerService, SequenceTheorems, TLAPS

\* The rows looked up are of the shop and item asked for.
LEMMA LookupRows ==
  ASSUME NEW rows \in SUBSET Row, NEW store, NEW item
  PROVE  /\ Lookup(rows, store, item) \in SUBSET Row
         /\ Lookup(rows, store, item) \subseteq rows
         /\ \A r \in Lookup(rows, store, item) : Key(r) = <<store, item>>
BY DEF Lookup, Selected

LEMMA CheapestRows ==
  ASSUME NEW rows PROVE Cheapest(rows) \subseteq rows
BY DEF Cheapest

LEMMA ReplacedRows ==
  ASSUME NEW rows \in SUBSET Row, NEW new \in Row
  PROVE  Replaced(rows, new) \in SUBSET Row
BY DEF Replaced

\* A request names shops of its own, or means all.
LEMMA WantedStores ==
  ASSUME NEW r \in Request, r.type = "cDownload"
  PROVE  Wanted(r) \in SUBSET Stores /\ r.items \in Seq(Items) /\ r.items # <<>>
<1>1. r.stores \in SUBSET Stores /\ r.items \in Seq(Items) /\ r.items # <<>>
  BY DEF Request
<1>2. AllStores \in SUBSET Stores
  BY MainServerAssumption DEF AllStores
<1> QED BY <1>1, <1>2 DEF Wanted

\* The response that comes next is a response.
LEMMA HeadOfQueue ==
  ASSUME MailOK, NEW c \in Thr, queue[c] # <<>>
  PROVE  /\ Head(queue[c]) \in DwnResp \cup SynResp
         /\ Tail(queue[c]) \in Seq(DwnResp \cup SynResp)
BY HeadTailProperties DEF MailOK
-----------------------------------------------------------------------------
LEMMA InitIInv == Init => IInv
<1> SUFFICES ASSUME Init PROVE IInv
  OBVIOUS
<1>1. HandlersOK
  <2>1. NoLocals \in Locals
    BY DEF NoLocals, Locals
  <2> QED BY <2>1 DEF Init, HandlersOK, PCs, NoReply, Reply
<1>2. MailOK
  BY DEF Init, MailOK
<1>3. db \in [Servers -> SUBSET Row]
  BY MainServerAssumption DEF Init
<1>4. TablesOK
  BY <1>3 DEF Init, TablesOK
<1>5. UdpOK /\ served \in Nat /\ crashes \in Nat
  BY DEF Init, UdpOK
<1>6. DbIsLocal
  BY DiskAssumption DEF Init, DbIsLocal
<1>7. HandlersMatch /\ JobsMatch
  BY DEF Init, HandlersMatch, JobsMatch
<1> QED BY <1>1, <1>2, <1>4, <1>5, <1>6, <1>7 DEF IInv, TypeOK
-----------------------------------------------------------------------------
\* Only these steps write to a table or to what belongs to the tables.
LEMMA TableWriters ==
  ASSUME [Next]_vars
  PROVE  \/ UNCHANGED tableVars
         \/ \E c \in Thr :
              \/ StoreUpdate(c) \/ GetName(c)
              \/ \E r \in Menu[c] : RecvDownload(c, r)
              \/ \E store \in Stores : ReadDb(c, store)
              \/ \E row \in Row : GetAnswer(c, row)
         \/ \E j \in jobs : \/ JobCheck(j) \/ JobFix(j)
                            \/ \E store \in Stores : JobReadDb(j, store)
         \/ \E s \in Servers : Crash(s)
<1> USE DEF handlerVars, mailVars, tableVars, udpVars, boundVars
<1>1. ASSUME NEW c \in Thr, FromClient(c), \A r \in Menu[c] : ~RecvDownload(c, r)
      PROVE  UNCHANGED tableVars
  BY <1>1 DEF FromClient, Accept, HangUp, Reset, Authenticate, RecvUpdate,
              RefuseUpdate, RecvSynch
<1>2. ASSUME NEW c \in Thr, Proceed(c),
             ~StoreUpdate(c), ~GetName(c), \A store \in Stores : ~ReadDb(c, store),
             \A row \in Row : ~GetAnswer(c, row)
      PROVE  UNCHANGED tableVars
  BY <1>2 DEF Proceed, ReadCache, PickBest, PickNone, Ask, NextItem, DwnTimeout,
              GetNothing, GetSynch, SynTimeout
<1>3. ASSUME NEW m \in net, Serve(m) \/ PutResponse(m) \/ Lose(m)
      PROVE  UNCHANGED tableVars
  BY <1>3 DEF Serve, PutResponse, Lose
<1>4. ASSUME NEW j \in jobs, Work(j), ~JobCheck(j), ~JobFix(j),
             \A store \in Stores : ~JobReadDb(j, store)
      PROVE  UNCHANGED tableVars
  BY <1>4 DEF Work, JobReadCache, JobAnswer
<1>5. CASE UNCHANGED vars
  BY <1>5 DEF vars
<1> QED BY <1>1, <1>2, <1>3, <1>4, <1>5 DEF Next

\* A row written to a database of its own shop keeps the tables in order.
LEMMA WriteDbSafe ==
  ASSUME TablesOK, DbIsLocal, NEW s \in Servers, NEW row \in Row, WriteDb(s, row),
         row.store \in LocalStores[s], row.user \in Registered,
         UNCHANGED <<cache, stuck>>
  PROVE  TablesOK' /\ DbIsLocal'
<1>1. Replaced(db[s], row) \in SUBSET Row
  BY ReplacedRows DEF TablesOK
<1>2. TablesOK'
  BY <1>1 DEF WriteDb, Disturb, TablesOK
<1>3. DbIsLocal'
  BY DEF WriteDb, DbIsLocal, Replaced, TablesOK
<1> QED BY <1>2, <1>3

LEMMA JamSafe ==
  ASSUME TablesOK, DbIsLocal, NEW s \in Servers, NEW t \in {"db", "cache"}, Jam(s, t)
  PROVE  TablesOK' /\ DbIsLocal'
BY DEF Jam, TablesOK, DbIsLocal

LEMMA TablesNext ==
  ASSUME IInv, [Next]_vars
  PROVE  TablesOK' /\ DbIsLocal'
<1> USE DEF IInv, TypeOK
<1>h. \A c \in Thr : Home[c] \in Servers
  BY MainServerAssumption
<1>1. CASE UNCHANGED tableVars
  BY <1>1 DEF tableVars, TablesOK, DbIsLocal
<1>2. ASSUME NEW c \in Thr, StoreUpdate(c) PROVE TablesOK' /\ DbIsLocal'
  <2>1. CASE rqst[c].item \in BadItems \/ rqst[c].price = NaN
    BY <1>2, <1>h, <2>1, JamSafe DEF StoreUpdate
  <2>2. CASE ~(rqst[c].item \in BadItems \/ rqst[c].price = NaN)
    <3> DEFINE row == [store |-> rqst[c].store, item |-> rqst[c].item,
                       price |-> rqst[c].price, user |-> user[c]]
    <3>1. rqst[c] \in Request /\ rqst[c].type = "cUpdate" /\ user[c] \in Registered
          /\ rqst[c].store \in LocalStores[Home[c]]
      BY <1>2 DEF StoreUpdate, HandlersMatch, HandlersOK, NoRequest, p_updShopOK
    <3>2. row \in Row
      BY <2>2, <3>1, MainServerAssumption DEF Request, Row
    <3>3. WriteDb(Home[c], row) /\ UNCHANGED <<cache, stuck>>
      BY <1>2, <2>2 DEF StoreUpdate
    <3> QED BY <1>h, <3>1, <3>2, <3>3, WriteDbSafe
  <2> QED BY <2>1, <2>2
<1>3. ASSUME NEW c \in Thr, GetName(c) PROVE TablesOK' /\ DbIsLocal'
  <2> DEFINE name == Head(queue[c]).user
  <2>1. CASE UNCHANGED tableVars \/ Jam(Home[c], "cache")
    BY <2>1, <1>h, <1>1, JamSafe
  <2>2. CASE /\ name \in DOMAIN Spelt /\ WriteCache(Home[c], Spelt[name])
             /\ UNCHANGED <<db, stuck, published>>
    <3> DEFINE row == Spelt[name]
    <3>1. row \in Row
      BY <2>2, MainServerAssumption
    <3>2. Replaced(cache[Home[c]], row) \in SUBSET Row
      BY <1>h, <3>1, ReplacedRows DEF TablesOK
    <3> QED BY <2>2, <1>h, <3>2 DEF WriteCache, Disturb, TablesOK, DbIsLocal
  <2> QED BY <1>3, <2>1, <2>2 DEF GetName
<1>4. ASSUME NEW c \in Thr, NEW r \in Menu[c], RecvDownload(c, r)
      PROVE  TablesOK' /\ DbIsLocal'
  BY <1>4 DEF RecvDownload, TablesOK, DbIsLocal
<1>5. ASSUME NEW c \in Thr, NEW store \in Stores, ReadDb(c, store)
      PROVE  TablesOK' /\ DbIsLocal'
  BY <1>5, <1>h, <1>1, JamSafe DEF ReadDb
<1>6. ASSUME NEW c \in Thr, NEW row \in Row, GetAnswer(c, row)
      PROVE  TablesOK' /\ DbIsLocal'
  <2>1. Replaced(cache[Home[c]], row) \in SUBSET Row
    BY <1>h, ReplacedRows DEF TablesOK
  <2> QED BY <1>6, <1>h, <2>1 DEF GetAnswer, WriteCache, Disturb, TablesOK, DbIsLocal
<1>7. ASSUME NEW j \in jobs PROVE j.rqst.dst \in Servers
  BY DEF UdpOK, Job, DwnRqst, SynRqst
<1>8. ASSUME NEW j \in jobs, JobCheck(j) PROVE TablesOK' /\ DbIsLocal'
  BY <1>8, <1>7, <1>1, JamSafe DEF JobCheck
<1>9. ASSUME NEW j \in jobs, NEW store \in Stores, JobReadDb(j, store)
      PROVE  TablesOK' /\ DbIsLocal'
  BY <1>9, <1>7, <1>1, JamSafe DEF JobReadDb
<1>10. ASSUME NEW j \in jobs, JobFix(j) PROVE TablesOK' /\ DbIsLocal'
  <2>1. CASE j.rqst.p2 = NaN
    BY <1>10, <1>7, <2>1, JamSafe DEF JobFix
  <2>2. CASE j.rqst.p2 # NaN
    <3> DEFINE fixed == [store |-> j.rqst.store, item |-> j.rqst.item,
                         price |-> j.rqst.p2, user |-> j.rqst.user]
    <3>1. j.rqst \in SynRqst /\ j.rqst.user \in Registered
      BY <1>10 DEF JobFix, Synching, UdpOK, Job, DwnRqst, SynRqst, JobsMatch
    <3>2. fixed \in Row
      BY <2>2, <3>1 DEF SynRqst, Row
    <3>3. PICK wrong \in j.found : /\ WriteDb(j.rqst.dst, fixed)
                                   /\ UNCHANGED <<cache, stuck>>
      BY <1>10, <2>2 DEF JobFix
    <3>4. j.rqst.store \in LocalStores[j.rqst.dst]
      BY <1>10, <3>3 DEF JobFix, Synching, JobsMatch, Key
    <3> QED BY <1>7, <3>1, <3>2, <3>3, <3>4, WriteDbSafe
  <2> QED BY <2>1, <2>2
<1>11. ASSUME NEW s \in Servers, Crash(s) PROVE TablesOK' /\ DbIsLocal'
  BY <1>11 DEF Crash, TablesOK, DbIsLocal
<1> QED
  BY <1>1, <1>2, <1>3, <1>4, <1>5, <1>6, <1>8, <1>9, <1>10, <1>11, TableWriters
-----------------------------------------------------------------------------
\* The queues hold responses.
LEMMA MailNext ==
  ASSUME IInv, [Next]_vars
  PROVE  MailOK'
<1> USE DEF IInv, TypeOK, mailVars
<1>1. CASE UNCHANGED mailVars
  BY <1>1 DEF MailOK
<1>2. ASSUME NEW c \in Thr, NewQueue(c) \/ Cleanup(c) PROVE MailOK'
  <2>1. <<>> \in Seq(DwnResp \cup SynResp)
    BY EmptySeq
  <2> QED BY <1>2, <2>1 DEF NewQueue, Cleanup, MailOK
<1>3. ASSUME NEW c \in Thr, queue[c] # <<>>, Take(c), UNCHANGED pending PROVE MailOK'
  <2>1. Tail(queue[c]) \in Seq(DwnResp \cup SynResp)
    BY <1>3, HeadOfQueue
  <2> QED BY <1>3, <2>1 DEF Take, MailOK
<1>4. ASSUME NEW c \in Thr, FromClient(c) PROVE MailOK'
  <2>1. UNCHANGED mailVars \/ NewQueue(c) \/ Cleanup(c)
    BY <1>4 DEF FromClient, Accept, HangUp, Reset, Authenticate, RecvUpdate,
                RefuseUpdate, RecvDownload, RecvSynch
  <2> QED BY <2>1, <1>1, <1>2
<1>5. ASSUME NEW c \in Thr, Proceed(c) PROVE MailOK'
  <2>1. \/ UNCHANGED mailVars \/ NewQueue(c)
        \/ queue[c] # <<>> /\ Take(c) /\ UNCHANGED pending
    BY <1>5 DEF Proceed, StoreUpdate, ReadDb, ReadCache, PickBest, PickNone, Ask,
                NextItem, DwnTimeout, GetNothing, GetAnswer, GetName, GetSynch,
                SynTimeout
  <2> QED BY <2>1, <1>1, <1>2, <1>3
<1>6. ASSUME NEW m \in net, PutResponse(m) PROVE MailOK'
  <2>1. m \in DwnResp \cup SynResp
    BY <1>6 DEF PutResponse, UdpOK, DwnRqst, SynRqst
  <2>2. ASSUME NEW c \in Thr
        PROVE  Append(queue[c], m) \in Seq(DwnResp \cup SynResp)
    <3> DEFINE Mail == DwnResp \cup SynResp
               q == queue[c]
    <3>1. q \in Seq(Mail)
      BY DEF MailOK
    <3>2. m \in Mail
      BY <2>1
    <3> HIDE DEF Mail, q
    <3>3. Append(q, m) \in Seq(Mail)
      BY <3>1, <3>2, AppendProperties
    <3> QED BY <3>3 DEF Mail, q
  <2> DEFINE Queues == Seq(DwnResp \cup SynResp)
  <2>3. pending \subseteq Thr /\ pending' = pending /\ queue \in [Thr -> Queues]
    BY <1>6 DEF PutResponse, MailOK
  <2>4. \A c \in Thr : Append(queue[c], m) \in Queues
    BY <2>2
  <2>5. \/ m.thr \in pending /\ queue' = [queue EXCEPT ![m.thr] = Append(queue[m.thr], m)]
        \/ queue' = queue
    BY <1>6 DEF PutResponse
  <2> HIDE DEF Queues
  <2>6. queue' \in [Thr -> Queues]
    BY <2>3, <2>4, <2>5
  <2> QED BY <2>3, <2>6 DEF MailOK, Queues
<1>7. ASSUME NEW m \in net, Serve(m) \/ Lose(m) PROVE MailOK'
  BY <1>7, <1>1 DEF Serve, Lose
<1>8. ASSUME NEW j \in jobs, Work(j) PROVE MailOK'
  BY <1>8, <1>1 DEF Work, JobReadDb, JobReadCache, JobAnswer, JobCheck, JobFix
<1>9. ASSUME NEW s \in Servers, Crash(s) PROVE MailOK'
  BY <1>9 DEF Crash, MailOK
<1>10. CASE UNCHANGED vars
  BY <1>10, <1>1 DEF vars
<1> QED BY <1>4, <1>5, <1>6, <1>7, <1>8, <1>9, <1>10 DEF Next
-----------------------------------------------------------------------------
\* Datagrams and jobs are well formed, and synchs are about local entries.

LEMMA ReplaceSafe ==
  ASSUME UdpOK, JobsMatch, NEW j \in jobs, NEW k \in Job, Replace(j, k),
         k.rqst = j.rqst,
         k.rqst.type = "sSynRqst" =>
           \A r \in k.found : /\ Key(r) = <<k.rqst.store, k.rqst.item>>
                            /\ r.price = k.rqst.p1
                            /\ r.store \in LocalStores[k.rqst.dst]
  PROVE  UdpOK' /\ JobsMatch'
<1>1. UdpOK'
  BY DEF Replace, UdpOK
<1>2. JobsMatch'
  BY DEF Replace, JobsMatch
<1> QED BY <1>1, <1>2

LEMMA FinishSafe ==
  ASSUME UdpOK, JobsMatch, NEW j \in jobs,
         NEW answers \in SUBSET (DwnResp \cup SynResp), Finish(j, answers)
  PROVE  UdpOK' /\ JobsMatch'
<1>1. UdpOK'
  BY DEF Finish, UdpOK
<1>2. \A m \in answers : m.type # "sSynRqst"
  BY DEF DwnResp, SynResp
<1>3. JobsMatch'
  BY <1>2 DEF Finish, JobsMatch
<1> QED BY <1>1, <1>3

LEMMA UdpJobs ==
  ASSUME IInv, NEW j \in jobs, Work(j)
  PROVE  UdpOK' /\ JobsMatch'
<1> USE DEF IInv, TypeOK
<1>1. /\ j.rqst \in DwnRqst \cup SynRqst /\ j.rqst.thr \in Thr
      /\ j.rqst.dst \in Servers /\ j.stores \in SUBSET Stores
      /\ j.at \in SUBSET Stores /\ j.info \in SUBSET Row /\ j.found \in SUBSET Row
      /\ j = [rqst |-> j.rqst, stores |-> j.stores, at |-> j.at,
              info |-> j.info, found |-> j.found]
  BY DEF UdpOK, Job, DwnRqst, SynRqst
<1>2. db[j.rqst.dst] \in SUBSET Row /\ cache[j.rqst.dst] \in SUBSET Row
  BY <1>1 DEF TablesOK
<1>3. ASSUME NEW best \in SUBSET Row, Downloading(j) PROVE DwnAnswer(j, best) \in DwnResp
  BY <1>1, <1>3 DEF DwnAnswer, DwnResp, Downloading, SynRqst
<1>4. ASSUME NEW store \in Stores, JobReadDb(j, store) PROVE UdpOK' /\ JobsMatch'
  <2>1. CASE j.rqst.item \in BadItems
    BY <1>4, <2>1, FinishSafe DEF JobReadDb
  <2>2. CASE j.rqst.item \notin BadItems
    <3> DEFINE k == [j EXCEPT !.stores = @ \ {store}, !.at = {store},
                              !.info = @ \cup Lookup(db[j.rqst.dst], store, j.rqst.item)]
    <3>1. k \in Job /\ k.rqst = j.rqst
      BY <1>1, <1>2, LookupRows DEF Job
    <3>2. Replace(j, k) /\ k.rqst.type # "sSynRqst"
      BY <1>4, <2>2, <3>1 DEF JobReadDb, Downloading
    <3> QED BY <3>1, <3>2, ReplaceSafe
  <2> QED BY <2>1, <2>2
<1>5. ASSUME NEW store \in Stores, JobReadCache(j, store) PROVE UdpOK' /\ JobsMatch'
  <2> DEFINE info == j.info \cup Lookup(cache[j.rqst.dst], store, j.rqst.item)
             k == [j EXCEPT !.at = {}, !.info = info]
  <2>1. info \in SUBSET Row
    BY <1>1, <1>2, LookupRows
  <2>2. k \in Job /\ k.rqst = j.rqst
    BY <1>1, <2>1 DEF Job
  <2>3. j.rqst.type # "sSynRqst"
    BY <1>5 DEF JobReadCache, Downloading
  <2>4. CASE Replace(j, k)
    BY <2>2, <2>3, <2>4, ReplaceSafe
  <2>5. CASE Finish(j, {DwnAnswer(j, {})})
    <3>1. DwnAnswer(j, {}) \in DwnResp
      BY <1>3, <1>5 DEF JobReadCache
    <3> QED BY <2>5, <3>1, FinishSafe
  <2> QED BY <1>5, <2>4, <2>5 DEF JobReadCache
<1>6. CASE JobAnswer(j)
  <2>1. PICK best \in Cheapest(j.info) : Finish(j, {DwnAnswer(j, {best})})
    BY <1>6 DEF JobAnswer
  <2>2. best \in Row
    BY <1>1, <2>1, CheapestRows
  <2>3. DwnAnswer(j, {best}) \in DwnResp
    BY <1>3, <1>6, <2>2 DEF JobAnswer
  <2> QED BY <2>1, <2>3, FinishSafe
<1>7. CASE JobCheck(j)
  <2> DEFINE wrong == {r \in Lookup(db[j.rqst.dst], j.rqst.store, j.rqst.item) :
                         r.price = j.rqst.p1}
             k == [j EXCEPT !.found = wrong]
  <2>1. /\ wrong \in SUBSET Row
        /\ \A r \in wrong : /\ Key(r) = <<j.rqst.store, j.rqst.item>>
                            /\ r.price = j.rqst.p1
                            /\ r.store \in LocalStores[j.rqst.dst]
    BY <1>1, <1>2, LookupRows DEF DbIsLocal
  <2>2. k \in Job /\ k.rqst = j.rqst /\ k.found = wrong
    BY <1>1, <2>1 DEF Job
  <2>3. CASE Replace(j, k)
    BY <2>1, <2>2, <2>3, ReplaceSafe
  <2>4. CASE Finish(j, {})
    BY <2>4, FinishSafe
  <2> QED BY <1>7, <2>3, <2>4 DEF JobCheck
<1>8. CASE JobFix(j)
  <2>1. PICK wrong \in j.found : \/ Finish(j, {SynAnswer(j, wrong.user)})
                                 \/ Finish(j, {})
    BY <1>8 DEF JobFix
  <2>2. SynAnswer(j, wrong.user) \in SynResp
    BY <1>1, <1>8 DEF JobFix, Synching, SynAnswer, SynResp, DwnRqst, Row
  <2> QED BY <2>1, <2>2, FinishSafe
<1> QED BY <1>4, <1>5, <1>6, <1>7, <1>8 DEF Work

\* Every step leaves well-formed datagrams and jobs.
LEMMA UdpNext ==
  ASSUME IInv, [Next]_vars
  PROVE  UdpOK' /\ JobsMatch'
<1> USE DEF IInv, TypeOK
<1>1. CASE UNCHANGED udpVars
  BY <1>1 DEF udpVars, UdpOK, JobsMatch
<1>2. ASSUME NEW m \in net, Serve(m) PROVE UdpOK' /\ JobsMatch'
  <2>1. m \in DwnRqst \cup SynRqst
    BY <1>2 DEF Serve, UdpOK, DwnResp, SynResp
  <2>2. Start(m) \in Job
    BY <2>1 DEF Start, Job, DwnRqst, SynRqst
  <2>3. UdpOK'
    BY <1>2, <2>2 DEF Serve, UdpOK
  <2>4. JobsMatch'
    BY <1>2 DEF Serve, Start, JobsMatch
  <2> QED BY <2>3, <2>4
<1>3. ASSUME NEW m \in net, PutResponse(m) \/ Lose(m) PROVE UdpOK' /\ JobsMatch'
  BY <1>3 DEF PutResponse, Lose, UdpOK, JobsMatch
<1>4. ASSUME NEW s \in Servers, Crash(s) PROVE UdpOK' /\ JobsMatch'
  BY <1>4 DEF Crash, UdpOK, JobsMatch
<1>5. ASSUME NEW c \in Thr, NEW s \in Servers, Ask(c, s) PROVE UdpOK' /\ JobsMatch'
  <2> DEFINE m == [type |-> "sDwnRqst", dst |-> s, thr |-> c, ask |-> ask,
                   item |-> Head(loc[c].items), stores |-> Wanted(rqst[c])]
  <2>1. rqst[c] \in Request /\ rqst[c].type = "cDownload" /\ loc[c].items # <<>>
    BY <1>5 DEF Ask, HandlersMatch, HandlersOK, NoRequest
  <2>2. Head(loc[c].items) \in Items /\ Wanted(rqst[c]) \in SUBSET Stores
    BY <2>1, WantedStores, HeadTailProperties DEF HandlersOK, Locals
  <2>3. m \in DwnRqst
    BY <2>2 DEF DwnRqst, UdpOK
  <2>4. net' = net \cup {m} /\ ask' = ask + 1 /\ UNCHANGED jobs
    BY <1>5 DEF Ask
  <2> QED BY <2>3, <2>4 DEF UdpOK, JobsMatch
<1>6. ASSUME NEW c \in Thr, NEW r \in Menu[c], RecvSynch(c, r)
      PROVE  UdpOK' /\ JobsMatch'
  <2> DEFINE m(s) == [type |-> "sSynRqst", dst |-> s, thr |-> c, ask |-> ask,
                      store |-> r.store, item |-> r.item, p1 |-> r.p1,
                      p2 |-> r.p2, user |-> user[c]]
  <2>1. user[c] \in Registered /\ user[c] \in Users
    BY <1>6, MainServerAssumption DEF RecvSynch, Receive, HandlersMatch
  <2>2. r \in Request /\ r.type = "cSynch"
    BY <1>6, MainServerAssumption DEF RecvSynch, Receive
  <2>3. /\ r.store \in Stores /\ r.item \in Items
        /\ r.p1 \in Prices \cup {NaN} /\ r.p2 \in Prices \cup {NaN}
    BY <2>2 DEF Request
  <2>4. \A s \in Servers : m(s) \in SynRqst /\ m(s).user \in Registered
    BY <2>1, <2>3 DEF SynRqst, UdpOK
  <2>5. net' = net \cup {m(s) : s \in Servers \ {Home[c]}} /\ ask' = ask + 1
        /\ UNCHANGED jobs
    BY <1>6 DEF RecvSynch
  <2> HIDE DEF m
  <2>6. UdpOK'
    BY <2>4, <2>5 DEF UdpOK
  <2>7. JobsMatch'
    BY <2>4, <2>5 DEF JobsMatch
  <2> QED BY <2>6, <2>7
<1>7. ASSUME NEW c \in Thr, FromClient(c), \A r \in Menu[c] : ~RecvSynch(c, r)
      PROVE  UNCHANGED udpVars
  BY <1>7 DEF FromClient, Accept, HangUp, Reset, Authenticate, RecvUpdate,
              RefuseUpdate, RecvDownload, udpVars
<1>8. ASSUME NEW c \in Thr, Proceed(c), \A s \in Servers : ~Ask(c, s)
      PROVE  UNCHANGED udpVars
  BY <1>8 DEF Proceed, StoreUpdate, ReadDb, ReadCache, PickBest, PickNone, NextItem,
              DwnTimeout, GetNothing, GetAnswer, GetName, GetSynch, SynTimeout, udpVars
<1>9. CASE UNCHANGED vars
  BY <1>9, <1>1 DEF vars
<1> QED
  BY <1>1, <1>2, <1>3, <1>4, <1>5, <1>6, <1>7, <1>8, <1>9, UdpJobs DEF Next
-----------------------------------------------------------------------------
\* Handlers: each step leaves a handler in a state that its next step expects.

LEMMA NoLocalsType == NoLocals \in Locals
BY DEF NoLocals, Locals

\* A handler that dies, answers or leaves relies on nothing but its user.
LEMMA DieSafe ==
  ASSUME HandlersOK, HandlersMatch, NEW c \in Thr, Die(c)
  PROVE  HandlersOK' /\ HandlersMatch'
<1>1. HandlersOK'
  BY NoLocalsType DEF Die, Go, HandlersOK, PCs
<1>2. HandlersMatch'
  BY DEF Die, Go, HandlersOK, HandlersMatch, p_updShopOK
<1> QED BY <1>1, <1>2

LEMMA AnswerSafe ==
  ASSUME HandlersOK, HandlersMatch, NEW c \in Thr, NEW reply \in Reply,
         Answer(c, reply), user[c] \in Registered
  PROVE  HandlersOK' /\ HandlersMatch'
<1>1. HandlersOK'
  BY NoLocalsType DEF Answer, Go, HandlersOK, PCs
<1>2. HandlersMatch'
  BY DEF Answer, Go, HandlersOK, HandlersMatch, p_updShopOK
<1> QED BY <1>1, <1>2

\* A handler moves on within a download.
LEMMA GoSafe ==
  ASSUME HandlersOK, HandlersMatch, NEW c \in Thr, NEW locals \in Locals,
         NEW place \in {"dwn_scan", "dwn_rescan", "dwn_ask", "dwn_wait"},
         pc[c] \in {"dwn_scan", "dwn_rescan", "dwn_ask", "dwn_wait"},
         locals.items # <<>>, Go(c, place, locals), UNCHANGED <<user, rqst, out>>
  PROVE  HandlersOK' /\ HandlersMatch'
<1>1. HandlersOK'
  BY DEF Go, HandlersOK, PCs
<1>2. HandlersMatch'
  BY DEF Go, HandlersOK, HandlersMatch, p_updShopOK
<1> QED BY <1>1, <1>2

\* A handler takes up a request.
LEMMA ProcessSafe ==
  ASSUME HandlersOK, HandlersMatch, NEW c \in Thr, NEW r \in Menu[c],
         NEW locals \in Locals, NEW place \in {"upd_store", "dwn_scan", "syn_wait"},
         pc[c] = "main_ready", Process(c, r, place, locals),
         place = "upd_store" => r.type = "cUpdate" /\ p_updShopOK(c, r),
         place = "dwn_scan" => r.type = "cDownload" /\ locals.items # <<>>
  PROVE  HandlersOK' /\ HandlersMatch'
<1>1. r \in Request
  BY MainServerAssumption
<1>2. HandlersOK'
  BY <1>1 DEF Process, Go, HandlersOK, PCs, NoReply, Reply
<1>3. HandlersMatch'
  BY DEF Process, Go, HandlersOK, HandlersMatch, p_updShopOK
<1> QED BY <1>2, <1>3

LEMMA HandlersFromClient ==
  ASSUME IInv, NEW c \in Thr, FromClient(c)
  PROVE  HandlersOK' /\ HandlersMatch'
<1> USE DEF IInv, TypeOK
<1>1. CASE Accept(c)
  BY <1>1 DEF Accept, HandlersOK, PCs, HandlersMatch, p_updShopOK
<1>2. CASE HangUp(c)
  BY <1>2 DEF HangUp, HandlersOK, PCs, HandlersMatch, p_updShopOK
<1>3. CASE Reset(c)
  BY <1>3, DieSafe DEF Reset
<1>4. ASSUME NEW r \in Menu[c], Authenticate(c, r) PROVE HandlersOK' /\ HandlersMatch'
  <2>1. r \in Request /\ r.type = "cAuth"
    BY <1>4, MainServerAssumption DEF Authenticate
  <2>2. r.user \in Users
    BY <2>1 DEF Request
  <2>3. CASE r.user \in Registered
    <3>1. /\ pc' = [pc EXCEPT ![c] = "main_ready"]
          /\ out' = [out EXCEPT ![c] = [type |-> "sAuthOK"]]
          /\ user' = [user EXCEPT ![c] = r.user] /\ UNCHANGED <<rqst, loc>>
      BY <1>4, <2>3 DEF Authenticate, p_sAuthOK
    <3>2. HandlersOK'
      BY <2>2, <3>1 DEF HandlersOK, PCs, Reply
    <3>3. HandlersMatch'
      BY <2>3, <3>1 DEF HandlersOK, HandlersMatch, p_updShopOK
    <3> QED BY <3>2, <3>3
  <2>4. CASE r.user \notin Registered
    <3>1. /\ pc' = [pc EXCEPT ![c] = "closed"]
          /\ out' = [out EXCEPT ![c] = [type |-> "sAuthErr"]]
          /\ user' = [user EXCEPT ![c] = r.user] /\ UNCHANGED <<rqst, loc>>
      BY <1>4, <2>4 DEF Authenticate, p_sAuthOK
    <3>2. HandlersOK'
      BY <2>2, <3>1 DEF HandlersOK, PCs, Reply
    <3>3. HandlersMatch'
      BY <3>1 DEF HandlersOK, HandlersMatch, p_updShopOK
    <3> QED BY <3>2, <3>3
  <2> QED BY <2>3, <2>4
<1>5. ASSUME NEW r \in Menu[c], RecvUpdate(c, r) PROVE HandlersOK' /\ HandlersMatch'
  BY <1>5, NoLocalsType, ProcessSafe DEF RecvUpdate, Receive
<1>6. ASSUME NEW r \in Menu[c], RefuseUpdate(c, r) PROVE HandlersOK' /\ HandlersMatch'
  <2>1. r \in Request /\ pc[c] = "main_ready"
    BY <1>6, MainServerAssumption DEF RefuseUpdate, Receive
  <2>2. HandlersOK'
    BY <1>6, <2>1 DEF RefuseUpdate, HandlersOK, Reply
  <2>3. HandlersMatch'
    BY <1>6, <2>1 DEF RefuseUpdate, HandlersOK, HandlersMatch, p_updShopOK
  <2> QED BY <2>2, <2>3
<1>7. ASSUME NEW r \in Menu[c], RecvDownload(c, r) PROVE HandlersOK' /\ HandlersMatch'
  <2>1. r \in Request /\ r.type = "cDownload"
    BY <1>7, MainServerAssumption DEF RecvDownload, Receive
  <2>2. Scan(r) \in Locals /\ Scan(r).items # <<>>
    BY <2>1, WantedStores DEF Scan, NoLocals, Locals
  <2> QED BY <1>7, <2>1, <2>2, ProcessSafe DEF RecvDownload, Receive
<1>8. ASSUME NEW r \in Menu[c], RecvSynch(c, r) PROVE HandlersOK' /\ HandlersMatch'
  BY <1>8, NoLocalsType, ProcessSafe DEF RecvSynch, Receive
<1> QED BY <1>1, <1>2, <1>3, <1>4, <1>5, <1>6, <1>7, <1>8 DEF FromClient

LEMMA HandlersProceed ==
  ASSUME IInv, NEW c \in Thr, Proceed(c)
  PROVE  HandlersOK' /\ HandlersMatch'
<1> USE DEF IInv, TypeOK
<1> DEFINE l == loc[c]
           Goal == HandlersOK' /\ HandlersMatch'
           Dwn == {"dwn_scan", "dwn_rescan", "dwn_ask", "dwn_wait"}
<1>l. /\ l \in Locals /\ l.items \in Seq(Items) /\ l.stores \in SUBSET Stores
      /\ l.at \in SUBSET Stores /\ l.info \in SUBSET Row /\ l.bests \in SUBSET Row
      /\ l.servers \in SUBSET Servers
  BY DEF HandlersOK, Locals
<1>h. /\ Home[c] \in Servers
      /\ db[Home[c]] \in SUBSET Row /\ cache[Home[c]] \in SUBSET Row
  BY MainServerAssumption DEF TablesOK
<1>d. ASSUME pc[c] \in Dwn
      PROVE  /\ rqst[c] \in Request /\ rqst[c].type = "cDownload"
             /\ Wanted(rqst[c]) \in SUBSET Stores
             /\ rqst[c].items \in Seq(Items) /\ rqst[c].items # <<>>
             /\ l.items # <<>> /\ Tail(l.items) \in Seq(Items)
             /\ user[c] \in Registered
  <2>1. /\ rqst[c] \in Request /\ rqst[c].type = "cDownload" /\ l.items # <<>>
        /\ user[c] \in Registered
    BY <1>d DEF HandlersMatch, HandlersOK, NoRequest
  <2> QED BY <2>1, <1>l, WantedStores, HeadTailProperties
<1>g. ASSUME NEW items \in Seq(Items), pc[c] \in Dwn
      PROVE  Gather(items, c) \in Locals /\ Gather(items, c).items = items
  <2>1. Horizon(c) \in SUBSET Servers
    BY DEF Horizon
  <2> HIDE DEF l
  <2> QED BY <2>1 DEF Gather, NoLocals, Locals
<1>s. ASSUME pc[c] \in Dwn
      PROVE  Scan(rqst[c]) \in Locals /\ Scan(rqst[c]).items # <<>>
  BY <1>s, <1>d DEF Scan, NoLocals, Locals
<1> HIDE DEF l
<1>1. CASE StoreUpdate(c)
  <2>1. user[c] \in Registered
    BY <1>1 DEF StoreUpdate, HandlersMatch
  <2>2. [type |-> "sUpdOK"] \in Reply
    BY DEF Reply
  <2> QED BY <1>1, <2>1, <2>2, AnswerSafe, DieSafe DEF StoreUpdate
<1>2. ASSUME NEW store \in Stores, ReadDb(c, store) PROVE Goal
  <2>1. CASE Head(l.items) \in BadItems
    BY <1>2, <2>1, DieSafe DEF ReadDb, l
  <2>2. CASE Head(l.items) \notin BadItems
    <3> DEFINE k == [l EXCEPT !.stores = @ \ {store}, !.at = {store},
                       !.info = @ \cup Lookup(db[Home[c]], store, Head(l.items))]
    <3>1. pc[c] \in Dwn
      BY <1>2 DEF ReadDb, Scanning
    <3>2. k \in Locals /\ k.items # <<>>
      BY <1>l, <1>h, <3>1, <1>d, LookupRows DEF Locals
    <3>3. loc' = [loc EXCEPT ![c] = k] /\ UNCHANGED <<pc, user, rqst, out>>
      BY <1>2, <2>2 DEF ReadDb, l
    <3>4. HandlersOK'
      BY <3>2, <3>3 DEF HandlersOK
    <3>5. HandlersMatch'
      BY <3>2, <3>3 DEF HandlersOK, HandlersMatch, p_updShopOK
    <3> QED BY <3>4, <3>5
  <2> QED BY <2>1, <2>2
<1>3. ASSUME NEW store \in Stores, ReadCache(c, store) PROVE Goal
  <2> DEFINE info == l.info \cup Lookup(cache[Home[c]], store, Head(l.items))
             k == [l EXCEPT !.at = {}, !.info = info]
  <2>1. pc[c] \in Dwn
    BY <1>3 DEF ReadCache, Scanning
  <2>2. info \in SUBSET Row
    BY <1>l, <1>h, LookupRows
  <2>3. k \in Locals /\ k.items # <<>>
    BY <1>l, <2>1, <2>2, <1>d DEF Locals
  <2>4. UNCHANGED <<user, rqst, out>>
    BY <1>3 DEF ReadCache
  <2>5. CASE loc' = [loc EXCEPT ![c] = k] /\ UNCHANGED pc
    <3>1. HandlersOK'
      BY <2>3, <2>4, <2>5 DEF HandlersOK
    <3>2. HandlersMatch'
      BY <2>3, <2>4, <2>5 DEF HandlersOK, HandlersMatch, p_updShopOK
    <3> QED BY <3>1, <3>2
  <2>6. CASE Go(c, "dwn_ask", Gather(rqst[c].items, c))
    BY <2>1, <2>4, <2>6, <1>d, <1>g, GoSafe
  <2>7. \/ loc' = [loc EXCEPT ![c] = k] /\ UNCHANGED pc
        \/ Go(c, "dwn_ask", Gather(rqst[c].items, c))
    BY <1>3 DEF ReadCache, l
  <2> QED BY <2>5, <2>6, <2>7
<1>4. CASE PickBest(c)
  <2>1. pc[c] \in Dwn
    BY <1>4 DEF PickBest, Scanning
  <2>2. PICK best \in Cheapest(l.info) :
          IF Tail(l.items) = <<>>
          THEN Answer(c, [type |-> "sDwnInfo", rows |-> l.bests \cup {best}])
          ELSE loc' = [loc EXCEPT ![c] = NextScan(c, best)]
               /\ UNCHANGED <<pc, user, rqst, out>>
    BY <1>4 DEF PickBest, l
  <2>3. best \in Row
    BY <1>l, <2>2, CheapestRows
  <2>4. CASE Tail(l.items) = <<>>
    <3>1. [type |-> "sDwnInfo", rows |-> l.bests \cup {best}] \in Reply
      BY <1>l, <2>3 DEF Reply
    <3> QED BY <2>1, <2>2, <2>4, <3>1, <1>d, AnswerSafe
  <2>5. CASE Tail(l.items) # <<>>
    <3>1. NextScan(c, best) \in Locals /\ NextScan(c, best).items # <<>>
      BY <1>l, <1>d, <2>1, <2>3, <2>5 DEF NextScan, Locals, l
    <3>2. HandlersOK'
      BY <2>2, <2>5, <3>1 DEF HandlersOK
    <3>3. HandlersMatch'
      BY <2>2, <2>5, <3>1 DEF HandlersOK, HandlersMatch, p_updShopOK
    <3> QED BY <3>2, <3>3
  <2> QED BY <2>4, <2>5
<1>5. CASE PickNone(c)
  <2>1. pc[c] \in Dwn
    BY <1>5 DEF PickNone, Scanning
  <2>2. [type |-> "sDwnInfo", rows |-> {}] \in Reply
    BY DEF Reply
  <2> QED BY <1>5, <2>1, <2>2, <1>d, AnswerSafe DEF PickNone
<1>6. ASSUME NEW s \in Servers, Ask(c, s) PROVE Goal
  <2>1. pc[c] \in Dwn /\ Go(c, "dwn_wait", [l EXCEPT !.servers = @ \ {s}])
        /\ UNCHANGED <<user, rqst, out>>
    BY <1>6 DEF Ask, l
  <2>2. [l EXCEPT !.servers = @ \ {s}] \in Locals
        /\ [l EXCEPT !.servers = @ \ {s}].items # <<>>
    BY <1>l, <1>d, <2>1 DEF Locals
  <2> QED BY <2>1, <2>2, GoSafe
<1>7. CASE NextItem(c)
  <2>1. pc[c] \in Dwn /\ UNCHANGED <<user, rqst, out>>
    BY <1>7 DEF NextItem
  <2>2. CASE Tail(l.items) = <<>>
    BY <1>7, <2>1, <2>2, <1>s, GoSafe DEF NextItem, l
  <2>3. CASE Tail(l.items) # <<>>
    <3>1. Gather(Tail(l.items), c) \in Locals /\ Gather(Tail(l.items), c).items # <<>>
      BY <2>1, <2>3, <1>d, <1>g
    <3>2. Go(c, "dwn_ask", Gather(Tail(l.items), c))
      BY <1>7, <2>3 DEF NextItem, l
    <3> QED BY <2>1, <3>1, <3>2, GoSafe
  <2> QED BY <2>2, <2>3
<1>8. CASE DwnTimeout(c) \/ GetNothing(c)
  <2>1. pc[c] \in Dwn /\ Go(c, "dwn_ask", l) /\ UNCHANGED <<user, rqst, out>>
    BY <1>8 DEF DwnTimeout, GetNothing, l
  <2> QED BY <2>1, <1>l, <1>d, GoSafe
<1>9. ASSUME NEW row \in Row, GetAnswer(c, row) PROVE Goal
  BY <1>9, DieSafe DEF GetAnswer
<1>10. CASE GetName(c)
  BY <1>10, DieSafe DEF GetName
<1>11. CASE GetSynch(c)
  <2> DEFINE resp == Head(queue[c])
             who == IF resp.type = "sSynResp" THEN resp.user ELSE resp.best
  <2>1. resp \in DwnResp \cup SynResp
    BY <1>11, HeadOfQueue DEF GetSynch
  <2>2. who \in Users \cup SUBSET Row
    BY <2>1 DEF DwnResp, SynResp
  <2>3. [type |-> "sSynOK", user |-> who] \in Reply
    BY <2>2 DEF Reply
  <2>4. user[c] \in Registered
    BY <1>11 DEF GetSynch, HandlersMatch
  <2> QED BY <1>11, <2>3, <2>4, AnswerSafe DEF GetSynch
<1>12. CASE SynTimeout(c)
  <2>1. user[c] \in Registered /\ Go(c, "main_ready", NoLocals)
        /\ UNCHANGED <<user, rqst, out>>
    BY <1>12 DEF SynTimeout, HandlersMatch
  <2>2. HandlersOK'
    BY <2>1, NoLocalsType DEF Go, HandlersOK, PCs
  <2>3. HandlersMatch'
    BY <2>1 DEF Go, HandlersOK, HandlersMatch, p_updShopOK
  <2> QED BY <2>2, <2>3
<1> QED
  BY <1>1, <1>2, <1>3, <1>4, <1>5, <1>6, <1>7, <1>8, <1>9, <1>10, <1>11, <1>12
     DEF Proceed

LEMMA HandlersNext ==
  ASSUME IInv, [Next]_vars
  PROVE  HandlersOK' /\ HandlersMatch'
<1>1. CASE UNCHANGED handlerVars
  BY <1>1 DEF handlerVars, IInv, TypeOK, HandlersOK, HandlersMatch, p_updShopOK
<1>2. ASSUME NEW m \in net, Serve(m) \/ PutResponse(m) \/ Lose(m)
      PROVE  UNCHANGED handlerVars
  BY <1>2 DEF Serve, PutResponse, Lose
<1>3. ASSUME NEW j \in jobs, Work(j) PROVE UNCHANGED handlerVars
  BY <1>3 DEF Work, JobReadDb, JobReadCache, JobAnswer, JobCheck, JobFix
<1>4. ASSUME NEW s \in Servers, Crash(s) PROVE HandlersOK' /\ HandlersMatch'
  <2>1. HandlersOK'
    BY <1>4, NoLocalsType DEF Crash, IInv, TypeOK, HandlersOK, PCs, NoReply, Reply
  <2>2. HandlersMatch'
    BY <1>4 DEF Crash, IInv, TypeOK, HandlersOK, HandlersMatch, p_updShopOK
  <2> QED BY <2>1, <2>2
<1>5. CASE UNCHANGED vars
  BY <1>5, <1>1 DEF vars
<1> QED
  BY <1>1, <1>2, <1>3, <1>4, <1>5, HandlersFromClient, HandlersProceed DEF Next

\* A step is of handler c, or leaves what c has, unless c's server crashes.
LEMMA OthersLeave ==
  ASSUME IInv, [Next]_vars, NEW c \in Thr, ~FromClient(c), ~Proceed(c), ~Crash(Home[c])
  PROVE  pc'[c] = pc[c] /\ loc'[c] = loc[c] /\ rqst'[c] = rqst[c] /\ out'[c] = out[c]
<1> DEFINE Goal ==
      pc'[c] = pc[c] /\ loc'[c] = loc[c] /\ rqst'[c] = rqst[c] /\ out'[c] = out[c]
<1> USE DEF IInv, TypeOK, HandlersOK
<1>1. CASE UNCHANGED <<pc, loc, rqst, out>>
  BY <1>1
<1>2. ASSUME NEW d \in Thr, d # c, FromClient(d) PROVE Goal
  BY <1>2 DEF FromClient, Accept, HangUp, Reset, Authenticate, RecvUpdate,
              RefuseUpdate, RecvDownload, RecvSynch, Process, Go, Die
<1>3. ASSUME NEW d \in Thr, d # c, Proceed(d) PROVE Goal
  <2>1. /\ pc' = pc \/ \E place : pc' = [pc EXCEPT ![d] = place]
        /\ loc' = loc \/ \E l : loc' = [loc EXCEPT ![d] = l]
        /\ rqst' = rqst
        /\ out' = out \/ \E reply : out' = [out EXCEPT ![d] = reply]
    BY <1>3 DEF Proceed, StoreUpdate, ReadDb, ReadCache, PickBest, PickNone, Ask, NextItem,
                DwnTimeout, GetNothing, GetAnswer, GetName, GetSynch, SynTimeout, Answer,
                Go, Die
  <2> QED BY <1>3, <2>1
<1>4. ASSUME NEW m \in net, Serve(m) \/ PutResponse(m) \/ Lose(m) PROVE Goal
  BY <1>4, <1>1 DEF Serve, PutResponse, Lose, handlerVars
<1>5. ASSUME NEW j \in jobs, Work(j) PROVE Goal
  BY <1>5, <1>1 DEF Work, JobReadDb, JobReadCache, JobAnswer, JobCheck, JobFix, handlerVars
<1>6. ASSUME NEW s \in Servers, Crash(s) PROVE Goal
  BY <1>6 DEF Crash
<1>7. CASE UNCHANGED vars
  BY <1>7, <1>1 DEF vars, handlerVars
<1> QED BY <1>2, <1>3, <1>4, <1>5, <1>6, <1>7 DEF Next

LEMMA CountersNext ==
  ASSUME IInv, [Next]_vars
  PROVE  served' \in Nat /\ crashes' \in Nat
<1> USE DEF IInv, TypeOK, boundVars
<1>1. ASSUME NEW c \in Thr, FromClient(c) PROVE served' \in Nat /\ crashes' \in Nat
  BY <1>1 DEF FromClient, Accept, HangUp, Reset, Authenticate, RecvUpdate,
              RefuseUpdate, RecvDownload, RecvSynch, Receive
<1>2. ASSUME NEW c \in Thr, Proceed(c) PROVE UNCHANGED boundVars
  BY <1>2 DEF Proceed, StoreUpdate, ReadDb, ReadCache, PickBest, PickNone, Ask,
              NextItem, DwnTimeout, GetNothing, GetAnswer, GetName, GetSynch,
              SynTimeout
<1>3. ASSUME NEW m \in net, Serve(m) \/ PutResponse(m) \/ Lose(m)
      PROVE  UNCHANGED boundVars
  BY <1>3 DEF Serve, PutResponse, Lose
<1>4. ASSUME NEW j \in jobs, Work(j) PROVE UNCHANGED boundVars
  BY <1>4 DEF Work, JobReadDb, JobReadCache, JobAnswer, JobCheck, JobFix
<1>5. ASSUME NEW s \in Servers, Crash(s) PROVE served' \in Nat /\ crashes' \in Nat
  BY <1>5 DEF Crash
<1> QED BY <1>1, <1>2, <1>3, <1>4, <1>5 DEF Next, vars

LEMMA NextIInv == IInv /\ [Next]_vars => IInv'
BY TablesNext, MailNext, UdpNext, HandlersNext, CountersNext DEF IInv, TypeOK

THEOREM Invariance == Spec => []IInv
BY InitIInv, NextIInv, PTL DEF Spec

\* Every variable keeps its type: no handler takes the head of an empty list or
\* queue, and no step meets a request of another kind than it expects.
THEOREM TypeCorrect == Spec => []TypeOK
BY Invariance, PTL DEF IInv

\* No database ever holds a row of a shop that is not its server's, or of an
\* unregistered user, whatever other servers ask it to correct.
THEOREM DatabasesAreLocal == Spec => []DbIsLocal
BY Invariance, PTL DEF IInv
-----------------------------------------------------------------------------
\* Every step keeps the queues in step with what the handlers are doing.
LEMMA QueuesMatchNext ==
  ASSUME IInv, QueuesMatchWaits, [Next]_vars
  PROVE  QueuesMatchWaits'
<1> USE DEF IInv, TypeOK, HandlersOK, MailOK, QueuesMatchWaits, Go
<1>1. ASSUME NEW c \in Thr, FromClient(c) PROVE QueuesMatchWaits'
  <2>1. CASE Accept(c) \/ Reset(c)
    BY <2>1 DEF Accept, Reset, Die, mailVars
  <2>2. CASE HangUp(c) \/ \E r \in Menu[c] : Authenticate(c, r)
    BY <2>2 DEF HangUp, Authenticate, Cleanup, mailVars
  <2>3. ASSUME NEW r \in Menu[c],
               RecvUpdate(c, r) \/ RefuseUpdate(c, r) \/ RecvDownload(c, r)
        PROVE  QueuesMatchWaits'
    <3>1. UNCHANGED mailVars /\ pc[c] = "main_ready"
      BY <2>3 DEF RecvUpdate, RefuseUpdate, RecvDownload, Receive
    <3>2. \E place \in {"main_ready", "upd_store", "dwn_scan"} :
            pc' = [pc EXCEPT ![c] = place]
      BY <2>3 DEF RecvUpdate, RefuseUpdate, RecvDownload, Receive, Process
    <3> QED BY <3>1, <3>2 DEF mailVars
  <2>4. ASSUME NEW r \in Menu[c], RecvSynch(c, r) PROVE QueuesMatchWaits'
    BY <2>4 DEF RecvSynch, Process, NewQueue
  <2> QED BY <1>1, <2>1, <2>2, <2>3, <2>4 DEF FromClient
<1>2. ASSUME NEW c \in Thr, Proceed(c) PROVE QueuesMatchWaits'
  <2>1. CASE StoreUpdate(c)
    BY <2>1 DEF StoreUpdate, Answer, Die, mailVars
  <2>2. ASSUME NEW store \in Stores, ReadDb(c, store) PROVE QueuesMatchWaits'
    BY <2>2 DEF ReadDb, Die, Scanning, mailVars
  <2>3. ASSUME NEW store \in Stores, ReadCache(c, store) PROVE QueuesMatchWaits'
    BY <2>3 DEF ReadCache, NewQueue, mailVars
  <2>4. CASE PickBest(c) \/ PickNone(c)
    BY <2>4 DEF PickBest, PickNone, Answer, mailVars
  <2>5. ASSUME NEW s \in Servers, Ask(c, s) PROVE QueuesMatchWaits'
    BY <2>5 DEF Ask, mailVars
  <2>6. CASE NextItem(c) \/ DwnTimeout(c) \/ SynTimeout(c)
    BY <2>6 DEF NextItem, DwnTimeout, SynTimeout, mailVars
  <2>7. CASE GetNothing(c) \/ GetName(c) \/ GetSynch(c)
             \/ \E row \in Row : GetAnswer(c, row)
    BY <2>7 DEF GetNothing, GetName, GetSynch, GetAnswer, Take, Die, Answer
  <2> QED BY <1>2, <2>1, <2>2, <2>3, <2>4, <2>5, <2>6, <2>7 DEF Proceed
<1>3. ASSUME NEW m \in net, Serve(m) \/ PutResponse(m) \/ Lose(m)
      PROVE  QueuesMatchWaits'
  BY <1>3 DEF Serve, PutResponse, Lose, handlerVars, mailVars
<1>4. ASSUME NEW j \in jobs, Work(j) PROVE QueuesMatchWaits'
  <2>1. UNCHANGED <<pc, pending, queue>>
    BY <1>4 DEF Work, JobReadDb, JobReadCache, JobAnswer, JobCheck, JobFix,
                handlerVars, mailVars
  <2> QED BY <2>1
<1>5. ASSUME NEW s \in Servers, Crash(s) PROVE QueuesMatchWaits'
  BY <1>5 DEF Crash
<1>6. CASE UNCHANGED vars
  BY <1>6 DEF vars, handlerVars, mailVars
<1> QED BY <1>1, <1>2, <1>3, <1>4, <1>5, <1>6 DEF Next

\* process() finds its queue in pending whenever it waits, and a handler that
\* closes normally takes its queue along, late responses or not.
THEOREM QueuesAlwaysMatch == Spec => []QueuesMatchWaits
<1>1. Init => QueuesMatchWaits
  BY DEF Init, QueuesMatchWaits
<1> QED BY <1>1, InitIInv, NextIInv, QueuesMatchNext, PTL DEF Spec
-----------------------------------------------------------------------------
\* The refinement: each client handler implements Service.  Every step of the network
\* is a step of Service or a stutter for each handler, by the state of its client's
\* conversation (Stage).

\* A handler waits for a response to a synch only while it serves one: besides
\* HandlersMatch, what the answers' kinds rest on.
SynchesMatch == \A c \in Thr : pc[c] = "syn_wait" => rqst[c].type = "cSynch"

Served(c) == Serving(c)!Step \/ UNCHANGED <<Stage(c), rqst[c].type, out[c].type>>

LEMMA InitServes ==
  ASSUME Init, NEW c \in Thr PROVE Serving(c)!ServiceInit
BY DEF Init, Stage, NoRequest, NoReply, Serving!ServiceInit

LEMMA AnswerKinds ==
  ASSUME NEW c
  PROVE  /\ DOMAIN Serving(c)!AnswersTo = {"cUpdate", "cDownload", "cSynch"}
         /\ Serving(c)!AnswersTo["cUpdate"] = {"sUpdOK", "sUpdErr"}
         /\ Serving(c)!AnswersTo["cDownload"] = {"sDwnInfo"}
         /\ Serving(c)!AnswersTo["cSynch"] = {"sSynOK"}
BY DEF Serving!AnswersTo

\* How a handler's step looks to its client, action by action of Service.
LEMMA Steps ==
  ASSUME NEW c,
         \/ Stage(c) = "fresh" /\ Stage(c)' = "anonymous"
              /\ UNCHANGED <<rqst[c].type, out[c].type>>
         \/ Stage(c) = "anonymous" /\ Stage(c)' = "ready"
              /\ out'[c].type = "sAuthOK" /\ UNCHANGED rqst[c].type
         \/ Stage(c) = "anonymous" /\ Stage(c)' = "closed"
              /\ out'[c].type = "sAuthErr" /\ UNCHANGED rqst[c].type
         \/ Stage(c) = "ready" /\ Stage(c)' = "ready"
              /\ rqst'[c].type = "cUpdate" /\ out'[c].type = "sUpdErr"
         \/ Stage(c) = "busy" /\ Stage(c)' = "ready" /\ rqst[c].type = "cSynch"
              /\ UNCHANGED <<rqst[c].type, out[c].type>>
         \/ Stage(c) \in {"anonymous", "ready", "busy"} /\ Stage(c)' = "dead"
              /\ UNCHANGED <<rqst[c].type, out[c].type>>
         \/ Stage(c) \in {"anonymous", "ready"} /\ Stage(c)' = "closed"
              /\ UNCHANGED <<rqst[c].type, out[c].type>>
         \/ Stage(c)' = "fresh" /\ rqst'[c].type = "none" /\ out'[c].type = "none"
  PROVE  Serving(c)!Step
BY DEF Serving!Step, Serving!Open, Serving!Login, Serving!Refuse, Serving!LeaveUnanswered,
       Serving!Perish, Serving!Close, Serving!Reset

LEMMA BeginSteps ==
  ASSUME NEW c, Stage(c) = "ready", Stage(c)' = "busy", out'[c].type = "none",
         rqst'[c].type \in {"cUpdate", "cDownload", "cSynch"}
  PROVE  Serving(c)!Step
BY AnswerKinds DEF Serving!Step, Serving!Begin

LEMMA ReplySteps ==
  ASSUME NEW c, Stage(c) = "busy", Stage(c)' = "ready", UNCHANGED rqst[c].type,
         \/ rqst[c].type = "cUpdate" /\ out'[c].type = "sUpdOK"
         \/ rqst[c].type = "cDownload" /\ out'[c].type = "sDwnInfo"
         \/ rqst[c].type = "cSynch" /\ out'[c].type = "sSynOK"
  PROVE  Serving(c)!Step
<1>1. /\ rqst[c].type \in DOMAIN Serving(c)!AnswersTo
      /\ out'[c].type \in Serving(c)!AnswersTo[rqst[c].type]
  BY AnswerKinds
<1>2. Serving(c)!Reply(out'[c].type)
  BY <1>1 DEF Serving!Reply
<1> QED BY <1>1, <1>2 DEF Serving!Step
-----------------------------------------------------------------------------
LEMMA ServedFromClient ==
  ASSUME IInv, NEW c \in Thr, FromClient(c)
  PROVE  Served(c) /\ (pc'[c] = "syn_wait" => rqst'[c].type = "cSynch")
<1> DEFINE Goal == Served(c) /\ (pc'[c] = "syn_wait" => rqst'[c].type = "cSynch")
<1> USE DEF IInv, TypeOK, HandlersOK, Stage, Served
<1>1. CASE Accept(c)
  BY <1>1, Steps DEF Accept
<1>2. CASE HangUp(c)
  BY <1>2, Steps DEF HangUp
<1>3. CASE Reset(c)
  BY <1>3, Steps DEF Reset, Die, Go
<1>4. ASSUME NEW r \in Menu[c], Authenticate(c, r) PROVE Goal
  BY <1>4, Steps DEF Authenticate
<1>5. ASSUME NEW r \in Menu[c], RefuseUpdate(c, r) PROVE Goal
  BY <1>5, Steps DEF RefuseUpdate, Receive
<1>6. ASSUME NEW r \in Menu[c], RecvUpdate(c, r) \/ RecvDownload(c, r) \/ RecvSynch(c, r)
      PROVE  Goal
  <2>1. /\ pc[c] = "main_ready" /\ out'[c] = NoReply /\ rqst'[c] = r
        /\ \/ pc'[c] = "upd_store" /\ r.type = "cUpdate"
           \/ pc'[c] = "dwn_scan" /\ r.type = "cDownload"
           \/ pc'[c] = "syn_wait" /\ r.type = "cSynch"
    BY <1>6 DEF RecvUpdate, RecvDownload, RecvSynch, Receive, Process, Go
  <2> QED BY <2>1, BeginSteps DEF NoReply
<1> QED BY <1>1, <1>2, <1>3, <1>4, <1>5, <1>6 DEF FromClient

LEMMA ServedProceed ==
  ASSUME IInv, SynchesMatch, NEW c \in Thr, Proceed(c)
  PROVE  Served(c) /\ (pc'[c] = "syn_wait" => rqst'[c].type = "cSynch")
<1> DEFINE Goal == Served(c) /\ (pc'[c] = "syn_wait" => rqst'[c].type = "cSynch")
           busy == {"upd_store", "dwn_scan", "dwn_ask", "dwn_wait", "dwn_rescan", "syn_wait"}
<1> USE DEF IInv, TypeOK, HandlersOK
<1>d. ASSUME pc[c] \in busy, Die(c) PROVE Goal
  BY <1>d, Steps DEF Die, Go, Stage, Served
<1>s. ASSUME pc[c] \in busy, pc'[c] \in busy \ {"syn_wait"}, UNCHANGED <<rqst, out>>
      PROVE  Goal
  BY <1>s DEF Stage, Served
<1>a. ASSUME NEW reply, pc[c] \in busy, Answer(c, reply),
             \/ rqst[c].type = "cUpdate" /\ reply.type = "sUpdOK"
             \/ rqst[c].type = "cDownload" /\ reply.type = "sDwnInfo"
             \/ rqst[c].type = "cSynch" /\ reply.type = "sSynOK"
      PROVE  Goal
  BY <1>a, ReplySteps DEF Answer, Go, Stage, Served
<1>1. CASE StoreUpdate(c)
  <2>1. pc[c] = "upd_store" /\ rqst[c].type = "cUpdate"
    BY <1>1 DEF StoreUpdate, HandlersMatch
  <2>2. Die(c) \/ Answer(c, [type |-> "sUpdOK"])
    BY <1>1 DEF StoreUpdate
  <2> QED BY <2>1, <2>2, <1>a, <1>d
<1>2. ASSUME NEW store \in Stores, ReadDb(c, store) PROVE Goal
  BY <1>2, <1>s, <1>d DEF ReadDb, Scanning
<1>3. ASSUME NEW store \in Stores, ReadCache(c, store) PROVE Goal
  BY <1>3, <1>s DEF ReadCache, Scanning, Go
<1>4. CASE PickBest(c) \/ PickNone(c)
  <2>1. pc[c] \in {"dwn_scan", "dwn_rescan"} /\ rqst[c].type = "cDownload"
    BY <1>4 DEF PickBest, PickNone, Scanning, HandlersMatch
  <2>2. \/ \E rows : Answer(c, [type |-> "sDwnInfo", rows |-> rows])
        \/ UNCHANGED <<pc, rqst, out>>
    BY <1>4 DEF PickBest, PickNone
  <2>3. CASE UNCHANGED <<pc, rqst, out>>
    BY <2>1, <2>3, <1>s
  <2>4. ASSUME NEW rows, Answer(c, [type |-> "sDwnInfo", rows |-> rows]) PROVE Goal
    BY <2>1, <2>4, <1>a
  <2> QED BY <2>2, <2>3, <2>4
<1>5. CASE \/ NextItem(c) \/ DwnTimeout(c) \/ GetNothing(c)
           \/ \E s \in Servers : Ask(c, s)
  BY <1>5, <1>s DEF NextItem, DwnTimeout, GetNothing, Ask, Go
<1>6. CASE GetName(c) \/ \E row \in Row : GetAnswer(c, row)
  BY <1>6, <1>d DEF GetName, GetAnswer
<1>7. CASE GetSynch(c)
  <2>1. pc[c] = "syn_wait" /\ rqst[c].type = "cSynch"
    BY <1>7 DEF GetSynch, SynchesMatch
  <2>2. \E who : Answer(c, [type |-> "sSynOK", user |-> who])
    BY <1>7 DEF GetSynch
  <2> QED BY <2>1, <2>2, <1>a
<1>8. CASE SynTimeout(c)
  <2>1. pc[c] = "syn_wait" /\ rqst[c].type = "cSynch"
    BY <1>8 DEF SynTimeout, SynchesMatch
  <2> QED BY <1>8, <2>1, Steps DEF SynTimeout, Go, Stage, Served
<1> QED BY <1>1, <1>2, <1>3, <1>4, <1>5, <1>6, <1>7, <1>8 DEF Proceed

\* Each step serves every client, or does not concern it.
LEMMA ServedNext ==
  ASSUME IInv, SynchesMatch, [Next]_vars, NEW c \in Thr
  PROVE  Served(c) /\ (pc'[c] = "syn_wait" => rqst'[c].type = "cSynch")
<1>1. CASE Crash(Home[c])
  BY <1>1, Steps DEF Crash, Stage, Served, NoRequest, NoReply
<1>2. CASE ~FromClient(c) /\ ~Proceed(c) /\ ~Crash(Home[c])
  BY <1>2, OthersLeave DEF Stage, Served, SynchesMatch
<1> QED BY <1>1, <1>2, ServedFromClient, ServedProceed

\* To its client, each handler is a Service: one answer at most to each request,
\* of the kind the client waits for, in the order of the requests, and only a
\* synch goes unanswered, whatever other threads and servers do.
THEOREM HandlersImplementService == Spec => HandlersServe
<1>1. Init => SynchesMatch
  BY DEF Init, SynchesMatch
<1>2. IInv /\ SynchesMatch /\ [Next]_vars => SynchesMatch'
  BY ServedNext DEF SynchesMatch
<1>3. Init => \A c \in Thr : Serving(c)!ServiceInit
  BY InitServes
<1>4. IInv /\ SynchesMatch /\ [Next]_vars
        => [\A c \in Thr :
              Serving(c)!Step \/ UNCHANGED <<Stage(c), rqst[c].type, out[c].type>>]_vars
  BY ServedNext DEF Served
<1> QED BY <1>1, <1>2, <1>3, <1>4, InitIInv, NextIInv, PTL DEF Spec, HandlersServe
=============================================================================
